---------------------------- MODULE RecordsProofs ----------------------------
(***************************************************************************)
(* The records of a company stay what they were last made, for any people, *)
(* requests in flight and bounds: the accounts and the cards of clients,   *)
(* the sessions of a user, the permissions of a role, the dictionaries of  *)
(* goods and the settings.                                                 *)
(*                                                                         *)
(* The accounts add up: debts and what the pages show of them              *)
(* (DebtTotalsAgree), the credit of returns (CreditsRoundTrip) and the     *)
(* loyalty balance (LoyaltyBacked).  The three do not hold by themselves:  *)
(* a credit can be given back because a live return that credited a debt   *)
(* still has a debt to give it to, and Client.debtUzs stays right because  *)
(* the debts of a sale are all of its client (AccountInv).                 *)
(*                                                                         *)
(* Every other handler here reads, and writes later.  What carries each    *)
(* proof is what a request in flight still knows: which reading justifies  *)
(* the write it is about to make, and that whoever wrote in between has    *)
(* made that reading an old one, which the histories record.               *)
(***************************************************************************)
EXTENDS MCRecords, TotalsTheorems, WellFoundedInduction

-----------------------------------------------------------------------------
(* The accounts of clients.                                                *)

AdjustmentRecord ==
    [state : {"none", "live", "cancelled"}, sale : Sale \cup {NoSale},
     total : Nat, newTotal : Nat, taken : Nat, earned : Nat, refunded : Nat, credit : Nat]
SaleRecord ==
    [state : {"none", "paid", "cancelled"}, client : Client \cup {Nobody}, total : Nat,
     earned : Nat, spent : Nat]

\* The sets and sums of the model as functions of the rows they are read from.
OwedOf(who, for, s) == {d \in Debt : who[d] # Nobody /\ for[d] = s}
OwnDebts(who, c) == {d \in Debt : who[d] = c}
LiveOf(adj, s) == {x \in Adjustment : adj[x].state = "live" /\ adj[x].sale = s}
LiveSum(adj, s, k) == SumOver([x \in Adjustment |-> adj[x][k]], LiveOf(adj, s))
Columns == {"total", "taken", "earned", "refunded", "credit"}

\* A sale that was paid has a client and a total.
SalesHold ==
    \A s \in Sale :
        /\ sale[s].state = "none" => sale[s].client = Nobody
        /\ sale[s].state # "none" => sale[s].client \in Client /\ sale[s].total > 0

\* A live adjustment is of a paid sale, and what it credited can be given back.
AdjustmentsHold ==
    \A x \in Adjustment : adjustment[x].state = "live" =>
        /\ adjustment[x].sale \in Sale
        /\ sale[adjustment[x].sale].state = "paid"
        /\ adjustment[x].credit > 0 => DebtsOf(adjustment[x].sale) # {}

\* Debts are numbered by their age; those of a sale are of its client.
DebtsHold ==
    \A d \in Debt :
        /\ debtor[d] # Nobody => d <= debts
        /\ d > debts => repaid[d] = 0
        /\ IsFiniteSet(repaidKeys[d])
        /\ debtor[d] # Nobody /\ debtSale[d] \in Sale => debtor[d] = sale[debtSale[d]].client

AccountInv ==
    /\ TypeOK /\ SalesHold /\ AdjustmentsHold /\ DebtsHold
    /\ DebtsAddUp /\ CreditsRoundTrip /\ LoyaltyBacked

-----------------------------------------------------------------------------
(* Arithmetic and sets.                                                    *)

\* A rounded share is a natural number.
LEMMA ShareType ==
    ASSUME NEW a \in Nat, NEW part \in Nat, NEW whole \in Nat, whole > 0
    PROVE  Share(a, part, whole) \in Nat
<1> DEFINE n == 2 * a * part + whole
           m == 2 * whole
<1>1. n \in Nat
  <2>1. a * part \in Nat
    OBVIOUS
  <2>2. 2 * a * part = 2 * (a * part)
    OBVIOUS
  <2> QED BY <2>1, <2>2
<1>2. m \in Nat /\ m > 0
  OBVIOUS
<1>3. n \div m \in Nat
  <2> HIDE DEF n, m
  <2> QED BY <1>1, <1>2
<1> QED BY <1>3 DEF Share

\* The oldest of some debts is one of them.
LEMMA OldestIsOne ==
    ASSUME NEW D \in SUBSET Debt, D # {}, MaxDebts \in Nat
    PROVE  Oldest(D) \in D
<1> DEFINE Less == {p \in Nat \X Nat : p[1] < p[2]}
<1>1. IsWellFoundedOn(Less, Nat)
  <2>1. IsWellFoundedOn(OpToRel(<, Nat), Nat)
    BY NatLessThanWellFounded
  <2> QED BY <2>1 DEF OpToRel
<1>2. D \subseteq Nat
  BY DEF Debt
<1>3. PICK d \in D : \A e \in D : <<e, d>> \notin Less
  <2> HIDE DEF Less
  <2> QED BY <1>1, <1>2, WFMin
<1>4. ASSUME NEW e \in D PROVE d <= e
  <2>1. d \in Nat /\ e \in Nat
    BY <1>2
  <2>2. e < d => <<e, d>> \in Less
    BY <2>1
  <2> HIDE DEF Less
  <2> QED BY <1>3, <2>1, <2>2
<1> QED BY <1>4 DEF Oldest

LEMMA DebtFinite == IsFiniteSet(Debt) /\ \A D \in SUBSET Debt : IsFiniteSet(D)
<1>1. IsFiniteSet(Debt)
  BY FS_Interval, AccountsAssumption DEF Debt
<1> QED BY <1>1, FS_Subset

-----------------------------------------------------------------------------
(* Sums over the live adjustments of a sale.                               *)

LEMMA ColumnType ==
    ASSUME NEW adj \in [Adjustment -> AdjustmentRecord], NEW k \in Columns, NEW x \in Adjustment
    PROVE  adj[x][k] \in Nat
<1>1. adj[x] \in AdjustmentRecord
  OBVIOUS
<1>2. CASE k = "total"
  BY <1>1, <1>2 DEF AdjustmentRecord
<1>3. CASE k = "taken"
  BY <1>1, <1>3 DEF AdjustmentRecord
<1>4. CASE k = "earned"
  BY <1>1, <1>4 DEF AdjustmentRecord
<1>5. CASE k = "refunded"
  BY <1>1, <1>5 DEF AdjustmentRecord
<1>6. CASE k = "credit"
  BY <1>1, <1>6 DEF AdjustmentRecord
<1> QED BY <1>2, <1>3, <1>4, <1>5, <1>6 DEF Columns

LEMMA LiveSumType ==
    ASSUME NEW adj \in [Adjustment -> AdjustmentRecord], NEW k \in Columns, NEW s
    PROVE  LiveSum(adj, s, k) \in Nat
<1>1. IsFiniteSet(LiveOf(adj, s)) /\ LiveOf(adj, s) \subseteq Adjustment
  BY FS_Subset, AccountsAssumption DEF LiveOf
<1>2. \A x \in LiveOf(adj, s) : [y \in Adjustment |-> adj[y][k]][x] \in Int
  BY <1>1, ColumnType
<1> QED BY <1>1, <1>2, SumType DEF LiveSum

\* An adjustment that becomes live adds its own to the sums of its sale.
LEMMA LiveAdded ==
    ASSUME NEW adj \in [Adjustment -> AdjustmentRecord],
           NEW adj2 \in [Adjustment -> AdjustmentRecord],
           NEW x \in Adjustment, adj[x].state # "live", adj2[x].state = "live",
           \A y \in Adjustment \ {x} : adj2[y] = adj[y],
           NEW s, NEW k \in Columns
    PROVE  /\ adj2[x].sale = s => LiveSum(adj2, s, k) = LiveSum(adj, s, k) + adj2[x][k]
           /\ adj2[x].sale # s => LiveSum(adj2, s, k) = LiveSum(adj, s, k)
<1> DEFINE f == [y \in Adjustment |-> adj[y][k]]
           f2 == [y \in Adjustment |-> adj2[y][k]]
           L == LiveOf(adj, s)
           L2 == LiveOf(adj2, s)
<1>1. /\ L \subseteq Adjustment /\ IsFiniteSet(L) /\ L2 \subseteq Adjustment /\ IsFiniteSet(L2)
      /\ x \notin L
  BY FS_Subset, AccountsAssumption DEF LiveOf
<1>2. \A y \in L : f2[y] = f[y]
  BY <1>1
<1>3. SumOver(f2, L) = SumOver(f, L)
  <2> HIDE DEF f, f2, L
  <2> QED BY <1>2, SumCongruence
<1>4. CASE adj2[x].sale = s
  <2>1. x \in L2 /\ L2 \ {x} = L
    BY <1>1, <1>4 DEF LiveOf
  <2>2. \A y \in L2 : f2[y] \in Nat
    BY <1>1, ColumnType
  <2>3. SumOver(f2, L2) = SumOver(f2, L2 \ {x}) + f2[x]
    <3> HIDE DEF f2, L2
    <3> QED BY <1>1, <2>1, <2>2, SumSplit
  <2>4. f2[x] = adj2[x][k]
    OBVIOUS
  <2> QED BY <1>3, <1>4, <2>1, <2>3, <2>4 DEF LiveSum
<1>5. CASE adj2[x].sale # s
  <2>1. L2 = L
    BY <1>1, <1>5 DEF LiveOf
  <2> QED BY <1>3, <1>5, <2>1 DEF LiveSum
<1> QED BY <1>4, <1>5

\* A sale without live adjustments has no sums of them.
LEMMA LiveNone ==
    ASSUME NEW adj, NEW s, LiveOf(adj, s) = {}, NEW k
    PROVE  LiveSum(adj, s, k) = 0
BY SumEmpty DEF LiveSum

-----------------------------------------------------------------------------
(* Debts.                                                                  *)

DebtTypes ==
    /\ debts \in 0 .. MaxDebts
    /\ debtor \in [Debt -> Client \cup {Nobody}] /\ debtSale \in [Debt -> Sale \cup {NoSale}]
    /\ amount \in [Debt -> Nat] /\ remaining \in [Debt -> Nat] /\ repaid \in [Debt -> Nat]
    /\ debtStatus \in [Debt -> {"unpaid", "partial", "paid"}]
    /\ repaidKeys \in [Debt -> SUBSET Key] /\ repaidPlain \in [Debt -> Nat]
    /\ debtUzs \in [Client -> Nat] /\ issued \in [Sale -> Nat]

DebtInv == DebtTypes /\ DebtsHold /\ DebtsAddUp

\* What DebtsAddUp says of the rows, of the totals of clients and of the repayments.
RowsAddUp(left, back, all, state) ==
    \A d \in Debt : all[d] = left[d] + back[d] /\ state[d] = StatusOf(left[d], back[d])
TotalsAddUp(who, left, owed) ==
    \A c \in Client : owed[c] = SumOver(left, OwnDebts(who, c))
RepaymentsAddUp(back, plain, keys) ==
    \A d \in Debt : back[d] = plain[d] + SumOver(KeyAmount, keys[d])

LEMMA AddUpParts ==
    /\ DebtsAddUp <=> /\ RowsAddUp(remaining, repaid, amount, debtStatus)
                      /\ TotalsAddUp(debtor, remaining, debtUzs)
                      /\ RepaymentsAddUp(repaid, repaidPlain, repaidKeys)
    /\ DebtsAddUp' <=> /\ RowsAddUp(remaining', repaid', amount', debtStatus')
                       /\ TotalsAddUp(debtor', remaining', debtUzs')
                       /\ RepaymentsAddUp(repaid', repaidPlain', repaidKeys')
BY DEF DebtsAddUp, RowsAddUp, TotalsAddUp, RepaymentsAddUp, OwnDebts

\* RefreshDebtTotal(c) puts the totals of all clients right when only debts of c
\* have changed, before or after.
LEMMA TotalsRefreshed ==
    ASSUME DebtInv, NEW c \in Client, remaining' \in [Debt -> Nat],
           debtUzs' = [debtUzs EXCEPT ![c] = SumOver(remaining', OwnDebts(debtor', c))],
           \A d \in Debt : \/ debtor'[d] = debtor[d] /\ remaining'[d] = remaining[d]
                           \/ debtor[d] \in {c, Nobody} /\ debtor'[d] \in {c, Nobody}
    PROVE  /\ debtUzs' \in [Client -> Nat]
           /\ TotalsAddUp(debtor', remaining', debtUzs')
<1> DEFINE Sum2(b) == SumOver(remaining', OwnDebts(debtor', b))
<1>1. Sum2(c) \in Nat
  <2>1. IsFiniteSet(OwnDebts(debtor', c)) /\ OwnDebts(debtor', c) \subseteq Debt
    BY DebtFinite DEF OwnDebts
  <2>2. \A d \in OwnDebts(debtor', c) : remaining'[d] \in Int
    BY <2>1
  <2> QED BY <2>1, <2>2, SumType
<1>2. debtUzs' \in [Client -> Nat] /\ debtUzs'[c] = Sum2(c)
  <2> HIDE DEF Sum2
  <2>1. debtUzs \in [Client -> Nat] /\ debtUzs' = [debtUzs EXCEPT ![c] = Sum2(c)]
    BY DEF DebtInv, DebtTypes, Sum2
  <2> QED BY <1>1, <2>1
<1>3. ASSUME NEW b \in Client, b # c PROVE debtUzs'[b] = Sum2(b)
  <2>1. b # Nobody
    BY AccountsAssumption
  <2>2. OwnDebts(debtor', b) = OwnDebts(debtor, b)
    BY <1>3, <2>1 DEF OwnDebts
  <2>3. \A d \in OwnDebts(debtor, b) : remaining[d] = remaining'[d]
    BY <1>3, <2>1 DEF OwnDebts
  <2>4. SumOver(remaining, OwnDebts(debtor, b)) = SumOver(remaining', OwnDebts(debtor, b))
    BY <2>3, SumCongruence
  <2>5. debtUzs[b] = SumOver(remaining, OwnDebts(debtor, b))
    BY AddUpParts DEF DebtInv, TotalsAddUp
  <2>6. debtUzs'[b] = debtUzs[b]
    BY <1>3 DEF DebtInv, DebtTypes
  <2> QED BY <2>2, <2>4, <2>5, <2>6
<1> QED BY <1>2, <1>3 DEF TotalsAddUp

\* A debt is opened under the next number.
LEMMA OpenDebtKeeps ==
    ASSUME DebtInv, NEW d \in Debt, NEW c \in Client, NEW s \in Sale \cup {NoSale},
           NEW a \in Nat, a > 0, OpenDebt(d, c, s, a),
           s \in Sale => sale'[s].client = c,
           \A t \in Sale : sale'[t].client = sale[t].client \/ sale[t].client = Nobody
    PROVE  /\ DebtInv'
           /\ \A t \in Sale :
                 SumOver(amount', OwedOf(debtor', debtSale', t))
                    = SumOver(amount, DebtsOf(t)) + (IF t = s THEN a ELSE 0)
           /\ \A t \in Sale : DebtsOf(t) \subseteq OwedOf(debtor', debtSale', t)
<1>1. /\ d = debts + 1 /\ d \in Nat /\ debts' = d
      /\ debtor' = [debtor EXCEPT ![d] = c] /\ debtSale' = [debtSale EXCEPT ![d] = s]
      /\ amount' = [amount EXCEPT ![d] = a] /\ remaining' = [remaining EXCEPT ![d] = a]
      /\ repaid' = [repaid EXCEPT ![d] = 0] /\ debtStatus' = [debtStatus EXCEPT ![d] = "unpaid"]
      /\ debtUzs' = [debtUzs EXCEPT ![c] = SumOver(remaining', OwnDebts(debtor', c))]
      /\ issued' = IF s = NoSale THEN issued ELSE [issued EXCEPT ![s] = @ + a]
      /\ repaidKeys' = repaidKeys /\ repaidPlain' = repaidPlain
  BY DEF OpenDebt, RefreshDebtTotal, OwnDebts, Debt
<1>2. debts \in Nat /\ debts < d /\ debtor[d] = Nobody /\ repaid[d] = 0 /\ c # Nobody
  BY <1>1, AccountsAssumption DEF DebtInv, DebtTypes, DebtsHold
<1>3. /\ debtor' \in [Debt -> Client \cup {Nobody}] /\ debtSale' \in [Debt -> Sale \cup {NoSale}]
      /\ amount' \in [Debt -> Nat] /\ remaining' \in [Debt -> Nat] /\ repaid' \in [Debt -> Nat]
      /\ debtStatus' \in [Debt -> {"unpaid", "partial", "paid"}]
      /\ repaidKeys' \in [Debt -> SUBSET Key] /\ repaidPlain' \in [Debt -> Nat]
      /\ debts' \in 0 .. MaxDebts
  BY <1>1 DEF DebtInv, DebtTypes, Debt
<1>4. issued' \in [Sale -> Nat]
  BY <1>1 DEF DebtInv, DebtTypes
<1>5. debtUzs' \in [Client -> Nat] /\ TotalsAddUp(debtor', remaining', debtUzs')
  <2>1. \A e \in Debt : \/ debtor'[e] = debtor[e] /\ remaining'[e] = remaining[e]
                        \/ debtor[e] \in {c, Nobody} /\ debtor'[e] \in {c, Nobody}
    BY <1>1, <1>2 DEF DebtInv, DebtTypes
  <2> QED BY <1>1, <1>3, <2>1, TotalsRefreshed
<1>6. RowsAddUp(remaining', repaid', amount', debtStatus')
  <2> SUFFICES ASSUME NEW e \in Debt
               PROVE  /\ amount'[e] = remaining'[e] + repaid'[e]
                      /\ debtStatus'[e] = StatusOf(remaining'[e], repaid'[e])
    BY DEF RowsAddUp
  <2>1. CASE e = d
    BY <1>1, <2>1 DEF DebtInv, DebtTypes, StatusOf
  <2>2. CASE e # d
    BY <1>1, <2>2, AddUpParts DEF DebtInv, DebtTypes, RowsAddUp
  <2> QED BY <2>1, <2>2
<1>7. RepaymentsAddUp(repaid', repaidPlain', repaidKeys')
  <2>1. repaid' = repaid
    BY <1>1, <1>2 DEF DebtInv, DebtTypes
  <2> QED BY <1>1, <2>1, AddUpParts DEF DebtInv
<1>8. DebtsHold'
  <2> SUFFICES ASSUME NEW e \in Debt
               PROVE  /\ debtor'[e] # Nobody => e <= debts'
                      /\ e > debts' => repaid'[e] = 0
                      /\ IsFiniteSet(repaidKeys'[e])
                      /\ debtor'[e] # Nobody /\ debtSale'[e] \in Sale
                            => debtor'[e] = sale'[debtSale'[e]].client
    BY DEF DebtsHold
  <2>1. CASE e = d
    BY <1>1, <1>2, <2>1 DEF DebtInv, DebtTypes, DebtsHold
  <2>2. CASE e # d
    <3>1. /\ debtor'[e] = debtor[e] /\ debtSale'[e] = debtSale[e] /\ repaid'[e] = repaid[e]
          /\ e \in Nat
      BY <1>1, <2>2 DEF DebtInv, DebtTypes, Debt
    <3>2. debtor[e] # Nobody /\ debtSale[e] \in Sale => debtor[e] = sale'[debtSale[e]].client
      BY DEF DebtInv, DebtsHold
    <3> QED BY <1>1, <1>2, <3>1, <3>2 DEF DebtInv, DebtsHold
  <2> QED BY <2>1, <2>2
<1>9. ASSUME NEW t \in Sale
      PROVE  /\ SumOver(amount', OwedOf(debtor', debtSale', t))
                   = SumOver(amount, DebtsOf(t)) + (IF t = s THEN a ELSE 0)
             /\ DebtsOf(t) \subseteq OwedOf(debtor', debtSale', t)
  <2> DEFINE D == DebtsOf(t)
             D2 == OwedOf(debtor', debtSale', t)
  <2>1. D \subseteq Debt /\ IsFiniteSet(D) /\ D2 \subseteq Debt /\ IsFiniteSet(D2) /\ d \notin D
    BY <1>2, DebtFinite DEF DebtsOf, OwedOf
  <2>2. SumOver(amount', D) = SumOver(amount, D) /\ SumOver(amount, D) \in Nat
    <3> HIDE DEF D
    <3>1. \A e \in D : amount'[e] = amount[e] /\ amount[e] \in Int
      BY <1>1, <2>1 DEF DebtInv, DebtTypes
    <3> QED BY <2>1, <3>1, SumCongruence, SumType
  <2>3. CASE t = s
    <3>1. d \in D2 /\ D2 \ {d} = D
      BY <1>1, <1>2, <2>3 DEF DebtInv, DebtTypes, DebtsOf, OwedOf
    <3>2. \A e \in D2 : amount'[e] \in Nat
      BY <1>3, <2>1
    <3>3. SumOver(amount', D2) = SumOver(amount', D2 \ {d}) + amount'[d]
      <4> HIDE DEF D2
      <4> QED BY <2>1, <3>1, <3>2, SumSplit
    <3>4. amount'[d] = a
      BY <1>1 DEF DebtInv, DebtTypes
    <3>5. D \subseteq D2
      BY <3>1
    <3> HIDE DEF D, D2
    <3>6. SumOver(amount', D2) = SumOver(amount, D) + a
      BY <2>2, <3>1, <3>3, <3>4
    <3> QED BY <2>3, <3>5, <3>6 DEF D, D2
  <2>4. CASE t # s
    <3>1. D2 = D
      BY <1>1, <1>2, <2>4 DEF DebtInv, DebtTypes, DebtsOf, OwedOf
    <3> HIDE DEF D, D2
    <3>2. SumOver(amount', D2) = SumOver(amount, D) + 0
      BY <2>2, <3>1
    <3> QED BY <2>4, <3>1, <3>2 DEF D, D2
  <2> QED BY <2>3, <2>4
<1>10. DebtInv'
  <2>1. DebtsAddUp'
    BY <1>5, <1>6, <1>7, AddUpParts
  <2>2. DebtTypes'
    BY <1>3, <1>4, <1>5 DEF DebtTypes
  <2> QED BY <1>8, <2>1, <2>2 DEF DebtInv
<1> QED BY <1>9, <1>10

\* A repayment moves what it pays from the rest of the debt to what was repaid.
LEMMA PayOffKeeps ==
    ASSUME DebtInv, NEW d \in Debt, NEW a \in Nat, a > 0, PayOff(d, a),
           \/ /\ repaidPlain' = [repaidPlain EXCEPT ![d] = @ + a]
              /\ repaidKeys' = repaidKeys
           \/ \E k \in Key : /\ k \notin repaidKeys[d] /\ KeyAmount[k] = a
                             /\ repaidKeys' = [repaidKeys EXCEPT ![d] = @ \cup {k}]
                             /\ repaidPlain' = repaidPlain
    PROVE  DebtInv'
<1>1. /\ debtor[d] \in Client /\ a <= remaining[d]
      /\ remaining' = [remaining EXCEPT ![d] = @ - a] /\ repaid' = [repaid EXCEPT ![d] = @ + a]
      /\ debtStatus' = [debtStatus EXCEPT ![d] = IF remaining[d] - a <= 0 THEN "paid"
                                                                         ELSE "partial"]
      /\ debts' = debts /\ debtor' = debtor /\ debtSale' = debtSale /\ amount' = amount
      /\ issued' = issued /\ sale' = sale
      /\ debtUzs' = [debtUzs EXCEPT ![debtor[d]]
                        = SumOver(remaining', OwnDebts(debtor', debtor[d]))]
  BY DEF PayOff, Repayable, RefreshDebtTotal, OwnDebts, DebtInv, DebtTypes
<1>2. /\ remaining' \in [Debt -> Nat] /\ repaid' \in [Debt -> Nat]
      /\ debtStatus' \in [Debt -> {"unpaid", "partial", "paid"}]
  BY <1>1 DEF DebtInv, DebtTypes
<1>3. /\ repaidKeys' \in [Debt -> SUBSET Key] /\ repaidPlain' \in [Debt -> Nat]
      /\ \A e \in Debt : IsFiniteSet(repaidKeys'[e])
  <2>1. CASE repaidPlain' = [repaidPlain EXCEPT ![d] = @ + a] /\ repaidKeys' = repaidKeys
    BY <2>1 DEF DebtInv, DebtTypes, DebtsHold
  <2>2. ASSUME NEW k \in Key, repaidKeys' = [repaidKeys EXCEPT ![d] = @ \cup {k}],
               repaidPlain' = repaidPlain
        PROVE  <1>3
    <3>1. repaidKeys' \in [Debt -> SUBSET Key]
      BY <2>2 DEF DebtInv, DebtTypes
    <3>2. ASSUME NEW e \in Debt PROVE IsFiniteSet(repaidKeys'[e])
      <4>1. IsFiniteSet(repaidKeys[e]) /\ IsFiniteSet(repaidKeys[e] \cup {k})
        BY FS_AddElement DEF DebtInv, DebtsHold
      <4>2. repaidKeys'[e] = repaidKeys[e] \/ repaidKeys'[e] = repaidKeys[e] \cup {k}
        BY <2>2 DEF DebtInv, DebtTypes
      <4> QED BY <4>1, <4>2
    <3> QED BY <2>2, <3>1, <3>2 DEF DebtInv, DebtTypes
  <2> QED BY <2>1, <2>2
<1>4. debtUzs' \in [Client -> Nat] /\ TotalsAddUp(debtor', remaining', debtUzs')
  <2>1. \A e \in Debt : \/ debtor'[e] = debtor[e] /\ remaining'[e] = remaining[e]
                        \/ debtor[e] \in {debtor[d], Nobody} /\ debtor'[e] \in {debtor[d], Nobody}
    BY <1>1 DEF DebtInv, DebtTypes
  <2> QED BY <1>1, <1>2, <2>1, TotalsRefreshed
<1>5. RowsAddUp(remaining', repaid', amount', debtStatus')
  <2> SUFFICES ASSUME NEW e \in Debt
               PROVE  /\ amount'[e] = remaining'[e] + repaid'[e]
                      /\ debtStatus'[e] = StatusOf(remaining'[e], repaid'[e])
    BY DEF RowsAddUp
  <2>1. /\ amount[e] = remaining[e] + repaid[e]
        /\ debtStatus[e] = StatusOf(remaining[e], repaid[e])
    BY AddUpParts DEF DebtInv, RowsAddUp
  <2>2. CASE e = d
    BY <1>1, <2>1, <2>2 DEF DebtInv, DebtTypes, StatusOf
  <2>3. CASE e # d
    BY <1>1, <2>1, <2>3 DEF DebtInv, DebtTypes
  <2> QED BY <2>2, <2>3
<1>6. RepaymentsAddUp(repaid', repaidPlain', repaidKeys')
  <2>1. \A e \in Debt : repaid[e] = repaidPlain[e] + SumOver(KeyAmount, repaidKeys[e])
    BY AddUpParts DEF DebtInv, RepaymentsAddUp
  <2>2. ASSUME NEW e \in Debt PROVE SumOver(KeyAmount, repaidKeys[e]) \in Nat
    <3>1. IsFiniteSet(repaidKeys[e]) /\ \A k \in repaidKeys[e] : KeyAmount[k] \in Int
      BY AccountsAssumption DEF DebtInv, DebtTypes, DebtsHold
    <3> QED BY <3>1, SumType
  <2>3. CASE repaidPlain' = [repaidPlain EXCEPT ![d] = @ + a] /\ repaidKeys' = repaidKeys
    BY <1>1, <2>1, <2>2, <2>3 DEF DebtInv, DebtTypes, RepaymentsAddUp
  <2>4. ASSUME NEW k \in Key, k \notin repaidKeys[d], KeyAmount[k] = a,
               repaidKeys' = [repaidKeys EXCEPT ![d] = @ \cup {k}],
               repaidPlain' = repaidPlain
        PROVE  <1>6
    <3> DEFINE K == repaidKeys[d] \cup {k}
    <3>1. IsFiniteSet(K) /\ k \in K /\ K \ {k} = repaidKeys[d]
      BY <1>3, <2>4 DEF DebtInv, DebtTypes
    <3>2. \A j \in K : KeyAmount[j] \in Nat
      BY AccountsAssumption DEF DebtInv, DebtTypes
    <3>3. SumOver(KeyAmount, K) = SumOver(KeyAmount, repaidKeys[d]) + a
      <4> HIDE DEF K
      <4>1. SumOver(KeyAmount, K) = SumOver(KeyAmount, K \ {k}) + KeyAmount[k]
        BY <3>1, <3>2, SumSplit
      <4> QED BY <2>4, <3>1, <4>1
    <3>4. ASSUME NEW e \in Debt
          PROVE  repaid'[e] = repaidPlain'[e] + SumOver(KeyAmount, repaidKeys'[e])
      <4>1. CASE e = d
        <5>1. repaidKeys'[d] = K /\ repaid'[d] = repaid[d] + a
          BY <1>1, <2>4 DEF DebtInv, DebtTypes
        <5> HIDE DEF K
        <5>2. repaidPlain[d] \in Nat
          BY DEF DebtInv, DebtTypes
        <5> QED BY <2>1, <2>2, <2>4, <3>3, <4>1, <5>1, <5>2
      <4>2. CASE e # d
        BY <1>1, <2>1, <2>4, <4>2 DEF DebtInv, DebtTypes
      <4> QED BY <4>1, <4>2
    <3> QED BY <3>4 DEF RepaymentsAddUp
  <2> QED BY <2>3, <2>4
<1>7. DebtsHold'
  <2>1. debts \in Nat /\ Debt \subseteq Nat
    BY AccountsAssumption DEF DebtInv, DebtTypes, Debt
  <2>2. debtor[d] # Nobody /\ d <= debts
    BY <1>1, AccountsAssumption DEF DebtInv, DebtsHold
  <2>3. ASSUME NEW e \in Debt, e > debts PROVE repaid'[e] = 0
    <3>1. e # d
      BY <2>1, <2>3, <2>2
    <3> QED BY <1>1, <2>3, <3>1 DEF DebtInv, DebtTypes, DebtsHold
  <2> QED BY <1>1, <1>3, <2>3 DEF DebtInv, DebtsHold
<1>8. DebtsAddUp'
  BY <1>4, <1>5, <1>6, AddUpParts
<1>9. DebtTypes'
  BY <1>1, <1>2, <1>3, <1>4 DEF DebtInv, DebtTypes
<1> QED BY <1>7, <1>8, <1>9 DEF DebtInv

\* A credit is at most what is left of a debt, and goes only to debts of the sale.
LEMMA AppliedType ==
    ASSUME DebtInv, NEW s \in Sale, NEW credit \in Nat, NEW d \in Debt
    PROVE  /\ Applied(s, credit)[d] \in 0 .. remaining[d]
           /\ d \notin DebtsOf(s) => Applied(s, credit)[d] = 0
<1> DEFINE O == {e \in DebtsOf(s) : e < d}
           older == SumOver(remaining, O)
<1>1. older \in Nat
  <2>1. O \subseteq Debt /\ IsFiniteSet(O)
    <3>1. O \subseteq Debt
      BY DEF DebtsOf
    <3> QED BY <3>1, DebtFinite
  <2>2. \A e \in O : remaining[e] \in Int
    BY <2>1 DEF DebtInv, DebtTypes
  <2> HIDE DEF O
  <2> QED BY <2>1, <2>2, SumType
<1>2. remaining[d] \in Nat
  BY DEF DebtInv, DebtTypes
<1>3. Applied(s, credit)[d] = IF d \notin DebtsOf(s) THEN 0
                              ELSE AtMost(remaining[d], AtLeast(0, credit - older))
  BY DEF Applied
<1> HIDE DEF older
<1> QED BY <1>1, <1>2, <1>3 DEF AtMost, AtLeast

\* The credit of a return leaves the debts of its sale by as much as was applied.
LEMMA CreditDebtsKeeps ==
    ASSUME DebtInv, NEW s \in Sale, sale[s].client \in Client, sale' = sale,
           NEW credit \in Nat, CreditDebts(s, credit)
    PROVE  /\ DebtInv' /\ debtor' = debtor /\ debtSale' = debtSale /\ issued' = issued
           /\ SumOver(Applied(s, credit), Debt) \in Nat
           /\ SumOver(Applied(s, credit), Debt) > 0 => DebtsOf(s) # {}
           /\ \A t \in Sale :
                 SumOver(amount', DebtsOf(t)) + (IF t = s THEN SumOver(Applied(s, credit), Debt)
                                                          ELSE 0)
                    = SumOver(amount, DebtsOf(t))
<1> DEFINE applied == Applied(s, credit)
           c == sale[s].client
<1>1. /\ remaining' = [d \in Debt |-> remaining[d] - applied[d]]
      /\ amount' = [d \in Debt |-> CreditedAmount(d, applied[d])]
      /\ debtStatus' = [d \in Debt |-> IF applied[d] = 0 THEN debtStatus[d]
                                       ELSE StatusOf(remaining'[d], repaid[d])]
      /\ debtUzs' = [debtUzs EXCEPT ![c] = SumOver(remaining', OwnDebts(debtor', c))]
      /\ debts' = debts /\ debtor' = debtor /\ debtSale' = debtSale /\ repaid' = repaid
      /\ repaidKeys' = repaidKeys /\ repaidPlain' = repaidPlain /\ issued' = issued
  BY DEF CreditDebts, RefreshDebtTotal, OwnDebts
<1>2. \A d \in Debt : applied[d] \in 0 .. remaining[d] /\ (d \notin DebtsOf(s) => applied[d] = 0)
  BY AppliedType
<1> HIDE DEF applied
<1>3. ASSUME NEW d \in Debt
      PROVE  /\ remaining'[d] \in Nat /\ amount'[d] \in Nat /\ applied[d] \in Nat
             /\ amount'[d] = remaining'[d] + repaid[d]
             /\ amount[d] = amount'[d] + applied[d]
             /\ debtStatus'[d] = StatusOf(remaining'[d], repaid[d])
             /\ debtStatus'[d] \in {"unpaid", "partial", "paid"}
  <2>1. /\ remaining[d] \in Nat /\ amount[d] \in Nat /\ repaid[d] \in Nat
        /\ amount[d] = remaining[d] + repaid[d]
        /\ debtStatus[d] = StatusOf(remaining[d], repaid[d])
    BY AddUpParts DEF DebtInv, DebtTypes, RowsAddUp
  <2>2. /\ applied[d] \in Nat /\ applied[d] <= remaining[d]
        /\ remaining'[d] = remaining[d] - applied[d]
        /\ amount'[d] = CreditedAmount(d, applied[d])
        /\ debtStatus'[d] = IF applied[d] = 0 THEN debtStatus[d]
                            ELSE StatusOf(remaining'[d], repaid[d])
    BY <1>1, <1>2, <2>1
  <2>3. amount'[d] = amount[d] - applied[d]
    BY <2>1, <2>2 DEF CreditedAmount, AtLeast
  <2> QED BY <2>1, <2>2, <2>3 DEF StatusOf
<1>4. /\ remaining' \in [Debt -> Nat] /\ amount' \in [Debt -> Nat]
      /\ debtStatus' \in [Debt -> {"unpaid", "partial", "paid"}]
  <2>1. remaining' = [d \in Debt |-> remaining'[d]]
    BY <1>1
  <2>2. amount' = [d \in Debt |-> amount'[d]]
    BY <1>1
  <2>3. debtStatus' = [d \in Debt |-> debtStatus'[d]]
    BY <1>1
  <2> QED BY <1>3, <2>1, <2>2, <2>3
<1>5. debtUzs' \in [Client -> Nat] /\ TotalsAddUp(debtor', remaining', debtUzs')
  <2>1. ASSUME NEW e \in Debt
        PROVE  \/ debtor'[e] = debtor[e] /\ remaining'[e] = remaining[e]
               \/ debtor[e] \in {c, Nobody} /\ debtor'[e] \in {c, Nobody}
    <3>1. CASE e \in DebtsOf(s)
      <4>1. debtor[e] = c
        BY <3>1 DEF DebtsOf, DebtInv, DebtsHold
      <4> QED BY <1>1, <4>1
    <3>2. CASE e \notin DebtsOf(s)
      <4>1. applied[e] = 0 /\ remaining[e] \in Nat
        BY <1>2, <3>2 DEF DebtInv, DebtTypes
      <4> QED BY <1>1, <4>1
    <3> QED BY <3>1, <3>2
  <2> QED BY <1>1, <1>4, <2>1, TotalsRefreshed
<1>6. DebtsAddUp'
  <2>1. RowsAddUp(remaining', repaid', amount', debtStatus')
    BY <1>1, <1>3 DEF RowsAddUp
  <2>2. RepaymentsAddUp(repaid', repaidPlain', repaidKeys')
    BY <1>1, AddUpParts DEF DebtInv
  <2> QED BY <1>5, <2>1, <2>2, AddUpParts
<1>7. DebtsHold'
  BY <1>1 DEF DebtInv, DebtsHold
<1>8. DebtTypes'
  BY <1>1, <1>4, <1>5 DEF DebtInv, DebtTypes
<1>9. IsFiniteSet(DebtsOf(s)) /\ DebtsOf(s) \subseteq Debt
  BY DebtFinite DEF DebtsOf
<1>10. SumOver(applied, Debt) = SumOver(applied, DebtsOf(s))
  BY <1>2, <1>9, SumZeroRows
<1>11. SumOver(applied, Debt) \in Nat
  BY <1>3, DebtFinite, SumType
<1>12. SumOver(applied, Debt) > 0 => DebtsOf(s) # {}
  BY <1>10, SumEmpty
<1>13. ASSUME NEW t \in Sale
       PROVE  SumOver(amount', DebtsOf(t)) + (IF t = s THEN SumOver(applied, Debt) ELSE 0)
                 = SumOver(amount, DebtsOf(t))
  <2>1. DebtsOf(t) \subseteq Debt /\ IsFiniteSet(DebtsOf(t))
    BY DebtFinite DEF DebtsOf
  <2>2. SumOver(amount, DebtsOf(t)) = SumOver(amount', DebtsOf(t)) + SumOver(applied, DebtsOf(t))
    <3>1. \A d \in DebtsOf(t) : amount'[d] \in Nat /\ applied[d] \in Nat
                                  /\ amount[d] = amount'[d] + applied[d]
      BY <1>3, <2>1
    <3> QED BY <2>1, <3>1, SumAdd
  <2>3. SumOver(amount', DebtsOf(t)) \in Nat
    <3>1. \A d \in DebtsOf(t) : amount'[d] \in Int
      BY <1>3, <2>1
    <3> QED BY <2>1, <3>1, SumType
  <2>4. CASE t = s
    BY <1>10, <2>2, <2>4
  <2>5. CASE t # s
    <3>1. \A d \in DebtsOf(t) \ {} : applied[d] = 0
      BY <1>2, <2>1, <2>5 DEF DebtsOf
    <3>2. SumOver(applied, DebtsOf(t)) = 0
      BY <3>1, SumZeroRows, SumEmpty
    <3> QED BY <2>2, <2>3, <2>5, <3>2
  <2> QED BY <2>4, <2>5
<1>14. DebtInv'
  BY <1>6, <1>7, <1>8 DEF DebtInv
<1> QED BY <1>1, <1>11, <1>12, <1>13, <1>14 DEF applied

\* A cancelled return gives its credit back to the oldest debt of the sale.
LEMMA GiveCreditBackKeeps ==
    ASSUME DebtInv, NEW s \in Sale, sale[s].client \in Client, sale' = sale,
           NEW credit \in Nat, credit > 0 => DebtsOf(s) # {}, GiveCreditBack(s, credit)
    PROVE  /\ DebtInv' /\ debtor' = debtor /\ debtSale' = debtSale /\ issued' = issued
           /\ \A t \in Sale :
                 SumOver(amount', DebtsOf(t))
                    = SumOver(amount, DebtsOf(t)) + (IF t = s THEN credit ELSE 0)
<1> DEFINE c == sale[s].client
<1>1. ASSUME NEW t \in Sale
      PROVE  /\ DebtsOf(t) \subseteq Debt /\ IsFiniteSet(DebtsOf(t))
             /\ SumOver(amount, DebtsOf(t)) \in Nat
  <2>1. DebtsOf(t) \subseteq Debt /\ IsFiniteSet(DebtsOf(t))
    BY DebtFinite DEF DebtsOf
  <2>2. \A d \in DebtsOf(t) : amount[d] \in Int
    BY <2>1 DEF DebtInv, DebtTypes
  <2> QED BY <2>1, <2>2, SumType
<1>2. CASE credit = 0
  <2>1. UNCHANGED debtVars
    BY <1>2 DEF GiveCreditBack
  <2>2. DebtInv'
    <3>1. DebtTypes'
      BY <2>1 DEF debtVars, DebtInv, DebtTypes
    <3>2. DebtsHold'
      BY <2>1 DEF debtVars, DebtInv, DebtsHold
    <3>3. DebtsAddUp'
      BY <2>1, AddUpParts DEF debtVars, DebtInv
    <3> QED BY <3>1, <3>2, <3>3 DEF DebtInv
  <2> QED BY <1>1, <1>2, <2>1, <2>2 DEF debtVars
<1>3. CASE credit > 0
  <2> DEFINE d == Oldest(DebtsOf(s))
  <2>1. d \in DebtsOf(s)
    BY <1>1, <1>3, OldestIsOne, AccountsAssumption
  <2>2. /\ amount' = [amount EXCEPT ![d] = @ + credit]
        /\ remaining' = [remaining EXCEPT ![d] = @ + credit]
        /\ debtStatus' = [debtStatus EXCEPT ![d] = IF repaid[d] > 0 THEN "partial" ELSE "unpaid"]
        /\ debts' = debts /\ debtor' = debtor /\ debtSale' = debtSale /\ repaid' = repaid
        /\ repaidKeys' = repaidKeys /\ repaidPlain' = repaidPlain /\ issued' = issued
        /\ debtUzs' = [debtUzs EXCEPT ![c] = SumOver(remaining', OwnDebts(debtor', c))]
    BY <1>3 DEF GiveCreditBack, RevertedDebts, RefreshDebtTotal, OwnDebts
  <2> HIDE DEF d
  <2>3. d \in Debt /\ debtor[d] = c
    BY <2>1 DEF DebtsOf, DebtInv, DebtsHold
  <2>4. /\ remaining' \in [Debt -> Nat] /\ amount' \in [Debt -> Nat]
        /\ debtStatus' \in [Debt -> {"unpaid", "partial", "paid"}]
    BY <2>2, <2>3 DEF DebtInv, DebtTypes
  <2>5. debtUzs' \in [Client -> Nat] /\ TotalsAddUp(debtor', remaining', debtUzs')
    <3>1. \A e \in Debt : \/ debtor'[e] = debtor[e] /\ remaining'[e] = remaining[e]
                          \/ debtor[e] \in {c, Nobody} /\ debtor'[e] \in {c, Nobody}
      BY <2>2, <2>3 DEF DebtInv, DebtTypes
    <3> QED BY <2>2, <2>4, <3>1, TotalsRefreshed
  <2>6. RowsAddUp(remaining', repaid', amount', debtStatus')
    <3> SUFFICES ASSUME NEW e \in Debt
                 PROVE  /\ amount'[e] = remaining'[e] + repaid'[e]
                        /\ debtStatus'[e] = StatusOf(remaining'[e], repaid'[e])
      BY DEF RowsAddUp
    <3>1. /\ amount[e] = remaining[e] + repaid[e]
          /\ debtStatus[e] = StatusOf(remaining[e], repaid[e])
          /\ remaining[e] \in Nat /\ repaid[e] \in Nat
      BY AddUpParts DEF DebtInv, DebtTypes, RowsAddUp
    <3>2. CASE e = d
      BY <1>3, <2>2, <2>3, <3>1, <3>2 DEF DebtInv, DebtTypes, StatusOf
    <3>3. CASE e # d
      BY <2>2, <3>1, <3>3 DEF DebtInv, DebtTypes
    <3> QED BY <3>2, <3>3
  <2>7. RepaymentsAddUp(repaid', repaidPlain', repaidKeys')
    BY <2>2, AddUpParts DEF DebtInv
  <2>8. DebtInv'
    <3>1. DebtTypes'
      BY <2>2, <2>4, <2>5 DEF DebtInv, DebtTypes
    <3>2. DebtsHold'
      BY <2>2 DEF DebtInv, DebtsHold
    <3>3. DebtsAddUp'
      BY <2>5, <2>6, <2>7, AddUpParts
    <3> QED BY <3>1, <3>2, <3>3 DEF DebtInv
  <2>9. ASSUME NEW t \in Sale
        PROVE  SumOver(amount', DebtsOf(t))
                  = SumOver(amount, DebtsOf(t)) + (IF t = s THEN credit ELSE 0)
    <3>1. /\ \A e \in DebtsOf(t) : amount[e] \in Nat
          /\ \A e \in DebtsOf(t) : amount'[e] \in Nat
      BY <1>1, <2>4 DEF DebtInv, DebtTypes
    <3>2. \A e \in Debt \ {d} : amount'[e] = amount[e]
      BY <2>2, <2>4
    <3>3. CASE t = s
      <4>1. \A e \in DebtsOf(t) \ {d} : amount'[e] = amount[e]
        BY <1>1, <3>2
      <4>2. SumOver(amount', DebtsOf(t)) = SumOver(amount, DebtsOf(t)) + (amount'[d] - amount[d])
        BY <1>1, <2>1, <3>1, <3>3, <4>1, SumUpdate
      <4>3. amount'[d] = amount[d] + credit /\ amount[d] \in Nat
        BY <2>2, <2>3 DEF DebtInv, DebtTypes
      <4> QED BY <1>1, <3>3, <4>2, <4>3
    <3>4. CASE t # s
      <4>1. d \notin DebtsOf(t)
        BY <2>1, <3>4 DEF DebtsOf
      <4>2. \A e \in DebtsOf(t) : amount'[e] = amount[e]
        BY <1>1, <3>2, <4>1
      <4>3. SumOver(amount', DebtsOf(t)) = SumOver(amount, DebtsOf(t))
        BY <4>2, SumCongruence
      <4> QED BY <1>1, <3>4, <4>3
    <3> QED BY <3>3, <3>4
  <2> QED BY <2>2, <2>8, <2>9
<1> QED BY <1>2, <1>3

\* The debts of a cancelled sale are gone, those of other sales stay.
LEMMA CancelSaleKeeps ==
    ASSUME DebtInv, NEW s \in Sale, sale[s].client \in Client, CancelSale(s),
           sale \in [Sale -> SaleRecord]
    PROVE  /\ DebtInv'
           /\ OwedOf(debtor', debtSale', s) = {}
           /\ \A t \in Sale \ {s} : /\ OwedOf(debtor', debtSale', t) = DebtsOf(t)
                                    /\ SumOver(amount', DebtsOf(t)) = SumOver(amount, DebtsOf(t))
<1> DEFINE c == sale[s].client
           D == DebtsOf(s)
<1>1. /\ debtor' = [d \in Debt |-> IF d \in D THEN Nobody ELSE debtor[d]]
      /\ amount' = [d \in Debt |-> IF d \in D THEN 0 ELSE amount[d]]
      /\ remaining' = [d \in Debt |-> IF d \in D THEN 0 ELSE remaining[d]]
      /\ repaid' = [d \in Debt |-> IF d \in D THEN 0 ELSE repaid[d]]
      /\ debtStatus' = [d \in Debt |-> IF d \in D THEN "paid" ELSE debtStatus[d]]
      /\ debtUzs' = [debtUzs EXCEPT ![c] = SumOver(remaining', OwnDebts(debtor', c))]
      /\ issued' = [issued EXCEPT ![s] = 0]
      /\ debts' = debts /\ debtSale' = debtSale /\ repaidKeys' = repaidKeys
      /\ repaidPlain' = repaidPlain
      /\ \A d \in D : repaid[d] = 0
      /\ sale' = [sale EXCEPT ![s].state = "cancelled"]
  BY DEF CancelSale, Forgotten, Annullable, RefreshDebtTotal, OwnDebts
<1>2. \A d \in D : d \in Debt /\ debtor[d] = c /\ debtSale[d] = s
  BY DEF DebtsOf, DebtInv, DebtsHold
<1>3. \A d \in Debt \ D : debtor[d] = Nobody \/ debtSale[d] # s
  BY DEF DebtsOf
<1>4. \A t \in Sale : sale'[t].client = sale[t].client
  BY <1>1 DEF SaleRecord
<1>5. \A t \in Sale : DebtsOf(t) \subseteq Debt
  BY DEF DebtsOf
<1>6. OwedOf(debtor', debtSale', s) = {}
  <2> HIDE DEF D
  <2> QED BY <1>1, <1>3 DEF OwedOf
<1>7. \A t \in Sale \ {s} : /\ OwedOf(debtor', debtSale', t) = DebtsOf(t)
                            /\ D \cap DebtsOf(t) = {}
  <2>1. \A t \in Sale \ {s} : D \cap DebtsOf(t) = {}
    BY DEF DebtsOf
  <2> SUFFICES ASSUME NEW t \in Sale \ {s}
               PROVE  OwedOf(debtor', debtSale', t) = DebtsOf(t)
    BY <2>1
  <2> HIDE DEF D
  <2> QED BY <1>1, <2>1, <1>5 DEF OwedOf, DebtsOf
<1> HIDE DEF D
<1>8. \A t \in Sale \ {s} : SumOver(amount', DebtsOf(t)) = SumOver(amount, DebtsOf(t))
  <2> SUFFICES ASSUME NEW t \in Sale \ {s}
               PROVE  \A d \in DebtsOf(t) : amount[d] = amount'[d]
    BY SumCongruence
  <2> QED BY <1>1, <1>5, <1>7
<1>9. /\ debtor' \in [Debt -> Client \cup {Nobody}] /\ amount' \in [Debt -> Nat]
      /\ remaining' \in [Debt -> Nat] /\ repaid' \in [Debt -> Nat]
      /\ debtStatus' \in [Debt -> {"unpaid", "partial", "paid"}]
      /\ issued' \in [Sale -> Nat]
  <2>1. debtor' \in [Debt -> Client \cup {Nobody}]
    BY <1>1 DEF DebtInv, DebtTypes
  <2>2. amount' \in [Debt -> Nat]
    BY <1>1 DEF DebtInv, DebtTypes
  <2>3. remaining' \in [Debt -> Nat]
    BY <1>1 DEF DebtInv, DebtTypes
  <2>4. repaid' \in [Debt -> Nat]
    BY <1>1 DEF DebtInv, DebtTypes
  <2>5. debtStatus' \in [Debt -> {"unpaid", "partial", "paid"}]
    BY <1>1 DEF DebtInv, DebtTypes
  <2>6. issued' \in [Sale -> Nat]
    BY <1>1 DEF DebtInv, DebtTypes
  <2> QED BY <2>1, <2>2, <2>3, <2>4, <2>5, <2>6
<1>10. repaid' = repaid
  <2>1. \A d \in Debt : repaid'[d] = repaid[d]
    BY <1>1
  <2> QED BY <1>9, <2>1 DEF DebtInv, DebtTypes
<1>11. debtUzs' \in [Client -> Nat] /\ TotalsAddUp(debtor', remaining', debtUzs')
  <2>1. \A e \in Debt : \/ debtor'[e] = debtor[e] /\ remaining'[e] = remaining[e]
                        \/ debtor[e] \in {c, Nobody} /\ debtor'[e] \in {c, Nobody}
    BY <1>1, <1>2
  <2> QED BY <1>1, <1>9, <2>1, TotalsRefreshed
<1>12. RowsAddUp(remaining', repaid', amount', debtStatus')
  <2> SUFFICES ASSUME NEW e \in Debt
               PROVE  /\ amount'[e] = remaining'[e] + repaid'[e]
                      /\ debtStatus'[e] = StatusOf(remaining'[e], repaid'[e])
    BY DEF RowsAddUp
  <2>1. /\ amount[e] = remaining[e] + repaid[e]
        /\ debtStatus[e] = StatusOf(remaining[e], repaid[e])
    BY AddUpParts DEF DebtInv, RowsAddUp
  <2> QED BY <1>1, <2>1 DEF StatusOf
<1>13. RepaymentsAddUp(repaid', repaidPlain', repaidKeys')
  BY <1>1, <1>10, AddUpParts DEF DebtInv
<1>14. DebtsHold'
  <2> SUFFICES ASSUME NEW e \in Debt
               PROVE  /\ debtor'[e] # Nobody => e <= debts'
                      /\ e > debts' => repaid'[e] = 0
                      /\ IsFiniteSet(repaidKeys'[e])
                      /\ debtor'[e] # Nobody /\ debtSale'[e] \in Sale
                            => debtor'[e] = sale'[debtSale'[e]].client
    BY DEF DebtsHold
  <2>1. debtor'[e] # Nobody => debtor'[e] = debtor[e]
    BY <1>1
  <2>2. debtSale[e] \in Sale => sale'[debtSale[e]].client = sale[debtSale[e]].client
    BY <1>4
  <2> QED BY <1>1, <1>10, <2>1, <2>2 DEF DebtInv, DebtsHold
<1>15. DebtInv'
  <2>1. DebtsAddUp'
    BY <1>11, <1>12, <1>13, AddUpParts
  <2>2. DebtTypes'
    BY <1>1, <1>9, <1>11 DEF DebtInv, DebtTypes
  <2> QED BY <1>14, <2>1, <2>2 DEF DebtInv
<1> QED BY <1>6, <1>7, <1>8, <1>15

-----------------------------------------------------------------------------
(* Credits and the loyalty balance.                                        *)

SalesFit(sl) ==
    \A s \in Sale :
        /\ sl[s].state = "none" => sl[s].client = Nobody
        /\ sl[s].state # "none" => sl[s].client \in Client /\ sl[s].total > 0
AdjustmentsFit(sl, adj, who, for) ==
    \A x \in Adjustment : adj[x].state = "live" =>
        /\ adj[x].sale \in Sale
        /\ sl[adj[x].sale].state = "paid"
        /\ adj[x].credit > 0 => OwedOf(who, for, adj[x].sale) # {}
CreditsAddUp(all, who, for, adj, opened) ==
    \A s \in Sale : SumOver(all, OwedOf(who, for, s)) + LiveSum(adj, s, "credit") = opened[s]
LimitsHold(sl, adj) ==
    \A s \in Sale : /\ LiveSum(adj, s, "taken") <= sl[s].earned
                    /\ LiveSum(adj, s, "refunded") <= sl[s].spent

\* Used and Given of all sales, and the sales of a client.
UsedOf(sl, adj) ==
    [s \in Sale |-> IF sl[s].state # "paid" THEN 0 ELSE sl[s].spent + LiveSum(adj, s, "taken")]
GivenOf(sl, adj) ==
    [s \in Sale |-> IF sl[s].state # "paid" THEN 0
                    ELSE sl[s].earned + LiveSum(adj, s, "refunded") + LiveSum(adj, s, "earned")]
SalesOf(sl, c) == {s \in Sale : sl[s].client = c}
BalancesBacked(sl, adj, bal) ==
    \A c \in Client : bal[c] + SumOver(UsedOf(sl, adj), SalesOf(sl, c))
                         >= InitialBalance + SumOver(GivenOf(sl, adj), SalesOf(sl, c))

LEMMA LoyaltyParts ==
    /\ LoyaltyBacked <=> LimitsHold(sale, adjustment) /\ BalancesBacked(sale, adjustment, balance)
    /\ LoyaltyBacked' <=> /\ LimitsHold(sale', adjustment')
                          /\ BalancesBacked(sale', adjustment', balance')
BY DEF LoyaltyBacked, LimitsHold, BalancesBacked, UsedOf, GivenOf, SalesOf, Used, Given,
       LiveSum, LiveOf, SumLive, Live

LEMMA InvParts ==
    /\ AccountInv <=>
          /\ sale \in [Sale -> SaleRecord] /\ adjustment \in [Adjustment -> AdjustmentRecord]
          /\ balance \in [Client -> Nat] /\ DebtInv
          /\ SalesFit(sale) /\ AdjustmentsFit(sale, adjustment, debtor, debtSale)
          /\ CreditsAddUp(amount, debtor, debtSale, adjustment, issued)
          /\ LimitsHold(sale, adjustment) /\ BalancesBacked(sale, adjustment, balance)
    /\ AccountInv' <=>
          /\ sale' \in [Sale -> SaleRecord] /\ adjustment' \in [Adjustment -> AdjustmentRecord]
          /\ balance' \in [Client -> Nat] /\ DebtInv'
          /\ SalesFit(sale') /\ AdjustmentsFit(sale', adjustment', debtor', debtSale')
          /\ CreditsAddUp(amount', debtor', debtSale', adjustment', issued')
          /\ LimitsHold(sale', adjustment') /\ BalancesBacked(sale', adjustment', balance')
<1>1. /\ TypeOK <=> /\ sale \in [Sale -> SaleRecord]
                    /\ adjustment \in [Adjustment -> AdjustmentRecord]
                    /\ balance \in [Client -> Nat] /\ DebtTypes
      /\ TypeOK' <=> /\ sale' \in [Sale -> SaleRecord]
                     /\ adjustment' \in [Adjustment -> AdjustmentRecord]
                     /\ balance' \in [Client -> Nat] /\ DebtTypes'
  BY DEF TypeOK, SaleRecord, AdjustmentRecord, DebtTypes
<1>2. (SalesHold <=> SalesFit(sale)) /\ (SalesHold' <=> SalesFit(sale'))
  BY DEF SalesHold, SalesFit
<1>3. /\ AdjustmentsHold <=> AdjustmentsFit(sale, adjustment, debtor, debtSale)
      /\ AdjustmentsHold' <=> AdjustmentsFit(sale', adjustment', debtor', debtSale')
  BY DEF AdjustmentsHold, AdjustmentsFit, DebtsOf, OwedOf
<1>4. /\ CreditsRoundTrip <=> CreditsAddUp(amount, debtor, debtSale, adjustment, issued)
      /\ CreditsRoundTrip' <=> CreditsAddUp(amount', debtor', debtSale', adjustment', issued')
  BY DEF CreditsRoundTrip, CreditsAddUp, DebtsOf, OwedOf, SumLive, Live, LiveSum, LiveOf
<1>5. (DebtInv <=> DebtTypes /\ DebtsHold /\ DebtsAddUp)
      /\ (DebtInv' <=> DebtTypes' /\ DebtsHold' /\ DebtsAddUp')
  BY DEF DebtInv
<1> QED BY <1>1, <1>2, <1>3, <1>4, <1>5, LoyaltyParts DEF AccountInv

LEMMA UsedGivenType ==
    ASSUME NEW sl \in [Sale -> SaleRecord], NEW adj \in [Adjustment -> AdjustmentRecord],
           NEW s \in Sale
    PROVE  UsedOf(sl, adj)[s] \in Nat /\ GivenOf(sl, adj)[s] \in Nat
<1>1. \A k \in Columns : LiveSum(adj, s, k) \in Nat
  BY LiveSumType
<1>2. LiveSum(adj, s, "taken") \in Nat /\ LiveSum(adj, s, "refunded") \in Nat
      /\ LiveSum(adj, s, "earned") \in Nat
  BY <1>1 DEF Columns
<1>3. sl[s].spent \in Nat /\ sl[s].earned \in Nat
  BY DEF SaleRecord
<1> QED BY <1>2, <1>3 DEF UsedOf, GivenOf

\* The balances stay backed when one sale of one client moves the client's balance
\* by no less than the balance it owes.
LEMMA BackedKeeps ==
    ASSUME AccountInv, NEW s \in Sale, NEW c \in Client,
           sale' \in [Sale -> SaleRecord], adjustment' \in [Adjustment -> AdjustmentRecord],
           balance' \in [Client -> Nat], \A b \in Client \ {c} : balance'[b] = balance[b],
           sale'[s].client = c, sale[s].client \in {c, Nobody},
           \A t \in Sale \ {s} : /\ sale'[t].client = sale[t].client
                                 /\ UsedOf(sale', adjustment')[t] = UsedOf(sale, adjustment)[t]
                                 /\ GivenOf(sale', adjustment')[t] = GivenOf(sale, adjustment)[t],
           sale[s].client = Nobody => /\ UsedOf(sale, adjustment)[s] = 0
                                      /\ GivenOf(sale, adjustment)[s] = 0,
           balance'[c] + UsedOf(sale', adjustment')[s] + GivenOf(sale, adjustment)[s]
              >= balance[c] + UsedOf(sale, adjustment)[s] + GivenOf(sale', adjustment')[s]
    PROVE  BalancesBacked(sale', adjustment', balance')
<1> DEFINE U == UsedOf(sale, adjustment)
           U2 == UsedOf(sale', adjustment')
           G == GivenOf(sale, adjustment)
           G2 == GivenOf(sale', adjustment')
<1>1. \A t \in Sale : U[t] \in Nat /\ U2[t] \in Nat /\ G[t] \in Nat /\ G2[t] \in Nat
  BY InvParts, UsedGivenType
<1>2. ASSUME NEW b \in Client
      PROVE  /\ SalesOf(sale, b) \subseteq Sale /\ IsFiniteSet(SalesOf(sale, b))
             /\ SalesOf(sale', b) \subseteq Sale /\ IsFiniteSet(SalesOf(sale', b))
             /\ balance[b] \in Nat /\ balance'[b] \in Nat
             /\ balance[b] + SumOver(U, SalesOf(sale, b))
                   >= InitialBalance + SumOver(G, SalesOf(sale, b))
  BY InvParts, FS_Subset, AccountsAssumption DEF SalesOf, BalancesBacked
<1>3. /\ \A t \in Sale \ {s} : U2[t] = U[t] /\ G2[t] = G[t]
      /\ sale[s].client = Nobody => U[s] = 0 /\ G[s] = 0
      /\ balance'[c] + U2[s] + G[s] >= balance[c] + U[s] + G2[s]
  OBVIOUS
<1> HIDE DEF U, U2, G, G2
<1>4. InitialBalance \in Nat /\ c # Nobody
  BY AccountsAssumption
<1>5. ASSUME NEW b \in Client, b # c
      PROVE  balance'[b] + SumOver(U2, SalesOf(sale', b))
                >= InitialBalance + SumOver(G2, SalesOf(sale', b))
  <2>1. b # Nobody
    BY AccountsAssumption
  <2>2. SalesOf(sale', b) = SalesOf(sale, b) /\ s \notin SalesOf(sale, b)
    BY <1>5, <2>1 DEF SalesOf
  <2>3. \A t \in SalesOf(sale, b) : U2[t] = U[t] /\ G2[t] = G[t]
    BY <1>2, <1>3, <2>2
  <2>4. /\ SumOver(U2, SalesOf(sale, b)) = SumOver(U, SalesOf(sale, b))
        /\ SumOver(G2, SalesOf(sale, b)) = SumOver(G, SalesOf(sale, b))
    BY <2>3, SumCongruence
  <2>5. balance'[b] = balance[b]
    BY <1>5
  <2> QED BY <1>2, <2>2, <2>4, <2>5
<1>6. balance'[c] + SumOver(U2, SalesOf(sale', c))
         >= InitialBalance + SumOver(G2, SalesOf(sale', c))
  <2> DEFINE own == SalesOf(sale, c)
             own2 == SalesOf(sale', c)
  <2>1. s \in own2 /\ own \subseteq own2 /\ own2 \ own \subseteq {s}
        /\ (s \notin own => sale[s].client = Nobody)
    BY DEF SalesOf
  <2>2. /\ own2 \subseteq Sale /\ IsFiniteSet(own2) /\ own \subseteq Sale /\ IsFiniteSet(own)
        /\ balance[c] \in Nat /\ balance'[c] \in Nat
        /\ balance[c] + SumOver(U, own) >= InitialBalance + SumOver(G, own)
    BY <1>2
  <2> HIDE DEF own, own2
  <2>3. SumOver(U, own2) = SumOver(U, own) /\ SumOver(G, own2) = SumOver(G, own)
    <3>1. \A t \in own2 \ own : U[t] = 0 /\ G[t] = 0
      BY <1>3, <2>1
    <3> QED BY <2>1, <3>1, SumZeroRows
  <2>4. s \in own2 /\ IsFiniteSet(own2)
    BY <2>1, <2>2
  <2>5. SumOver(U2, own2) = SumOver(U, own2) + (U2[s] - U[s])
    <3>1. \A t \in own2 : U[t] \in Nat
      BY <1>1, <2>2
    <3>2. \A t \in own2 : U2[t] \in Nat
      BY <1>1, <2>2
    <3>3. \A t \in own2 \ {s} : U2[t] = U[t]
      BY <1>3, <2>2
    <3>4. SumOver(U, own2) = SumOver(U, own2 \ {s}) + U[s]
      BY <2>4, <3>1, SumSplit
    <3>5. SumOver(U2, own2) = SumOver(U2, own2 \ {s}) + U2[s]
      BY <2>4, <3>2, SumSplit
    <3>6. SumOver(U2, own2 \ {s}) = SumOver(U, own2 \ {s})
      BY <3>3, SumCongruence
    <3>7. SumOver(U, own2 \ {s}) \in Nat /\ U[s] \in Nat /\ U2[s] \in Nat
      <4>1. IsFiniteSet(own2 \ {s}) /\ \A t \in own2 \ {s} : U[t] \in Int
        BY <2>4, <3>1, FS_Subset
      <4> QED BY <2>4, <3>1, <3>2, <4>1, SumType
    <3> QED BY <3>4, <3>5, <3>6, <3>7
  <2>6. SumOver(G2, own2) = SumOver(G, own2) + (G2[s] - G[s])
    <3>1. \A t \in own2 : G[t] \in Nat
      BY <1>1, <2>2
    <3>2. \A t \in own2 : G2[t] \in Nat
      BY <1>1, <2>2
    <3>3. \A t \in own2 \ {s} : G2[t] = G[t]
      BY <1>3, <2>2
    <3>4. SumOver(G, own2) = SumOver(G, own2 \ {s}) + G[s]
      BY <2>4, <3>1, SumSplit
    <3>5. SumOver(G2, own2) = SumOver(G2, own2 \ {s}) + G2[s]
      BY <2>4, <3>2, SumSplit
    <3>6. SumOver(G2, own2 \ {s}) = SumOver(G, own2 \ {s})
      BY <3>3, SumCongruence
    <3>7. SumOver(G, own2 \ {s}) \in Nat /\ G[s] \in Nat /\ G2[s] \in Nat
      <4>1. IsFiniteSet(own2 \ {s}) /\ \A t \in own2 \ {s} : G[t] \in Int
        BY <2>4, <3>1, FS_Subset
      <4> QED BY <2>4, <3>1, <3>2, <4>1, SumType
    <3> QED BY <3>4, <3>5, <3>6, <3>7
  <2>7. SumOver(U, own) \in Nat /\ SumOver(G, own) \in Nat
    <3>1. \A t \in own : U[t] \in Int /\ G[t] \in Int
      BY <1>1, <2>2
    <3> QED BY <2>2, <3>1, SumType
  <2>8. U[s] \in Nat /\ U2[s] \in Nat /\ G[s] \in Nat /\ G2[s] \in Nat
    BY <1>1
  <2>9. balance'[c] + SumOver(U2, own2) >= InitialBalance + SumOver(G2, own2)
    BY <1>3, <1>4, <2>2, <2>3, <2>5, <2>6, <2>7, <2>8
  <2> QED BY <2>9 DEF own2
<1> QED BY <1>5, <1>6 DEF BalancesBacked, U2, G2

\* undoSaleCashback takes no more than it is told to, and never below zero.
LEMMA UndoBound ==
    ASSUME NEW b \in Nat, NEW net \in Int
    PROVE  Undo(b, net) \in Nat /\ Undo(b, net) >= b - net
BY DEF Undo, TakeBack, AtMost

-----------------------------------------------------------------------------
(* The actions.                                                            *)

\* A step that leaves debts alone and gives a client at most to a sale without one.
LEMMA DebtsUntouched ==
    ASSUME DebtInv, UNCHANGED debtVars,
           \A t \in Sale : sale'[t].client = sale[t].client \/ sale[t].client = Nobody
    PROVE  /\ DebtInv' /\ amount' = amount /\ issued' = issued
           /\ debtor' = debtor /\ debtSale' = debtSale
<1>1. DebtTypes'
  BY DEF debtVars, DebtInv, DebtTypes
<1>2. DebtsHold'
  BY DEF debtVars, DebtInv, DebtsHold
<1>3. DebtsAddUp'
  BY AddUpParts DEF debtVars, DebtInv
<1> QED BY <1>1, <1>2, <1>3 DEF DebtInv, debtVars

\* A debt opened for s is issued to it.
LEMMA CreditsOpened ==
    ASSUME AccountInv, NEW d \in Debt, NEW c \in Client, NEW s \in Sale \cup {NoSale},
           NEW a \in Nat, a > 0, OpenDebt(d, c, s, a), adjustment' = adjustment,
           s \in Sale => sale'[s].client = c,
           \A t \in Sale : sale'[t].client = sale[t].client \/ sale[t].client = Nobody
    PROVE  /\ DebtInv'
           /\ CreditsAddUp(amount', debtor', debtSale', adjustment', issued')
           /\ \A t \in Sale : DebtsOf(t) \subseteq OwedOf(debtor', debtSale', t)
<1>1. DebtInv
  BY InvParts
<1>2. /\ DebtInv'
      /\ \A t \in Sale : SumOver(amount', OwedOf(debtor', debtSale', t))
                            = SumOver(amount, DebtsOf(t)) + (IF t = s THEN a ELSE 0)
      /\ \A t \in Sale : DebtsOf(t) \subseteq OwedOf(debtor', debtSale', t)
  BY <1>1, OpenDebtKeeps
<1>3. ASSUME NEW t \in Sale
      PROVE  SumOver(amount', OwedOf(debtor', debtSale', t)) + LiveSum(adjustment', t, "credit")
                = issued'[t]
  <2>1. SumOver(amount, DebtsOf(t)) + LiveSum(adjustment, t, "credit") = issued[t]
    BY InvParts DEF CreditsAddUp, DebtsOf, OwedOf
  <2>2. LiveSum(adjustment, t, "credit") \in Nat
    BY InvParts, LiveSumType DEF Columns
  <2>3. SumOver(amount, DebtsOf(t)) \in Nat
    <3>1. DebtsOf(t) \subseteq Debt /\ IsFiniteSet(DebtsOf(t))
      BY DebtFinite DEF DebtsOf
    <3>2. \A e \in DebtsOf(t) : amount[e] \in Int
      BY <1>1, <3>1 DEF DebtInv, DebtTypes
    <3> QED BY <3>1, <3>2, SumType
  <2>4. issued'[t] = issued[t] + (IF t = s THEN a ELSE 0)
    BY <1>1, AccountsAssumption DEF OpenDebt, DebtInv, DebtTypes
  <2>5. SumOver(amount', OwedOf(debtor', debtSale', t))
           = SumOver(amount, DebtsOf(t)) + (IF t = s THEN a ELSE 0)
    BY <1>2
  <2> QED BY <2>1, <2>2, <2>3, <2>4, <2>5
<1> QED BY <1>2, <1>3 DEF CreditsAddUp

LEMMA CreateDebtInv ==
    ASSUME AccountInv, NEW d \in Debt, NEW c \in Client, NEW s \in Sale \cup {NoSale},
           NEW a \in Amounts, CreateDebt(d, c, s, a)
    PROVE  AccountInv'
<1>1. /\ sale' = sale /\ adjustment' = adjustment /\ balance' = balance
      /\ OpenDebt(d, c, s, a) /\ (s \in Sale => sale'[s].client = c) /\ a \in Nat /\ a > 0
  BY AccountsAssumption DEF CreateDebt, Amounts
<1>2. /\ DebtInv' /\ CreditsAddUp(amount', debtor', debtSale', adjustment', issued')
      /\ \A t \in Sale : DebtsOf(t) \subseteq OwedOf(debtor', debtSale', t)
  BY <1>1, CreditsOpened
<1>3. AdjustmentsFit(sale', adjustment', debtor', debtSale')
  BY <1>1, <1>2, InvParts DEF AdjustmentsFit, DebtsOf, OwedOf
<1> QED BY <1>1, <1>2, <1>3, InvParts

LEMMA PaySaleInv ==
    ASSUME AccountInv, NEW s \in Sale, NEW c \in Client, NEW total \in Amounts,
           NEW percent \in Percents, NEW spent \in 0 .. total,
           PaySale(s, c, total, spent, percent)
    PROVE  AccountInv'
<1> DEFINE earned == Share(total - spent, percent, 100)
<1>1. earned \in Nat
  <2>1. total - spent \in Nat /\ percent \in Nat
    BY AccountsAssumption DEF Amounts
  <2> QED BY <2>1, ShareType
<1> HIDE DEF earned
<1>2. /\ sale[s].state = "none" /\ spent <= balance[c] /\ spent \in Nat
      /\ total \in Nat /\ total > 0
      /\ sale' = [sale EXCEPT ![s] = [state |-> "paid", client |-> c, total |-> total,
                                      earned |-> earned, spent |-> spent]]
      /\ balance' = [balance EXCEPT ![c] = @ - spent + earned]
      /\ adjustment' = adjustment
  BY DEF PaySale, earned, Amounts
<1>3. /\ sale \in [Sale -> SaleRecord] /\ adjustment \in [Adjustment -> AdjustmentRecord]
      /\ balance \in [Client -> Nat] /\ DebtInv /\ SalesFit(sale)
      /\ AdjustmentsFit(sale, adjustment, debtor, debtSale)
      /\ CreditsAddUp(amount, debtor, debtSale, adjustment, issued)
      /\ LimitsHold(sale, adjustment)
  BY InvParts
<1>4. /\ sale' \in [Sale -> SaleRecord] /\ balance' \in [Client -> Nat]
      /\ sale'[s].state = "paid" /\ sale'[s].client = c /\ sale'[s].total = total
      /\ sale'[s].earned = earned /\ sale'[s].spent = spent
      /\ \A t \in Sale \ {s} : sale'[t] = sale[t]
      /\ balance'[c] = balance[c] - spent + earned
      /\ \A b \in Client \ {c} : balance'[b] = balance[b]
  BY <1>1, <1>2, <1>3 DEF SaleRecord
<1>5. sale[s].client = Nobody
  BY <1>2, <1>3 DEF SalesFit
<1>6. LiveOf(adjustment, s) = {}
  BY <1>2, <1>3 DEF LiveOf, AdjustmentsFit
<1>7. /\ DebtInv' /\ CreditsAddUp(amount', debtor', debtSale', adjustment', issued')
      /\ \A t \in Sale : DebtsOf(t) \subseteq OwedOf(debtor', debtSale', t)
  <2>1. \A t \in Sale : sale'[t].client = sale[t].client \/ sale[t].client = Nobody
    BY <1>4, <1>5
  <2>2. CASE UNCHANGED debtVars
    <3>1. /\ DebtInv' /\ amount' = amount /\ issued' = issued
          /\ debtor' = debtor /\ debtSale' = debtSale
      BY <1>3, <2>1, <2>2, DebtsUntouched
    <3> QED BY <1>2, <1>3, <3>1 DEF DebtsOf, OwedOf
  <2>3. ASSUME NEW d \in Debt, NEW a \in 1 .. total - spent, OpenDebt(d, c, s, a)
        PROVE  <1>7
    <3>1. a \in Nat /\ a > 0 /\ sale'[s].client = c
      BY <1>4
    <3> QED BY <1>2, <2>1, <2>3, <3>1, CreditsOpened
  <2> QED BY <2>2, <2>3 DEF PaySale
<1>8. SalesFit(sale')
  BY <1>2, <1>3, <1>4 DEF SalesFit
<1>9. AdjustmentsFit(sale', adjustment', debtor', debtSale')
  <2> SUFFICES ASSUME NEW x \in Adjustment, adjustment[x].state = "live"
               PROVE  /\ adjustment[x].sale \in Sale
                      /\ sale'[adjustment[x].sale].state = "paid"
                      /\ adjustment[x].credit > 0
                            => OwedOf(debtor', debtSale', adjustment[x].sale) # {}
    BY <1>2 DEF AdjustmentsFit
  <2>1. /\ adjustment[x].sale \in Sale /\ sale[adjustment[x].sale].state = "paid"
        /\ adjustment[x].credit > 0 => DebtsOf(adjustment[x].sale) # {}
    BY <1>3 DEF AdjustmentsFit, DebtsOf, OwedOf
  <2>2. sale'[adjustment[x].sale].state = "paid"
    BY <1>2, <1>4, <2>1
  <2> QED BY <1>7, <2>1, <2>2
<1>10. LimitsHold(sale', adjustment')
  <2>1. LiveSum(adjustment, s, "taken") = 0 /\ LiveSum(adjustment, s, "refunded") = 0
    BY <1>6, LiveNone
  <2> QED BY <1>1, <1>2, <1>3, <1>4, <2>1 DEF LimitsHold
<1>11. BalancesBacked(sale', adjustment', balance')
  <2>1. \A k \in Columns : LiveSum(adjustment, s, k) = 0
    BY <1>6, LiveNone
  <2>2. /\ UsedOf(sale, adjustment)[s] = 0 /\ GivenOf(sale, adjustment)[s] = 0
        /\ UsedOf(sale', adjustment')[s] = spent /\ GivenOf(sale', adjustment')[s] = earned
    BY <1>1, <1>2, <1>4, <2>1 DEF UsedOf, GivenOf, Columns
  <2>3. \A t \in Sale \ {s} : /\ sale'[t].client = sale[t].client
                              /\ UsedOf(sale', adjustment')[t] = UsedOf(sale, adjustment)[t]
                              /\ GivenOf(sale', adjustment')[t] = GivenOf(sale, adjustment)[t]
    BY <1>2, <1>4 DEF UsedOf, GivenOf
  <2>4. balance'[c] + UsedOf(sale', adjustment')[s] + GivenOf(sale, adjustment)[s]
           >= balance[c] + UsedOf(sale, adjustment)[s] + GivenOf(sale', adjustment')[s]
    BY <1>1, <1>2, <1>3, <1>4, <2>2
  <2>5. adjustment' \in [Adjustment -> AdjustmentRecord]
    BY <1>2, <1>3
  <2> QED BY <1>4, <1>5, <2>2, <2>3, <2>4, <2>5, BackedKeeps
<1> QED BY <1>2, <1>3, <1>4, <1>7, <1>8, <1>9, <1>10, <1>11, InvParts

LEMMA PayOffInv ==
    ASSUME AccountInv, NEW d \in Debt, NEW a \in Nat, a > 0, PayOff(d, a),
           \/ /\ repaidPlain' = [repaidPlain EXCEPT ![d] = @ + a]
              /\ repaidKeys' = repaidKeys
           \/ \E k \in Key : /\ k \notin repaidKeys[d] /\ KeyAmount[k] = a
                             /\ repaidKeys' = [repaidKeys EXCEPT ![d] = @ \cup {k}]
                             /\ repaidPlain' = repaidPlain
    PROVE  AccountInv'
<1>1. DebtInv'
  BY InvParts, PayOffKeeps
<1>2. /\ sale' = sale /\ adjustment' = adjustment /\ balance' = balance /\ debtor' = debtor
      /\ debtSale' = debtSale /\ amount' = amount /\ issued' = issued
  BY DEF PayOff
<1> QED BY <1>1, <1>2, InvParts

\* What a return takes back is at most the balance and what is left of the cashback
\* earned, what it refunds at most what is left of the bonuses spent.
LEMMA AdjustAmounts ==
    ASSUME AccountInv, NEW s \in Sale, sale[s].state = "paid", NEW total \in Nat
    PROVE  /\ CashbackTaken(s, total) \in Nat /\ CashbackTaken(s, total) <= balance[sale[s].client]
           /\ CashbackTaken(s, total) <= sale[s].earned - SumLive(s, "taken")
           /\ BonusRefund(s, total) \in Nat
           /\ BonusRefund(s, total) <= sale[s].spent - SumLive(s, "refunded")
<1>1. /\ sale[s].client \in Client /\ sale[s].total \in Nat /\ sale[s].total > 0
      /\ sale[s].earned \in Nat /\ sale[s].spent \in Nat /\ balance[sale[s].client] \in Nat
  BY InvParts DEF SalesFit, SaleRecord
<1>2. /\ SumLive(s, "taken") \in Nat /\ SumLive(s, "refunded") \in Nat
      /\ SumLive(s, "taken") <= sale[s].earned /\ SumLive(s, "refunded") <= sale[s].spent
  <2>1. /\ LiveSum(adjustment, s, "taken") \in Nat
        /\ LiveSum(adjustment, s, "refunded") \in Nat
    BY InvParts, LiveSumType DEF Columns
  <2>2. /\ SumLive(s, "taken") = LiveSum(adjustment, s, "taken")
        /\ SumLive(s, "refunded") = LiveSum(adjustment, s, "refunded")
    BY DEF SumLive, Live, LiveSum, LiveOf
  <2> QED BY <2>1, <2>2, InvParts DEF LimitsHold
<1>3. /\ Share(sale[s].earned, total, sale[s].total) \in Nat
      /\ Share(sale[s].spent, total, sale[s].total) \in Nat
  BY <1>1, ShareType
<1> QED BY <1>1, <1>2, <1>3 DEF CashbackTaken, BonusRefund, AtMost, AtLeast

LEMMA AdjustInv ==
    ASSUME AccountInv, NEW x \in Adjustment, NEW s \in Sale, NEW total \in Amounts,
           NEW newTotal \in 0 .. MaxTotal, NEW percent \in Percents,
           Adjust(x, s, total, newTotal, percent)
    PROVE  AccountInv'
<1> DEFINE c == sale[s].client
           taken == CashbackTaken(s, total)
           refunded == IF newTotal = 0 THEN BonusRefund(s, total) ELSE 0
           earned == Share(newTotal, percent, 100)
           credit == AtLeast(0, total - refunded - newTotal)
           applied == SumOver(Applied(s, credit), Debt)
           record == [state |-> "live", sale |-> s, total |-> total, newTotal |-> newTotal,
                      taken |-> taken, earned |-> earned, refunded |-> refunded,
                      credit |-> applied]
<1>1. /\ sale[s].state = "paid" /\ adjustment[x].state = "none" /\ CreditDebts(s, credit)
      /\ adjustment' = [adjustment EXCEPT ![x] = record]
      /\ balance' = [balance EXCEPT ![c] = @ - taken + refunded + earned]
      /\ sale' = sale
  BY DEF Adjust
<1>2. /\ sale \in [Sale -> SaleRecord] /\ adjustment \in [Adjustment -> AdjustmentRecord]
      /\ balance \in [Client -> Nat] /\ DebtInv /\ SalesFit(sale)
      /\ AdjustmentsFit(sale, adjustment, debtor, debtSale)
      /\ CreditsAddUp(amount, debtor, debtSale, adjustment, issued)
      /\ LimitsHold(sale, adjustment)
  BY InvParts
<1>3. c \in Client /\ total \in Nat /\ newTotal \in Nat /\ percent \in Nat
  BY <1>1, <1>2, AccountsAssumption DEF SalesFit, Amounts
<1>4. /\ taken \in Nat /\ taken <= balance[c]
      /\ taken <= sale[s].earned - LiveSum(adjustment, s, "taken")
      /\ refunded \in Nat /\ refunded <= sale[s].spent - LiveSum(adjustment, s, "refunded")
  <2>1. /\ SumLive(s, "taken") = LiveSum(adjustment, s, "taken")
        /\ SumLive(s, "refunded") = LiveSum(adjustment, s, "refunded")
    BY DEF SumLive, Live, LiveSum, LiveOf
  <2>2. /\ LiveSum(adjustment, s, "refunded") \in Nat /\ sale[s].spent \in Nat
        /\ LiveSum(adjustment, s, "refunded") <= sale[s].spent
    BY <1>2, LiveSumType DEF Columns, LimitsHold, SaleRecord
  <2> QED BY <1>1, <1>3, <2>1, <2>2, AdjustAmounts
<1>5. earned \in Nat
  BY <1>3, ShareType
<1> HIDE DEF taken, refunded, earned
<1>6. credit \in Nat
  BY <1>3, <1>4 DEF AtLeast
<1> HIDE DEF credit
<1>7. /\ DebtInv' /\ debtor' = debtor /\ debtSale' = debtSale /\ issued' = issued
      /\ applied \in Nat /\ (applied > 0 => DebtsOf(s) # {})
      /\ \A t \in Sale : SumOver(amount', DebtsOf(t)) + (IF t = s THEN applied ELSE 0)
                            = SumOver(amount, DebtsOf(t))
  BY <1>1, <1>2, <1>3, <1>6, CreditDebtsKeeps
<1> HIDE DEF applied
<1>8. /\ adjustment' \in [Adjustment -> AdjustmentRecord]
      /\ adjustment'[x] = record
      /\ \A y \in Adjustment \ {x} : adjustment'[y] = adjustment[y]
  <2>1. record \in AdjustmentRecord
    BY <1>3, <1>4, <1>5, <1>7 DEF AdjustmentRecord
  <2> HIDE DEF record
  <2> QED BY <1>1, <1>2, <2>1
<1>9. /\ adjustment'[x].state = "live" /\ adjustment'[x].sale = s
      /\ adjustment'[x].taken = taken /\ adjustment'[x].earned = earned
      /\ adjustment'[x].refunded = refunded /\ adjustment'[x].credit = applied
  BY <1>8
<1> HIDE DEF record
<1>10. ASSUME NEW t \in Sale, NEW k \in Columns
       PROVE  /\ LiveSum(adjustment, t, k) \in Nat /\ LiveSum(adjustment', t, k) \in Nat
              /\ t = s => LiveSum(adjustment', t, k)
                             = LiveSum(adjustment, t, k) + adjustment'[x][k]
              /\ t # s => LiveSum(adjustment', t, k) = LiveSum(adjustment, t, k)
  <2>1. adjustment[x].state # "live"
    BY <1>1
  <2>2. LiveSum(adjustment, t, k) \in Nat /\ LiveSum(adjustment', t, k) \in Nat
    BY <1>2, <1>8, LiveSumType
  <2>3. /\ adjustment'[x].sale = t => LiveSum(adjustment', t, k)
                                         = LiveSum(adjustment, t, k) + adjustment'[x][k]
        /\ adjustment'[x].sale # t => LiveSum(adjustment', t, k) = LiveSum(adjustment, t, k)
    BY <1>2, <1>8, <1>9, <2>1, LiveAdded
  <2> QED BY <1>9, <2>2, <2>3
<1>11. /\ balance' \in [Client -> Nat]
       /\ balance'[c] = balance[c] - taken + refunded + earned
       /\ \A b \in Client \ {c} : balance'[b] = balance[b]
  <2>1. balance[c] - taken + refunded + earned \in Nat
    BY <1>2, <1>3, <1>4, <1>5
  <2> QED BY <1>1, <1>2, <1>3, <2>1
<1>12. AdjustmentsFit(sale', adjustment', debtor', debtSale')
  <2> SUFFICES ASSUME NEW y \in Adjustment, adjustment'[y].state = "live"
               PROVE  /\ adjustment'[y].sale \in Sale
                      /\ sale[adjustment'[y].sale].state = "paid"
                      /\ adjustment'[y].credit > 0
                            => OwedOf(debtor, debtSale, adjustment'[y].sale) # {}
    BY <1>1, <1>7 DEF AdjustmentsFit
  <2>1. CASE y = x
    BY <1>1, <1>7, <1>9, <2>1 DEF DebtsOf, OwedOf
  <2>2. CASE y # x
    BY <1>2, <1>8, <2>2 DEF AdjustmentsFit
  <2> QED BY <2>1, <2>2
<1>13. CreditsAddUp(amount', debtor', debtSale', adjustment', issued')
  <2> SUFFICES ASSUME NEW t \in Sale
               PROVE  SumOver(amount', DebtsOf(t)) + LiveSum(adjustment', t, "credit") = issued[t]
    BY <1>7 DEF CreditsAddUp, DebtsOf, OwedOf
  <2>1. SumOver(amount, DebtsOf(t)) + LiveSum(adjustment, t, "credit") = issued[t]
    BY <1>2 DEF CreditsAddUp, DebtsOf, OwedOf
  <2>2. /\ LiveSum(adjustment, t, "credit") \in Nat
        /\ t = s => LiveSum(adjustment', t, "credit") = LiveSum(adjustment, t, "credit") + applied
        /\ t # s => LiveSum(adjustment', t, "credit") = LiveSum(adjustment, t, "credit")
    BY <1>9, <1>10 DEF Columns
  <2>3. SumOver(amount', DebtsOf(t)) \in Nat
    <3>1. DebtsOf(t) \subseteq Debt /\ IsFiniteSet(DebtsOf(t))
      BY DebtFinite DEF DebtsOf
    <3>2. \A e \in DebtsOf(t) : amount'[e] \in Int
      BY <1>7, <3>1 DEF DebtInv, DebtTypes
    <3> QED BY <3>1, <3>2, SumType
  <2> QED BY <1>7, <2>1, <2>2, <2>3
<1>14. LimitsHold(sale', adjustment')
  <2> SUFFICES ASSUME NEW t \in Sale
               PROVE  /\ LiveSum(adjustment', t, "taken") <= sale[t].earned
                      /\ LiveSum(adjustment', t, "refunded") <= sale[t].spent
    BY <1>1 DEF LimitsHold
  <2>1. /\ LiveSum(adjustment, t, "taken") <= sale[t].earned
        /\ LiveSum(adjustment, t, "refunded") <= sale[t].spent
        /\ sale[t].earned \in Nat /\ sale[t].spent \in Nat
    BY <1>2 DEF LimitsHold, SaleRecord
  <2>2. /\ LiveSum(adjustment, t, "taken") \in Nat /\ LiveSum(adjustment, t, "refunded") \in Nat
        /\ t = s => /\ LiveSum(adjustment', t, "taken") = LiveSum(adjustment, t, "taken") + taken
                    /\ LiveSum(adjustment', t, "refunded")
                          = LiveSum(adjustment, t, "refunded") + refunded
        /\ t # s => /\ LiveSum(adjustment', t, "taken") = LiveSum(adjustment, t, "taken")
                    /\ LiveSum(adjustment', t, "refunded") = LiveSum(adjustment, t, "refunded")
    BY <1>9, <1>10 DEF Columns
  <2>3. CASE t = s
    BY <1>4, <2>1, <2>2, <2>3
  <2>4. CASE t # s
    BY <2>1, <2>2, <2>4
  <2> QED BY <2>3, <2>4
<1>15. BalancesBacked(sale', adjustment', balance')
  <2>1. /\ UsedOf(sale', adjustment')[s] = UsedOf(sale, adjustment)[s] + taken
        /\ GivenOf(sale', adjustment')[s] = GivenOf(sale, adjustment)[s] + refunded + earned
    <3>1. sale[s].earned \in Nat /\ sale[s].spent \in Nat
      BY <1>2 DEF SaleRecord
    <3>2. /\ LiveSum(adjustment, s, "taken") \in Nat /\ LiveSum(adjustment, s, "refunded") \in Nat
          /\ LiveSum(adjustment, s, "earned") \in Nat
          /\ LiveSum(adjustment', s, "taken") = LiveSum(adjustment, s, "taken") + taken
          /\ LiveSum(adjustment', s, "refunded") = LiveSum(adjustment, s, "refunded") + refunded
          /\ LiveSum(adjustment', s, "earned") = LiveSum(adjustment, s, "earned") + earned
      BY <1>9, <1>10 DEF Columns
    <3> QED BY <1>1, <1>4, <1>5, <3>1, <3>2 DEF UsedOf, GivenOf
  <2>2. \A t \in Sale \ {s} : /\ sale'[t].client = sale[t].client
                              /\ UsedOf(sale', adjustment')[t] = UsedOf(sale, adjustment)[t]
                              /\ GivenOf(sale', adjustment')[t] = GivenOf(sale, adjustment)[t]
    <3>1. \A t \in Sale \ {s} :
             /\ LiveSum(adjustment', t, "taken") = LiveSum(adjustment, t, "taken")
             /\ LiveSum(adjustment', t, "refunded") = LiveSum(adjustment, t, "refunded")
             /\ LiveSum(adjustment', t, "earned") = LiveSum(adjustment, t, "earned")
      BY <1>10 DEF Columns
    <3> QED BY <1>1, <3>1 DEF UsedOf, GivenOf
  <2>3. UsedOf(sale, adjustment)[s] \in Nat /\ GivenOf(sale, adjustment)[s] \in Nat
    BY <1>2, UsedGivenType
  <2>4. balance'[c] + UsedOf(sale', adjustment')[s] + GivenOf(sale, adjustment)[s]
           >= balance[c] + UsedOf(sale, adjustment)[s] + GivenOf(sale', adjustment')[s]
    BY <1>2, <1>3, <1>4, <1>5, <1>11, <2>1, <2>3
  <2>5. c # Nobody
    BY <1>3, AccountsAssumption
  <2>6. /\ sale' \in [Sale -> SaleRecord] /\ sale'[s].client = c /\ sale[s].client = c
    BY <1>1, <1>2
  <2> HIDE DEF c
  <2> QED BY <1>3, <1>8, <1>11, <2>2, <2>4, <2>5, <2>6, BackedKeeps
<1> QED BY <1>1, <1>2, <1>7, <1>8, <1>11, <1>12, <1>13, <1>14, <1>15, InvParts

LEMMA CancelAdjustmentInv ==
    ASSUME AccountInv, NEW x \in Adjustment, CancelAdjustment(x)
    PROVE  AccountInv'
<1> DEFINE s == adjustment[x].sale
           c == sale[s].client
           taken == adjustment[x].taken
           refunded == adjustment[x].refunded
           earned == adjustment[x].earned
           credit == adjustment[x].credit
           returned == Undo(balance[c], refunded - taken)
<1>1. /\ adjustment[x].state = "live"
      /\ adjustment' = [adjustment EXCEPT ![x].state = "cancelled"]
      /\ balance' = [balance EXCEPT ![c] = Undo(returned, earned)]
      /\ GiveCreditBack(s, credit) /\ sale' = sale
  BY DEF CancelAdjustment
<1>2. /\ sale \in [Sale -> SaleRecord] /\ adjustment \in [Adjustment -> AdjustmentRecord]
      /\ balance \in [Client -> Nat] /\ DebtInv /\ SalesFit(sale)
      /\ AdjustmentsFit(sale, adjustment, debtor, debtSale)
      /\ CreditsAddUp(amount, debtor, debtSale, adjustment, issued)
      /\ LimitsHold(sale, adjustment)
  BY InvParts
<1>3. /\ s \in Sale /\ sale[s].state = "paid" /\ (credit > 0 => DebtsOf(s) # {})
      /\ taken \in Nat /\ refunded \in Nat /\ earned \in Nat /\ credit \in Nat
  BY <1>1, <1>2 DEF AdjustmentsFit, AdjustmentRecord, DebtsOf, OwedOf
<1>4. /\ adjustment' \in [Adjustment -> AdjustmentRecord]
      /\ adjustment'[x].state = "cancelled"
      /\ \A y \in Adjustment \ {x} : adjustment'[y] = adjustment[y]
  BY <1>1, <1>2 DEF AdjustmentRecord
<1>5. ASSUME NEW t \in Sale, NEW k \in Columns
      PROVE  /\ LiveSum(adjustment, t, k) \in Nat /\ LiveSum(adjustment', t, k) \in Nat
             /\ t = s => LiveSum(adjustment, t, k) = LiveSum(adjustment', t, k) + adjustment[x][k]
             /\ t # s => LiveSum(adjustment, t, k) = LiveSum(adjustment', t, k)
  <2>1. LiveSum(adjustment, t, k) \in Nat /\ LiveSum(adjustment', t, k) \in Nat
    BY <1>2, <1>4, LiveSumType
  <2>2. adjustment'[x].state # "live" /\ \A y \in Adjustment \ {x} : adjustment[y] = adjustment'[y]
    BY <1>4
  <2>3. /\ adjustment[x].sale = t => LiveSum(adjustment, t, k)
                                        = LiveSum(adjustment', t, k) + adjustment[x][k]
        /\ adjustment[x].sale # t => LiveSum(adjustment, t, k) = LiveSum(adjustment', t, k)
    <3>1. adjustment[x].state = "live"
      BY <1>1
    <3>2. adjustment \in [Adjustment -> AdjustmentRecord]
      BY <1>2
    <3>3. adjustment' \in [Adjustment -> AdjustmentRecord]
      BY <1>4
    <3> QED BY <2>2, <3>1, <3>2, <3>3, LiveAdded
  <2> QED BY <2>1, <2>3
<1>6. c \in Client
  BY <1>2, <1>3 DEF SalesFit
<1> HIDE DEF s, taken, refunded, earned, credit
<1>7. /\ DebtInv' /\ debtor' = debtor /\ debtSale' = debtSale /\ issued' = issued
      /\ \A t \in Sale : SumOver(amount', DebtsOf(t))
                            = SumOver(amount, DebtsOf(t)) + (IF t = s THEN credit ELSE 0)
  BY <1>1, <1>2, <1>3, <1>6, GiveCreditBackKeeps
<1> HIDE DEF c
<1>8. /\ balance' \in [Client -> Nat]
      /\ balance'[c] >= balance[c] - (refunded - taken) - earned
      /\ \A b \in Client \ {c} : balance'[b] = balance[b]
  <2>1. balance[c] \in Nat /\ refunded - taken \in Int
    BY <1>2, <1>3, <1>6
  <2>2. returned \in Nat /\ returned >= balance[c] - (refunded - taken)
    BY <2>1, UndoBound
  <2> HIDE DEF returned
  <2>3. Undo(returned, earned) \in Nat /\ Undo(returned, earned) >= returned - earned
    <3>1. returned \in Nat /\ earned \in Int
      BY <1>3, <2>2
    <3> QED BY <3>1, UndoBound
  <2>4. balance' = [balance EXCEPT ![c] = Undo(returned, earned)] /\ balance \in [Client -> Nat]
    BY <1>1, <1>2
  <2>5. balance'[c] = Undo(returned, earned)
    BY <1>6, <2>4
  <2>6. balance' \in [Client -> Nat] /\ \A b \in Client \ {c} : balance'[b] = balance[b]
    BY <2>3, <2>4
  <2> QED BY <1>3, <2>1, <2>2, <2>3, <2>5, <2>6
<1>9. AdjustmentsFit(sale', adjustment', debtor', debtSale')
  <2> SUFFICES ASSUME NEW y \in Adjustment, adjustment'[y].state = "live"
               PROVE  /\ adjustment'[y].sale \in Sale
                      /\ sale[adjustment'[y].sale].state = "paid"
                      /\ adjustment'[y].credit > 0
                            => OwedOf(debtor, debtSale, adjustment'[y].sale) # {}
    BY <1>1, <1>7 DEF AdjustmentsFit
  <2>1. adjustment'[y] = adjustment[y]
    BY <1>4
  <2> QED BY <1>2, <2>1 DEF AdjustmentsFit
<1>10. CreditsAddUp(amount', debtor', debtSale', adjustment', issued')
  <2> SUFFICES ASSUME NEW t \in Sale
               PROVE  SumOver(amount', DebtsOf(t)) + LiveSum(adjustment', t, "credit") = issued[t]
    BY <1>7 DEF CreditsAddUp, DebtsOf, OwedOf
  <2>1. SumOver(amount, DebtsOf(t)) + LiveSum(adjustment, t, "credit") = issued[t]
    BY <1>2 DEF CreditsAddUp, DebtsOf, OwedOf
  <2>2. /\ LiveSum(adjustment', t, "credit") \in Nat
        /\ t = s => LiveSum(adjustment, t, "credit") = LiveSum(adjustment', t, "credit") + credit
        /\ t # s => LiveSum(adjustment, t, "credit") = LiveSum(adjustment', t, "credit")
    BY <1>5 DEF Columns, credit
  <2>3. SumOver(amount, DebtsOf(t)) \in Nat
    <3>1. DebtsOf(t) \subseteq Debt /\ IsFiniteSet(DebtsOf(t))
      BY DebtFinite DEF DebtsOf
    <3>2. \A e \in DebtsOf(t) : amount[e] \in Int
      BY <1>2, <3>1 DEF DebtInv, DebtTypes
    <3> QED BY <3>1, <3>2, SumType
  <2> QED BY <1>3, <1>7, <2>1, <2>2, <2>3
<1>11. LimitsHold(sale', adjustment')
  <2> SUFFICES ASSUME NEW t \in Sale
               PROVE  /\ LiveSum(adjustment', t, "taken") <= sale[t].earned
                      /\ LiveSum(adjustment', t, "refunded") <= sale[t].spent
    BY <1>1 DEF LimitsHold
  <2>1. /\ LiveSum(adjustment, t, "taken") <= sale[t].earned
        /\ LiveSum(adjustment, t, "refunded") <= sale[t].spent
        /\ sale[t].earned \in Nat /\ sale[t].spent \in Nat
    BY <1>2 DEF LimitsHold, SaleRecord
  <2>2. /\ LiveSum(adjustment', t, "taken") \in Nat /\ LiveSum(adjustment', t, "refunded") \in Nat
        /\ t = s => /\ LiveSum(adjustment, t, "taken") = LiveSum(adjustment', t, "taken") + taken
                    /\ LiveSum(adjustment, t, "refunded")
                          = LiveSum(adjustment', t, "refunded") + refunded
        /\ t # s => /\ LiveSum(adjustment, t, "taken") = LiveSum(adjustment', t, "taken")
                    /\ LiveSum(adjustment, t, "refunded") = LiveSum(adjustment', t, "refunded")
    BY <1>5 DEF Columns, taken, refunded
  <2> QED BY <1>3, <2>1, <2>2
<1>12. BalancesBacked(sale', adjustment', balance')
  <2>1. /\ UsedOf(sale, adjustment)[s] = UsedOf(sale', adjustment')[s] + taken
        /\ GivenOf(sale, adjustment)[s] = GivenOf(sale', adjustment')[s] + refunded + earned
    <3>1. sale[s].earned \in Nat /\ sale[s].spent \in Nat
      BY <1>2, <1>3 DEF SaleRecord
    <3>2. /\ LiveSum(adjustment', s, "taken") \in Nat /\ LiveSum(adjustment', s, "refunded") \in Nat
          /\ LiveSum(adjustment', s, "earned") \in Nat
          /\ LiveSum(adjustment, s, "taken") = LiveSum(adjustment', s, "taken") + taken
          /\ LiveSum(adjustment, s, "refunded") = LiveSum(adjustment', s, "refunded") + refunded
          /\ LiveSum(adjustment, s, "earned") = LiveSum(adjustment', s, "earned") + earned
      BY <1>3, <1>5 DEF Columns, taken, refunded, earned
    <3> QED BY <1>1, <1>3, <3>1, <3>2 DEF UsedOf, GivenOf
  <2>2. \A t \in Sale \ {s} : /\ sale'[t].client = sale[t].client
                              /\ UsedOf(sale', adjustment')[t] = UsedOf(sale, adjustment)[t]
                              /\ GivenOf(sale', adjustment')[t] = GivenOf(sale, adjustment)[t]
    <3>1. \A t \in Sale \ {s} :
             /\ LiveSum(adjustment', t, "taken") = LiveSum(adjustment, t, "taken")
             /\ LiveSum(adjustment', t, "refunded") = LiveSum(adjustment, t, "refunded")
             /\ LiveSum(adjustment', t, "earned") = LiveSum(adjustment, t, "earned")
      BY <1>5 DEF Columns
    <3> QED BY <1>1, <3>1 DEF UsedOf, GivenOf
  <2>3. /\ UsedOf(sale', adjustment')[s] \in Nat /\ GivenOf(sale', adjustment')[s] \in Nat
        /\ balance[c] \in Nat /\ balance'[c] \in Nat
    BY <1>1, <1>2, <1>3, <1>4, <1>6, <1>8, UsedGivenType
  <2>4. balance'[c] + UsedOf(sale', adjustment')[s] + GivenOf(sale, adjustment)[s]
           >= balance[c] + UsedOf(sale, adjustment)[s] + GivenOf(sale', adjustment')[s]
    BY <1>3, <1>8, <2>1, <2>3
  <2>5. c # Nobody
    BY <1>6, AccountsAssumption
  <2>6. /\ sale' \in [Sale -> SaleRecord] /\ sale'[s].client = c /\ sale[s].client = c
    BY <1>1, <1>2 DEF c
  <2> QED BY <1>3, <1>4, <1>6, <1>8, <2>2, <2>4, <2>5, <2>6, BackedKeeps
<1> QED BY <1>1, <1>2, <1>4, <1>7, <1>8, <1>9, <1>10, <1>11, <1>12, InvParts

LEMMA CancelSaleInv ==
    ASSUME AccountInv, NEW s \in Sale, CancelSale(s)
    PROVE  AccountInv'
<1> DEFINE c == sale[s].client
           net == sale[s].earned - sale[s].spent
<1>1. /\ sale[s].state = "paid" /\ Live(s) = {}
      /\ sale' = [sale EXCEPT ![s].state = "cancelled"]
      /\ balance' = [balance EXCEPT ![c] = Undo(@, net)]
      /\ issued' = [issued EXCEPT ![s] = 0] /\ debtSale' = debtSale /\ adjustment' = adjustment
  BY DEF CancelSale
<1>2. /\ sale \in [Sale -> SaleRecord] /\ adjustment \in [Adjustment -> AdjustmentRecord]
      /\ balance \in [Client -> Nat] /\ DebtInv /\ SalesFit(sale)
      /\ AdjustmentsFit(sale, adjustment, debtor, debtSale)
      /\ CreditsAddUp(amount, debtor, debtSale, adjustment, issued)
      /\ LimitsHold(sale, adjustment)
  BY InvParts
<1>3. c \in Client /\ c # Nobody /\ sale[s].earned \in Nat /\ sale[s].spent \in Nat /\ net \in Int
  BY <1>1, <1>2, AccountsAssumption DEF SalesFit, SaleRecord
<1>4. LiveOf(adjustment, s) = {}
  BY <1>1 DEF Live, LiveOf
<1>5. /\ sale' \in [Sale -> SaleRecord]
      /\ sale'[s].state = "cancelled" /\ sale'[s].client = c
      /\ sale'[s].total = sale[s].total /\ sale'[s].earned = sale[s].earned
      /\ sale'[s].spent = sale[s].spent
      /\ \A t \in Sale \ {s} : sale'[t] = sale[t]
  BY <1>1, <1>2 DEF SaleRecord
<1>6. /\ DebtInv' /\ OwedOf(debtor', debtSale', s) = {}
      /\ \A t \in Sale \ {s} : /\ OwedOf(debtor', debtSale', t) = DebtsOf(t)
                               /\ SumOver(amount', DebtsOf(t)) = SumOver(amount, DebtsOf(t))
  BY <1>2, <1>3, CancelSaleKeeps
<1> HIDE DEF net
<1>7. /\ balance' \in [Client -> Nat] /\ balance'[c] >= balance[c] - net
      /\ \A b \in Client \ {c} : balance'[b] = balance[b]
  <2>1. balance[c] \in Nat
    BY <1>2, <1>3
  <2>2. Undo(balance[c], net) \in Nat /\ Undo(balance[c], net) >= balance[c] - net
    BY <1>3, <2>1, UndoBound
  <2> QED BY <1>1, <1>2, <1>3, <2>2
<1> HIDE DEF c
<1>8. SalesFit(sale')
  BY <1>1, <1>2, <1>3, <1>5 DEF SalesFit
<1>9. AdjustmentsFit(sale', adjustment', debtor', debtSale')
  <2> SUFFICES ASSUME NEW x \in Adjustment, adjustment[x].state = "live"
               PROVE  /\ adjustment[x].sale \in Sale
                      /\ sale'[adjustment[x].sale].state = "paid"
                      /\ adjustment[x].credit > 0
                            => OwedOf(debtor', debtSale', adjustment[x].sale) # {}
    BY <1>1 DEF AdjustmentsFit
  <2>1. adjustment[x].sale # s
    BY <1>4 DEF LiveOf
  <2>2. /\ adjustment[x].sale \in Sale /\ sale[adjustment[x].sale].state = "paid"
        /\ adjustment[x].credit > 0 => DebtsOf(adjustment[x].sale) # {}
    BY <1>2 DEF AdjustmentsFit, DebtsOf, OwedOf
  <2> QED BY <1>5, <1>6, <2>1, <2>2
<1>10. CreditsAddUp(amount', debtor', debtSale', adjustment', issued')
  <2> SUFFICES ASSUME NEW t \in Sale
               PROVE  SumOver(amount', OwedOf(debtor', debtSale', t))
                         + LiveSum(adjustment, t, "credit") = issued'[t]
    BY <1>1 DEF CreditsAddUp
  <2>1. issued \in [Sale -> Nat]
    BY <1>2 DEF DebtInv, DebtTypes
  <2>2. CASE t = s
    BY <1>1, <1>4, <1>6, <2>1, <2>2, LiveNone, SumEmpty
  <2>3. CASE t # s
    <3>1. SumOver(amount, DebtsOf(t)) + LiveSum(adjustment, t, "credit") = issued[t]
      BY <1>2 DEF CreditsAddUp, DebtsOf, OwedOf
    <3> QED BY <1>1, <1>6, <2>1, <2>3, <3>1
  <2> QED BY <2>2, <2>3
<1>11. LimitsHold(sale', adjustment')
  <2>1. \A t \in Sale : sale'[t].earned = sale[t].earned /\ sale'[t].spent = sale[t].spent
    BY <1>5
  <2> QED BY <1>1, <1>2, <2>1 DEF LimitsHold
<1>12. BalancesBacked(sale', adjustment', balance')
  <2>1. \A k \in Columns : LiveSum(adjustment, s, k) = 0
    BY <1>4, LiveNone
  <2>2. /\ UsedOf(sale, adjustment)[s] = sale[s].spent
        /\ GivenOf(sale, adjustment)[s] = sale[s].earned
        /\ UsedOf(sale', adjustment')[s] = 0 /\ GivenOf(sale', adjustment')[s] = 0
    BY <1>1, <1>3, <1>5, <2>1 DEF UsedOf, GivenOf, Columns
  <2>3. \A t \in Sale \ {s} : /\ sale'[t].client = sale[t].client
                              /\ UsedOf(sale', adjustment')[t] = UsedOf(sale, adjustment)[t]
                              /\ GivenOf(sale', adjustment')[t] = GivenOf(sale, adjustment)[t]
    BY <1>1, <1>5 DEF UsedOf, GivenOf
  <2>4. balance'[c] + UsedOf(sale', adjustment')[s] + GivenOf(sale, adjustment)[s]
           >= balance[c] + UsedOf(sale, adjustment)[s] + GivenOf(sale', adjustment')[s]
    <3>1. balance[c] \in Nat /\ balance'[c] \in Nat
      BY <1>2, <1>3, <1>7
    <3>2. balance'[c] >= balance[c] - (sale[s].earned - sale[s].spent)
      BY <1>7 DEF net
    <3> QED BY <1>3, <2>2, <3>1, <3>2
  <2>5. adjustment' \in [Adjustment -> AdjustmentRecord]
    BY <1>1, <1>2
  <2>6. sale[s].client = c
    BY DEF c
  <2> QED BY <1>3, <1>5, <1>7, <2>3, <2>4, <2>5, <2>6, BackedKeeps
<1> QED BY <1>1, <1>2, <1>5, <1>6, <1>7, <1>8, <1>9, <1>10, <1>11, <1>12, InvParts

LEMMA AccountStart == Init => AccountInv
<1> SUFFICES ASSUME Init PROVE AccountInv
  OBVIOUS
<1>1. /\ \A s \in Sale : sale[s] = [state |-> "none", client |-> Nobody, total |-> 0,
                                    earned |-> 0, spent |-> 0]
      /\ \A x \in Adjustment : adjustment[x].state = "none"
  BY DEF Init
<1>2. /\ sale \in [Sale -> SaleRecord] /\ adjustment \in [Adjustment -> AdjustmentRecord]
      /\ balance \in [Client -> Nat]
  BY AccountsAssumption DEF Init, SaleRecord, AdjustmentRecord
<1>3. DebtTypes
  BY AccountsAssumption DEF Init, DebtTypes
<1>4. DebtsHold
  BY FS_EmptySet DEF Init, DebtsHold
<1>5. DebtsAddUp
  <2>1. RowsAddUp(remaining, repaid, amount, debtStatus)
    BY DEF Init, RowsAddUp, StatusOf
  <2>2. TotalsAddUp(debtor, remaining, debtUzs)
    <3>1. ASSUME NEW c \in Client PROVE debtUzs[c] = SumOver(remaining, OwnDebts(debtor, c))
      <4>1. OwnDebts(debtor, c) = {}
        BY AccountsAssumption DEF Init, OwnDebts
      <4> QED BY <4>1, SumEmpty DEF Init
    <3> QED BY <3>1 DEF TotalsAddUp
  <2>3. RepaymentsAddUp(repaid, repaidPlain, repaidKeys)
    BY SumEmpty DEF Init, RepaymentsAddUp
  <2> QED BY <2>1, <2>2, <2>3, AddUpParts
<1>6. SalesFit(sale) /\ AdjustmentsFit(sale, adjustment, debtor, debtSale)
  BY <1>1 DEF SalesFit, AdjustmentsFit
<1>7. \A s \in Sale : LiveOf(adjustment, s) = {}
  BY <1>1 DEF LiveOf
<1>8. \A s \in Sale : \A k \in Columns : LiveSum(adjustment, s, k) = 0
  BY <1>7, LiveNone
<1>9. CreditsAddUp(amount, debtor, debtSale, adjustment, issued)
  <2> SUFFICES ASSUME NEW s \in Sale
               PROVE  SumOver(amount, OwedOf(debtor, debtSale, s))
                         + LiveSum(adjustment, s, "credit") = issued[s]
    BY DEF CreditsAddUp
  <2>1. OwedOf(debtor, debtSale, s) = {} /\ issued[s] = 0
    BY DEF Init, OwedOf
  <2> QED BY <1>8, <2>1, SumEmpty DEF Columns
<1>10. LimitsHold(sale, adjustment)
  BY <1>1, <1>8 DEF LimitsHold, Columns
<1>11. BalancesBacked(sale, adjustment, balance)
  <2> SUFFICES ASSUME NEW c \in Client
               PROVE  balance[c] + SumOver(UsedOf(sale, adjustment), SalesOf(sale, c))
                         >= InitialBalance + SumOver(GivenOf(sale, adjustment), SalesOf(sale, c))
    BY DEF BalancesBacked
  <2>1. SalesOf(sale, c) = {} /\ balance[c] = InitialBalance /\ InitialBalance \in Nat
    BY <1>1, AccountsAssumption DEF SalesOf, Init
  <2> QED BY <2>1, SumEmpty
<1>12. DebtInv
  BY <1>3, <1>4, <1>5 DEF DebtInv
<1> QED BY <1>2, <1>6, <1>9, <1>10, <1>11, <1>12, InvParts

LEMMA AccountStep == AccountInv /\ [Next]_vars => AccountInv'
<1> SUFFICES ASSUME AccountInv, [Next]_vars PROVE AccountInv'
  OBVIOUS
<1>1. ASSUME NEW c \in Client, NEW s \in Sale, NEW total \in Amounts, NEW percent \in Percents,
             NEW spent \in 0 .. total, PaySale(s, c, total, spent, percent)
      PROVE  AccountInv'
  BY <1>1, PaySaleInv
<1>2. ASSUME NEW d \in Debt, NEW c \in Client, NEW s \in Sale \cup {NoSale}, NEW a \in Amounts,
             CreateDebt(d, c, s, a)
      PROVE  AccountInv'
  BY <1>2, CreateDebtInv
<1>3. ASSUME NEW d \in Debt, NEW k \in Key, Repay(d, k)
      PROVE  AccountInv'
  <2>1. KeyAmount[k] \in Nat /\ KeyAmount[k] > 0
    BY AccountsAssumption
  <2>2. /\ k \notin repaidKeys[d] /\ PayOff(d, KeyAmount[k])
        /\ repaidKeys' = [repaidKeys EXCEPT ![d] = @ \cup {k}] /\ repaidPlain' = repaidPlain
    BY <1>3 DEF Repay, Replayed
  <2> QED BY <2>1, <2>2, PayOffInv
<1>4. ASSUME NEW d \in Debt, NEW a \in Amounts, RepayWithoutKey(d, a)
      PROVE  AccountInv'
  <2>1. a \in Nat /\ a > 0
    BY AccountsAssumption DEF Amounts
  <2>2. /\ PayOff(d, a) /\ repaidKeys' = repaidKeys
        /\ repaidPlain' = [repaidPlain EXCEPT ![d] = @ + a]
    BY <1>4 DEF RepayWithoutKey
  <2> QED BY <2>1, <2>2, PayOffInv
<1>5. ASSUME NEW x \in Adjustment, NEW s \in Sale, NEW total \in Amounts,
             NEW newTotal \in 0 .. MaxTotal, NEW percent \in Percents,
             Adjust(x, s, total, newTotal, percent)
      PROVE  AccountInv'
  BY <1>5, AdjustInv
<1>6. ASSUME NEW x \in Adjustment, CancelAdjustment(x)
      PROVE  AccountInv'
  BY <1>6, CancelAdjustmentInv
<1>7. ASSUME NEW s \in Sale, CancelSale(s)
      PROVE  AccountInv'
  BY <1>7, CancelSaleInv
<1>8. CASE UNCHANGED vars
  <2>1. DebtInv /\ sale' = sale /\ adjustment' = adjustment /\ balance' = balance
        /\ UNCHANGED debtVars
    BY <1>8, InvParts DEF vars
  <2>2. /\ DebtInv' /\ amount' = amount /\ issued' = issued
        /\ debtor' = debtor /\ debtSale' = debtSale
    BY <2>1, DebtsUntouched
  <2> QED BY <2>1, <2>2, InvParts
<1> QED BY <1>1, <1>2, <1>3, <1>4, <1>5, <1>6, <1>7, <1>8 DEF Next

-----------------------------------------------------------------------------
(* The pages of debts.                                                     *)

\* A set of debts owes what is left of those that are not paid, and its amounts are
\* what is left and what was repaid.
LEMMA SetOfDebts ==
    ASSUME DebtInv, NEW D \in SUBSET Debt
    PROVE  /\ SumOver(remaining, D) \in Nat /\ SumOver(repaid, D) \in Nat
           /\ SumOver(amount, D) = SumOver(remaining, D) + SumOver(repaid, D)
           /\ SumOver(remaining, D) = SumOver(remaining, D \ {d \in D : debtStatus[d] = "paid"})
           /\ SumOver(repaid, D) = SumOver(repaid, D \ {d \in D : debtStatus[d] = "unpaid"})
<1>1. IsFiniteSet(D)
  BY DebtFinite
<1>2. ASSUME NEW d \in D
      PROVE  /\ remaining[d] \in Nat /\ repaid[d] \in Nat
             /\ amount[d] = remaining[d] + repaid[d]
             /\ debtStatus[d] = "paid" => remaining[d] = 0
             /\ debtStatus[d] = "unpaid" => repaid[d] = 0
  <2>1. /\ remaining[d] \in Nat /\ repaid[d] \in Nat
        /\ amount[d] = remaining[d] + repaid[d]
        /\ debtStatus[d] = StatusOf(remaining[d], repaid[d])
    BY AddUpParts DEF DebtInv, DebtTypes, RowsAddUp
  <2> QED BY <2>1 DEF StatusOf
<1>3. SumOver(remaining, D) \in Nat
  <2>1. \A d \in D : remaining[d] \in Int
    BY <1>2
  <2> QED BY <1>1, <2>1, SumType
<1>4. SumOver(repaid, D) \in Nat
  <2>1. \A d \in D : repaid[d] \in Int
    BY <1>2
  <2> QED BY <1>1, <2>1, SumType
<1>5. SumOver(amount, D) = SumOver(remaining, D) + SumOver(repaid, D)
  <2>1. \A d \in D : remaining[d] \in Nat /\ repaid[d] \in Nat /\ amount[d] = remaining[d] + repaid[d]
    BY <1>2
  <2> QED BY <1>1, <2>1, SumAdd
<1>6. SumOver(remaining, D) = SumOver(remaining, D \ {d \in D : debtStatus[d] = "paid"})
  <2> DEFINE T == D \ {d \in D : debtStatus[d] = "paid"}
  <2>1. T \subseteq D /\ \A d \in D \ T : remaining[d] = 0
    BY <1>2
  <2> HIDE DEF T
  <2>2. SumOver(remaining, D) = SumOver(remaining, T)
    BY <2>1, SumZeroRows
  <2> QED BY <2>2 DEF T
<1>7. SumOver(repaid, D) = SumOver(repaid, D \ {d \in D : debtStatus[d] = "unpaid"})
  <2> DEFINE T == D \ {d \in D : debtStatus[d] = "unpaid"}
  <2>1. T \subseteq D /\ \A d \in D \ T : repaid[d] = 0
    BY <1>2
  <2> HIDE DEF T
  <2>2. SumOver(repaid, D) = SumOver(repaid, T)
    BY <2>1, SumZeroRows
  <2> QED BY <2>2 DEF T
<1> QED BY <1>3, <1>4, <1>5, <1>6, <1>7

LEMMA PagesAgree == DebtInv => DebtPagesAgree
<1> SUFFICES ASSUME DebtInv PROVE DebtPagesAgree
  OBVIOUS
<1> DEFINE states == {"unpaid", "partial", "paid"}
           E == DebtsShown(Client, states)
           In(D, state) == {d \in D : debtStatus[d] = state}
<1>1. \A d \in Debt : debtStatus[d] \in states /\ debtor[d] \in Client \cup {Nobody}
  BY DEF DebtInv, DebtTypes
<1>2. ASSUME NEW c \in Client
      PROVE  LET shown == DebtSummary(DebtsShown({c}, states))
             IN  /\ shown.active = debtUzs[c] /\ HistoryBalance(c) = debtUzs[c]
                 /\ shown.total = shown.active + shown.repaid
  <2> DEFINE D == OwnDebts(debtor, c)
  <2>1. DebtsShown({c}, states) = D /\ D \subseteq Debt
    BY <1>1 DEF DebtsShown, OwnDebts
  <2>2. debtUzs[c] = SumOver(remaining, D)
    BY AddUpParts DEF DebtInv, TotalsAddUp
  <2>3. /\ SumOver(remaining, D) \in Nat /\ SumOver(repaid, D) \in Nat
        /\ SumOver(amount, D) = SumOver(remaining, D) + SumOver(repaid, D)
        /\ SumOver(remaining, D) = SumOver(remaining, D \ In(D, "paid"))
    <3> HIDE DEF D
    <3> QED BY <2>1, SetOfDebts
  <2>4. HistoryBalance(c) = debtUzs[c]
    <3> DEFINE back == [d \in Debt |-> repaidPlain[d] + SumOver(KeyAmount, repaidKeys[d])]
    <3>1. HistoryBalance(c) = SumOver(amount, D) - SumOver(back, D)
      BY DEF HistoryBalance, OwnDebts
    <3>2. \A d \in D : back[d] = repaid[d]
      BY <2>1, AddUpParts DEF DebtInv, RepaymentsAddUp
    <3> HIDE DEF back, D
    <3>3. SumOver(back, D) = SumOver(repaid, D)
      BY <3>2, SumCongruence
    <3> QED BY <2>2, <2>3, <3>1, <3>3
  <2>5. /\ DebtSummary(D).active = SumOver(remaining, D \ In(D, "paid"))
        /\ DebtSummary(D).total = SumOver(amount, D) /\ DebtSummary(D).repaid = SumOver(repaid, D)
    BY DEF DebtSummary
  <2> HIDE DEF D, In, states
  <2> QED BY <2>1, <2>2, <2>3, <2>4, <2>5
<1>3. E = {d \in Debt : debtor[d] \in Client} /\ E \subseteq Debt /\ IsFiniteSet(E)
  <2>1. E = {d \in Debt : debtor[d] \in Client}
    BY <1>1 DEF DebtsShown
  <2> HIDE DEF E
  <2> QED BY <2>1, DebtFinite
<1>4. /\ DebtSummary(E).active = SumOver(remaining, E \ In(E, "paid"))
      /\ DebtSummary(E).all = Cardinality(E)
      /\ DebtSummary(E).unpaid = Cardinality(In(E, "unpaid"))
      /\ DebtSummary(E).partial = Cardinality(In(E, "partial"))
      /\ DebtSummary(E).paid = Cardinality(In(E, "paid"))
  BY DEF DebtSummary
<1>5. DebtSummary(E).active = SumOver(remaining, E)
  <2> HIDE DEF E
  <2> QED BY <1>3, <1>4, SetOfDebts
<1>6. DebtSummary(E).active = SumOver(debtUzs, Client)
  <2> DEFINE G == [c \in Client |-> OwnDebts(debtor, c)]
  <2>1. \A c \in Client : G[c] = {d \in Debt : debtor[d] = c}
    BY DEF OwnDebts
  <2>2. \A c \in Client : debtUzs[c] = SumOver(remaining, G[c])
    BY AddUpParts DEF DebtInv, TotalsAddUp
  <2>3. IsFiniteSet(Client) /\ IsFiniteSet(Debt) /\ \A d \in Debt : remaining[d] \in Nat
    BY DebtFinite, AccountsAssumption DEF DebtInv, DebtTypes
  <2>4. E = {d \in Debt : debtor[d] \in Client}
    BY <1>3
  <2> HIDE DEF E, G
  <2>5. SumOver(debtUzs, Client) = SumOver(remaining, E)
    BY <2>1, <2>2, <2>3, <2>4, SumOfSums
  <2> QED BY <1>5, <2>5
<1>7. DebtSummary(E).all = DebtSummary(E).unpaid + DebtSummary(E).partial + DebtSummary(E).paid
  <2> DEFINE A == In(E, "unpaid")
             B == In(E, "partial")
             F == In(E, "paid")
  <2>1. E = (A \cup B) \cup F /\ A \cap B = {} /\ (A \cup B) \cap F = {}
    <3> HIDE DEF E
    <3> QED BY <1>1, <1>3
  <2>2. IsFiniteSet(A) /\ IsFiniteSet(B) /\ IsFiniteSet(F)
    <3>1. A \subseteq E /\ B \subseteq E /\ F \subseteq E
      OBVIOUS
    <3> HIDE DEF A, B, F, E
    <3> QED BY <1>3, <3>1, FS_Subset
  <2> HIDE DEF A, B, F, E
  <2>3. IsFiniteSet(A \cup B) /\ Cardinality(A \cup B) = Cardinality(A) + Cardinality(B) - 0
    <3>1. Cardinality(A \cap B) = 0
      BY <2>1, FS_EmptySet
    <3> QED BY <2>2, <3>1, FS_Union
  <2>4. Cardinality((A \cup B) \cup F) = Cardinality(A \cup B) + Cardinality(F) - 0
    <3>1. Cardinality((A \cup B) \cap F) = 0
      BY <2>1, FS_EmptySet
    <3> QED BY <2>2, <2>3, <3>1, FS_Union
  <2>5. Cardinality(A) \in Nat /\ Cardinality(B) \in Nat /\ Cardinality(F) \in Nat
    BY <2>2, FS_CardinalityType
  <2>6. Cardinality(E) = Cardinality(A) + Cardinality(B) + Cardinality(F)
    BY <2>1, <2>3, <2>4, <2>5
  <2> QED BY <1>4, <2>6 DEF A, B, F
<1>8. DebtSummary(E).active = DebtSummary(DebtsShown(Client, states \ {"paid"})).total
                                 - DebtSummary(DebtsShown(Client, {"partial"})).repaid
  <2> DEFINE P == DebtsShown(Client, states \ {"paid"})
             Q == DebtsShown(Client, {"partial"})
  <2>1. P \subseteq Debt /\ P = E \ In(E, "paid") /\ Q = P \ In(P, "unpaid")
    <3>1. states \ {"paid"} = {"unpaid", "partial"}
      OBVIOUS
    <3> QED BY <1>1, <3>1 DEF DebtsShown
  <2>2. DebtSummary(P).total = SumOver(amount, P) /\ DebtSummary(Q).repaid = SumOver(repaid, Q)
    BY DEF DebtSummary
  <2> HIDE DEF P, Q, E
  <2>3. /\ SumOver(remaining, P) \in Nat /\ SumOver(repaid, P) \in Nat
        /\ SumOver(amount, P) = SumOver(remaining, P) + SumOver(repaid, P)
        /\ SumOver(repaid, P) = SumOver(repaid, P \ In(P, "unpaid"))
    BY <2>1, SetOfDebts
  <2> HIDE DEF In
  <2>4. DebtSummary(E).active = DebtSummary(P).total - DebtSummary(Q).repaid
    BY <1>4, <2>1, <2>2, <2>3
  <2> QED BY <2>4 DEF P, Q
<1> QED BY <1>2, <1>6, <1>7, <1>8 DEF DebtPagesAgree

-----------------------------------------------------------------------------
\* Every number of the accounts stays one: no rest of a debt, no sum of debts and
\* no balance goes below zero.
THEOREM AccountTypes == Spec => []TypeOK
<1>1. AccountInv => TypeOK
  BY DEF AccountInv
<1> QED BY <1>1, AccountStart, AccountStep, PTL DEF Spec

\* What a client owes is the same on every page and adds up, whichever of the
\* handlers of repayments, returns and cancels wrote last: refreshClientDebtTotal
\* sums the debts of one client, and they are all the handler has touched.
THEOREM AccountsAgree == Spec => []DebtTotalsAgree
<1>1. AccountInv => DebtTotalsAgree
  <2>1. AccountInv => DebtInv /\ DebtsAddUp
    BY InvParts DEF DebtInv
  <2> QED BY <2>1, PagesAgree DEF DebtTotalsAgree
<1> QED BY <1>1, AccountStart, AccountStep, PTL DEF Spec

\* The credit of a return is given back when the return is cancelled, to the debts
\* of the sale it came from, however often the sale is returned to.
THEOREM CreditsGoRound == Spec => []CreditsRoundTrip
<1>1. AccountInv => CreditsRoundTrip
  BY DEF AccountInv
<1> QED BY <1>1, AccountStart, AccountStep, PTL DEF Spec

\* Returns take back no more cashback than a sale gave and refund no more bonuses
\* than it took, and a client's balance covers what the live documents moved on it.
THEOREM LoyaltyCovered == Spec => []LoyaltyBacked
<1>1. AccountInv => LoyaltyBacked
  BY DEF AccountInv
<1> QED BY <1>1, AccountStart, AccountStep, PTL DEF Spec

-----------------------------------------------------------------------------
(* The sessions of a user.                                                 *)

\* Rows are blank until they are opened.
BlankUntilOpened == \A s \in Session : ~session[s].there => session[s] = NoRow

\* A refresh has the session it was asked with.
RefreshesHaveSessions ==
    \A c \in Caller : caller[c].step \in {"read", "renewing"} => caller[c].of \in Session

\* One change at a time, within its bound, and of sessions that were opened.
OneChange ==
    /\ \A c, d \in Caller :
          caller[c].step = "revoking" /\ caller[d].step = "revoking" => c = d
    /\ \A c \in Caller : caller[c].step = "revoking" =>
          /\ password < MaxPassword
          /\ \A s \in Session : s \in caller[c].rows \/ s = caller[c].of => session[s].there

\* Nothing overlapped: logins in flight have read today's password, and a change
\* in flight is alone and sees every usable session but the one it keeps.
NothingMissed ==
    ~overlapped =>
        /\ \A c \in Caller : caller[c].step \in {"comparing", "prepared"} =>
              caller[c].seen = password
        /\ \A c \in Caller : caller[c].step = "revoking" =>
              /\ \A d \in Caller : ~Busy(d)
              /\ \A s \in Session : Usable(s) => s \in caller[c].rows \/ s = caller[c].of

SessionInv ==
    /\ SessionTypeOK /\ BlankUntilOpened /\ RefreshesHaveSessions /\ OneChange
    /\ OneHeir /\ OldSessionsEndUnlessOverlapped /\ NothingMissed

-----------------------------------------------------------------------------
LEMMA RowTypes ==
    /\ NoRow \in SessionRows /\ Waiting \in Callers
    /\ \A by \in 0 .. MaxPassword, parent \in Session \cup {NoSession} :
          /\ Opened(by, parent) \in SessionRows
          /\ Opened(by, parent).there /\ ~Opened(by, parent).revoked
          /\ ~Opened(by, parent).expired
          /\ Opened(by, parent).opened = by /\ Opened(by, parent).parent = parent
<1>1. 0 \in 0 .. MaxPassword
  BY SessionAssumption
<1>2. NoRow \in SessionRows
  BY <1>1 DEF NoRow, SessionRows
<1>3. Waiting \in Callers
  BY <1>1 DEF Waiting, Callers
<1> QED BY <1>2, <1>3 DEF Opened, NoRow, SessionRows

LEMMA SessionsBegin == SessionInit => SessionInv
<1> SUFFICES ASSUME SessionInit PROVE SessionInv
  OBVIOUS
<1>1. \A s \in Session : /\ session[s] = NoRow /\ ~session[s].there
                        /\ session[s].parent = NoSession
  BY DEF SessionInit, NoRow
<1>2. \A c \in Caller : caller[c] = Waiting
  BY DEF SessionInit
<1>3. SessionTypeOK
  <2>1. session \in [Session -> SessionRows]
    BY RowTypes DEF SessionInit
  <2>2. caller \in [Caller -> Callers]
    BY RowTypes DEF SessionInit
  <2>3. password \in 0 .. MaxPassword
    BY SessionAssumption DEF SessionInit
  <2> QED BY <2>1, <2>2, <2>3 DEF SessionInit, SessionTypeOK
<1>4. BlankUntilOpened /\ OneHeir /\ OldSessionsEndUnlessOverlapped
  BY <1>1 DEF BlankUntilOpened, OneHeir, OldSessionsEndUnlessOverlapped, Usable
<1>5. RefreshesHaveSessions /\ OneChange /\ NothingMissed
  BY <1>2 DEF RefreshesHaveSessions, OneChange, NothingMissed, Waiting
<1> QED BY <1>3, <1>4, <1>5 DEF SessionInv

-----------------------------------------------------------------------------
(* Steps of a request that write nothing.                                  *)

\* A request that opens nothing: it goes on, or is answered.
LEMMA RequestGoesOn ==
    ASSUME SessionInv, NEW c \in Caller, NEW next \in Callers,
           SetCaller(c, next), UNCHANGED <<session, password>>, able' \in BOOLEAN,
           next.step # "revoking",
           next.step \in {"read", "renewing"} => next.of \in Session,
           overlapped' = (overlapped \/ Changing)
             \/ (overlapped' = overlapped /\ (Busy(c) \/ next.step = "idle")),
           ~overlapped' /\ next.step \in {"comparing", "prepared"} => next.seen = password
    PROVE  SessionInv'
<1>1. /\ caller \in [Caller -> Callers] /\ caller' = [caller EXCEPT ![c] = next]
      /\ overlapped \in BOOLEAN
  BY DEF SessionInv, SessionTypeOK, SetCaller
<1>2. \A d \in Caller : caller'[d] = IF d = c THEN next ELSE caller[d]
  BY <1>1
<1>3. SessionTypeOK'
  BY <1>1 DEF SessionInv, SessionTypeOK, Changing
<1>4. BlankUntilOpened' /\ OneHeir'
  BY DEF SessionInv, BlankUntilOpened, OneHeir
<1>5. RefreshesHaveSessions' /\ OneChange'
  BY <1>2 DEF SessionInv, RefreshesHaveSessions, OneChange
<1>6. overlapped => overlapped'
  BY <1>1, <1>3 DEF SessionTypeOK
<1>7. OldSessionsEndUnlessOverlapped'
  BY <1>6 DEF SessionInv, OldSessionsEndUnlessOverlapped, Usable
<1>8. ASSUME ~overlapped', NEW d \in Caller, caller'[d].step = "revoking",
             NEW e \in Caller
      PROVE  ~Busy(e)'
  <2>1. d # c /\ caller[d].step = "revoking" /\ Changing
    BY <1>2, <1>8 DEF Changing
  <2>2. ~overlapped /\ overlapped' = overlapped /\ (Busy(c) \/ next.step = "idle")
    BY <1>6, <1>8, <2>1
  <2>3. \A f \in Caller : ~Busy(f)
    BY <2>1, <2>2 DEF SessionInv, NothingMissed
  <2> QED BY <1>2, <2>2, <2>3 DEF Busy
<1>9. NothingMissed'
  BY <1>2, <1>6, <1>8 DEF SessionInv, NothingMissed, Usable
<1> QED BY <1>3, <1>4, <1>5, <1>7, <1>9 DEF SessionInv

LEMMA AskingKept ==
    ASSUME SessionInv, NEW c \in Caller,
           \/ AskLogin(c) \/ PrepareLogin(c) \/ PrepareRefresh(c)
           \/ \E s \in Session : AskRefresh(c, s)
    PROVE  SessionInv'
<1>1. /\ caller \in [Caller -> Callers] /\ password \in 0 .. MaxPassword
      /\ able \in BOOLEAN /\ RefreshesHaveSessions /\ NothingMissed
  BY DEF SessionInv, SessionTypeOK
<1>2. CASE AskLogin(c)
  <2> DEFINE next == [Waiting EXCEPT !.step = "comparing", !.seen = password]
  <2>1. next \in Callers /\ next.step = "comparing" /\ next.seen = password
    BY <1>1, RowTypes DEF Waiting, Callers
  <2>2. SetCaller(c, next) /\ UNCHANGED <<session, password, able>>
        /\ overlapped' = (overlapped \/ Changing)
    BY <1>2 DEF AskLogin
  <2> HIDE DEF next
  <2> QED BY <1>1, <2>1, <2>2, RequestGoesOn
<1>3. ASSUME NEW s \in Session, AskRefresh(c, s) PROVE SessionInv'
  <2> DEFINE next == [Waiting EXCEPT !.step = "read", !.of = s]
  <2>1. next \in Callers /\ next.step = "read" /\ next.of = s
    BY RowTypes DEF Waiting, Callers
  <2>2. SetCaller(c, next) /\ UNCHANGED <<session, password, able>>
        /\ overlapped' = (overlapped \/ Changing)
    BY <1>3 DEF AskRefresh
  <2> HIDE DEF next
  <2> QED BY <1>1, <2>1, <2>2, RequestGoesOn
<1>4. CASE PrepareLogin(c)
  <2> DEFINE next == IF able THEN [caller[c] EXCEPT !.step = "prepared"] ELSE Waiting
  <2>1. /\ next \in Callers /\ next.step \in {"prepared", "idle"} /\ Busy(c)
        /\ next.step = "prepared" => next.seen = caller[c].seen
    BY <1>1, <1>4, RowTypes DEF Waiting, Callers, PrepareLogin, Busy
  <2>2. ~overlapped => caller[c].seen = password
    BY <1>1, <1>4 DEF NothingMissed, PrepareLogin
  <2>3. SetCaller(c, next) /\ UNCHANGED <<session, password, able, overlapped>>
    BY <1>4 DEF PrepareLogin, Answer
  <2> HIDE DEF next
  <2> QED BY <1>1, <2>1, <2>2, <2>3, RequestGoesOn
<1>5. CASE PrepareRefresh(c)
  <2> DEFINE next == IF able THEN [caller[c] EXCEPT !.step = "renewing"] ELSE Waiting
  <2>1. /\ next \in Callers /\ next.step \in {"renewing", "idle"} /\ Busy(c)
        /\ next.step = "renewing" => next.of = caller[c].of
    BY <1>1, <1>5, RowTypes DEF Waiting, Callers, PrepareRefresh, Busy
  <2>2. caller[c].of \in Session
    BY <1>1, <1>5 DEF RefreshesHaveSessions, PrepareRefresh
  <2>3. SetCaller(c, next) /\ UNCHANGED <<session, password, able, overlapped>>
    BY <1>5 DEF PrepareRefresh, Answer
  <2> HIDE DEF next
  <2> QED BY <1>1, <2>1, <2>2, <2>3, RequestGoesOn
<1> QED BY <1>2, <1>3, <1>4, <1>5

-----------------------------------------------------------------------------
(* Steps that write a session.                                             *)

\* A row is written by a request that ends: the request is answered, blank rows
\* stay blank, and no other request is touched.
LEMMA OpeningKept ==
    ASSUME SessionInv, NEW c \in Caller, Busy(c), Answer(c),
           UNCHANGED <<password, able, overlapped>>,
           session' \in [Session -> SessionRows],
           BlankUntilOpened', OneHeir',
           \A s \in Session : session[s].there => session'[s].there,
           \A s \in Session : Usable(s)' /\ ~overlapped => session'[s].opened = password
    PROVE  SessionInv'
<1>1. \A d \in Caller : caller'[d] = IF d = c THEN Waiting ELSE caller[d]
  BY DEF SessionInv, SessionTypeOK, Answer, SetCaller
<1>2. SessionTypeOK'
  BY RowTypes DEF SessionInv, SessionTypeOK, Answer, SetCaller
<1>3. RefreshesHaveSessions' /\ OneChange'
  BY <1>1 DEF SessionInv, RefreshesHaveSessions, OneChange, Waiting
<1>4. OldSessionsEndUnlessOverlapped'
  BY DEF OldSessionsEndUnlessOverlapped
<1>5. ASSUME ~overlapped, NEW d \in Caller, caller'[d].step = "revoking" PROVE FALSE
  <2>1. caller[d].step = "revoking"
    BY <1>1, <1>5 DEF Waiting
  <2> QED BY <1>5, <2>1 DEF SessionInv, NothingMissed
<1>6. NothingMissed'
  BY <1>1, <1>5 DEF SessionInv, NothingMissed, Waiting
<1> QED BY <1>2, <1>3, <1>4, <1>6 DEF SessionInv

LEMMA LoginKept == ASSUME SessionInv, NEW c \in Caller, Login(c) PROVE SessionInv'
<1>1. /\ session \in [Session -> SessionRows] /\ caller \in [Caller -> Callers]
      /\ BlankUntilOpened /\ OneHeir /\ OldSessionsEndUnlessOverlapped /\ NothingMissed
  BY DEF SessionInv, SessionTypeOK
<1> DEFINE row == Opened(caller[c].seen, NoSession)
<1>2. PICK new \in Session :
        ~session[new].there /\ session' = [session EXCEPT ![new] = row]
  BY DEF Login, Fresh
<1>3. /\ row \in SessionRows /\ row.there /\ row.opened = caller[c].seen
      /\ row.parent = NoSession
  BY <1>1, RowTypes DEF Callers
<1>4. ~overlapped => row.opened = password
  BY <1>1, <1>3 DEF Login, NothingMissed
<1> HIDE DEF row
<1>5. \A s \in Session : session'[s] = IF s = new THEN row ELSE session[s]
  BY <1>1, <1>2
<1>6. session' \in [Session -> SessionRows]
  BY <1>1, <1>2, <1>3
<1>7. BlankUntilOpened'
  BY <1>1, <1>3, <1>5 DEF BlankUntilOpened
<1>8. OneHeir'
  <2>1. \A s \in Session : session[s].parent \in Session \cup {NoSession}
    BY <1>1 DEF SessionRows
  <2>2. ~session[new].revoked
    BY <1>1, <1>2 DEF BlankUntilOpened, NoRow
  <2> QED BY <1>1, <1>3, <1>5, <2>1, <2>2 DEF OneHeir
<1>9. \A s \in Session :
        /\ session[s].there => session'[s].there
        /\ Usable(s)' /\ ~overlapped => session'[s].opened = password
  BY <1>1, <1>3, <1>4, <1>5 DEF Usable, OldSessionsEndUnlessOverlapped
<1>10. Busy(c) /\ Answer(c) /\ UNCHANGED <<password, able, overlapped>>
  BY DEF Login, Busy
<1> QED BY <1>6, <1>7, <1>8, <1>9, <1>10, OpeningKept

LEMMA RefreshKept == ASSUME SessionInv, NEW c \in Caller, Refresh(c) PROVE SessionInv'
<1>1. /\ session \in [Session -> SessionRows] /\ caller \in [Caller -> Callers]
      /\ BlankUntilOpened /\ OneHeir /\ OldSessionsEndUnlessOverlapped /\ NothingMissed
  BY DEF SessionInv, SessionTypeOK
<1>2. Busy(c) /\ Answer(c) /\ UNCHANGED <<password, able, overlapped>>
  BY DEF Refresh, Busy
<1> DEFINE old == caller[c].of
<1>3. old \in Session
  BY DEF SessionInv, RefreshesHaveSessions, Refresh
<1>4. CASE ~Consumable(old)
  <2>1. UNCHANGED session
    BY <1>4 DEF Refresh
  <2> QED BY <1>1, <1>2, <2>1, OpeningKept
          DEF BlankUntilOpened, OneHeir, OldSessionsEndUnlessOverlapped, Usable
<1>5. CASE Consumable(old)
  <2> DEFINE row == Opened(session[old].opened, old)
  <2>1. PICK new \in Session :
          ~session[new].there
          /\ session' = [session EXCEPT ![old].revoked = TRUE, ![new] = row]
    BY <1>5 DEF Refresh, Fresh
  <2>2. session[old].there /\ ~session[old].revoked /\ old # new
    BY <1>5, <2>1 DEF Consumable, Usable
  <2>3. /\ row \in SessionRows /\ row.there /\ row.opened = session[old].opened
        /\ row.parent = old
    <3>1. session[old].opened \in 0 .. MaxPassword
      BY <1>1, <1>3 DEF SessionRows
    <3> QED BY <1>3, <3>1, RowTypes
  <2>4. ~overlapped => row.opened = password
    BY <1>1, <1>3, <1>5, <2>3 DEF Consumable, OldSessionsEndUnlessOverlapped
  <2>5. \A s \in Session : session[s].parent # old
    BY <1>1, <1>3, <2>2, SessionAssumption DEF OneHeir
  <2> HIDE DEF row, old
  <2>6. \A s \in Session : session'[s] =
          IF s = new THEN row
          ELSE IF s = old THEN [session[s] EXCEPT !.revoked = TRUE] ELSE session[s]
    BY <1>1, <2>1, <2>2
  <2>7. /\ session[old] \in SessionRows
        /\ [session[old] EXCEPT !.revoked = TRUE] \in SessionRows
        /\ [session[old] EXCEPT !.revoked = TRUE].revoked
        /\ [session[old] EXCEPT !.revoked = TRUE].there = session[old].there
        /\ [session[old] EXCEPT !.revoked = TRUE].parent = session[old].parent
    BY <1>1, <1>3 DEF SessionRows
  <2>8. session' \in [Session -> SessionRows]
    BY <1>1, <1>3, <2>1, <2>3, <2>6, <2>7
  <2>9. BlankUntilOpened'
    BY <1>1, <2>2, <2>3, <2>6, <2>7 DEF BlankUntilOpened
  <2>10. \A s \in Session : session[s].parent \in Session \cup {NoSession}
    BY <1>1 DEF SessionRows
  <2>11. ~session[new].revoked
    BY <1>1, <2>1 DEF BlankUntilOpened, NoRow
  <2>12. OneHeir'
    <3>1. \A s \in Session :
            /\ session'[s].parent = IF s = new THEN old ELSE session[s].parent
            /\ session'[s].there => s = new \/ session[s].there
            /\ s # new /\ session[s].revoked => session'[s].revoked
      <4> TAKE s \in Session
      <4>1. CASE s = new
        BY <2>3, <2>6, <4>1
      <4>2. CASE s # new /\ s = old
        BY <1>3, <2>6, <2>7, <4>2
      <4>3. CASE s # new /\ s # old
        BY <2>6, <4>3
      <4> QED BY <4>1, <4>2, <4>3
    <3>2. session'[old].revoked
      BY <1>3, <2>2, <2>6, <2>7
    <3>3. \A s \in Session : session'[s].parent # NoSession
                               => session'[session'[s].parent].revoked
      BY <1>1, <1>3, <2>10, <2>11, <3>1, <3>2 DEF OneHeir
    <3>4. ASSUME NEW s \in Session, NEW t \in Session, session'[s].there,
                 session'[t].there, session'[s].parent = session'[t].parent
          PROVE  s = t \/ session'[s].parent = NoSession
      BY <1>1, <2>5, <3>1, <3>4 DEF OneHeir
    <3> QED BY <3>3, <3>4 DEF OneHeir
  <2>13. \A s \in Session :
           /\ session[s].there => session'[s].there
           /\ Usable(s)' /\ ~overlapped => session'[s].opened = password
    <3> TAKE s \in Session
    <3>1. CASE s = new
      BY <2>3, <2>4, <2>6, <3>1
    <3>2. CASE s # new /\ s = old
      BY <1>3, <2>6, <2>7, <3>2 DEF Usable
    <3>3. CASE s # new /\ s # old
      BY <1>1, <2>6, <3>3 DEF Usable, OldSessionsEndUnlessOverlapped
    <3> QED BY <3>1, <3>2, <3>3
  <2> QED BY <1>2, <2>8, <2>9, <2>12, <2>13, OpeningKept
<1> QED BY <1>4, <1>5

\* A row of which only the marks are written, and no request.
LEMMA MarkingKept ==
    ASSUME SessionInv, NEW s \in Session, session[s].there, NEW row \in SessionRows,
           row.there, row.parent = session[s].parent, row.opened = session[s].opened,
           session[s].revoked => row.revoked, session[s].expired => row.expired,
           session' = [session EXCEPT ![s] = row],
           UNCHANGED <<password, able, caller, overlapped>>
    PROVE  SessionInv'
<1>1. session \in [Session -> SessionRows]
  BY DEF SessionInv, SessionTypeOK
<1>2. \A t \in Session : session'[t] = IF t = s THEN row ELSE session[t]
  BY <1>1
<1>3. \A t \in Session : Usable(t)' => Usable(t) /\ session'[t].opened = session[t].opened
  BY <1>2 DEF Usable
<1>4. SessionTypeOK'
  BY <1>1 DEF SessionInv, SessionTypeOK
<1>5. BlankUntilOpened' /\ RefreshesHaveSessions' /\ OneChange'
  BY <1>2 DEF SessionInv, BlankUntilOpened, RefreshesHaveSessions, OneChange
<1>6. OneHeir'
  <2>1. \A t \in Session : session[t].parent \in Session \cup {NoSession}
    BY <1>1 DEF SessionRows
  <2>2. \A t \in Session : /\ session'[t].parent = session[t].parent
                           /\ session'[t].there => session[t].there
                           /\ session[t].revoked => session'[t].revoked
    BY <1>2
  <2> QED BY <2>1, <2>2 DEF SessionInv, OneHeir
<1>7. OldSessionsEndUnlessOverlapped'
  BY <1>3 DEF SessionInv, OldSessionsEndUnlessOverlapped
<1>8. NothingMissed'
  BY <1>3 DEF SessionInv, NothingMissed, Busy
<1> QED BY <1>4, <1>5, <1>6, <1>7, <1>8 DEF SessionInv

LEMMA MarksKept ==
    ASSUME SessionInv, NEW s \in Session, Logout(s) \/ Expire(s)
    PROVE  SessionInv'
<1>1. session[s] \in SessionRows
  BY DEF SessionInv, SessionTypeOK
<1>2. CASE Logout(s)
  <2> DEFINE row == [session[s] EXCEPT !.revoked = TRUE]
  <2>1. /\ row \in SessionRows /\ row.there = session[s].there /\ row.revoked
        /\ row.parent = session[s].parent /\ row.opened = session[s].opened
        /\ row.expired = session[s].expired
    BY <1>1 DEF SessionRows
  <2>2. session' = [session EXCEPT ![s] = row] /\ session[s].there
        /\ UNCHANGED <<password, able, caller, overlapped>>
    BY <1>2 DEF Logout
  <2> HIDE DEF row
  <2> QED BY <2>1, <2>2, MarkingKept
<1>3. CASE Expire(s)
  <2> DEFINE row == [session[s] EXCEPT !.expired = TRUE]
  <2>1. /\ row \in SessionRows /\ row.there = session[s].there /\ row.expired
        /\ row.parent = session[s].parent /\ row.opened = session[s].opened
        /\ row.revoked = session[s].revoked
    BY <1>1 DEF SessionRows
  <2>2. session' = [session EXCEPT ![s] = row] /\ session[s].there
        /\ UNCHANGED <<password, able, caller, overlapped>>
    BY <1>3 DEF Expire
  <2> HIDE DEF row
  <2> QED BY <2>1, <2>2, MarkingKept
<1> QED BY <1>2, <1>3

-----------------------------------------------------------------------------
(* The change of the password.                                             *)

\* It begins alone and sees every usable session but the one it keeps.
LEMMA ChangeKept ==
    ASSUME SessionInv, NEW c \in Caller, NEW keep \in Session \cup {NoSession},
           ChangePassword(c, keep)
    PROVE  SessionInv'
<1> DEFINE next == [Waiting EXCEPT !.step = "revoking", !.of = keep,
                                   !.rows = ToRevoke(keep)]
<1>1. /\ next \in Callers /\ next.step = "revoking" /\ next.of = keep
      /\ next.rows = ToRevoke(keep)
  <2>1. ToRevoke(keep) \subseteq Session
    BY DEF ToRevoke
  <2> QED BY <2>1, RowTypes DEF Waiting, Callers
<1>2. /\ caller' = [caller EXCEPT ![c] = next] /\ UNCHANGED <<session, password, able>>
      /\ caller[c].step = "idle" /\ ~Changing /\ password < MaxPassword
      /\ overlapped' = (overlapped \/ \E d \in Caller : Busy(d))
  BY DEF ChangePassword, SetCaller
<1> HIDE DEF next
<1>3. \A d \in Caller : caller'[d] = IF d = c THEN next ELSE caller[d]
  BY <1>2 DEF SessionInv, SessionTypeOK
<1>4. SessionTypeOK'
  BY <1>1, <1>2 DEF SessionInv, SessionTypeOK
<1>5. BlankUntilOpened' /\ OneHeir'
  BY <1>2 DEF SessionInv, BlankUntilOpened, OneHeir
<1>6. RefreshesHaveSessions' /\ OneChange'
  <2>1. \A s \in Session : s \in ToRevoke(keep) \/ s = keep => session[s].there
    BY SessionAssumption DEF ToRevoke, ChangePassword, Usable
  <2>2. \A d \in Caller : caller'[d].step = "revoking" => d = c
    BY <1>2, <1>3 DEF Changing
  <2>3. OneChange'
    BY <1>1, <1>2, <1>3, <2>1, <2>2 DEF OneChange
  <2>4. RefreshesHaveSessions'
    BY <1>1, <1>3 DEF SessionInv, RefreshesHaveSessions
  <2> QED BY <2>3, <2>4
<1>7. ~overlapped' => ~overlapped /\ \A d \in Caller : ~Busy(d)
  BY <1>2, <1>4 DEF SessionInv, SessionTypeOK
<1>8. OldSessionsEndUnlessOverlapped'
  BY <1>2, <1>7 DEF SessionInv, OldSessionsEndUnlessOverlapped, Usable
<1>9. NothingMissed'
  <2>1. ASSUME ~overlapped', NEW d \in Caller, caller'[d].step = "revoking"
        PROVE  /\ \A e \in Caller : ~Busy(e)'
               /\ \A s \in Session : Usable(s)' => s \in caller'[d].rows \/ s = caller'[d].of
    <3>1. d = c
      BY <1>2, <1>3, <2>1 DEF Changing
    <3>2. \A e \in Caller : ~Busy(e)'
      BY <1>1, <1>3, <1>7, <2>1 DEF Busy
    <3>3. \A s \in Session : Usable(s)' => s \in ToRevoke(keep) \/ s = keep
      BY <1>2 DEF Usable, ToRevoke
    <3> QED BY <1>1, <1>3, <3>1, <3>2, <3>3
  <2>2. ASSUME ~overlapped', NEW d \in Caller,
               caller'[d].step \in {"comparing", "prepared"}
        PROVE  caller'[d].seen = password'
    BY <1>1, <1>2, <1>3, <1>7, <2>2 DEF SessionInv, NothingMissed
  <2> QED BY <2>1, <2>2 DEF NothingMissed
<1> QED BY <1>4, <1>5, <1>6, <1>8, <1>9 DEF SessionInv

\* It commits: what it saw is revoked, what it kept has the new password, and
\* nothing else was usable unless something overlapped.
LEMMA CommitKept == ASSUME SessionInv, NEW c \in Caller, CommitPassword(c) PROVE SessionInv'
<1>1. /\ session \in [Session -> SessionRows] /\ caller \in [Caller -> Callers]
      /\ password \in 0 .. MaxPassword /\ overlapped \in BOOLEAN /\ able \in BOOLEAN
      /\ caller[c].step = "revoking" /\ password' = password + 1 /\ able' = able
      /\ overlapped' = (overlapped \/ \E d \in Caller : Busy(d))
      /\ caller' = [caller EXCEPT ![c] = Waiting]
  BY DEF SessionInv, SessionTypeOK, CommitPassword, Answer, SetCaller
<1>2. password' \in 0 .. MaxPassword
  <2>1. password < MaxPassword
    BY <1>1 DEF SessionInv, OneChange
  <2> QED BY <1>1, <2>1, SessionAssumption
<1>3. \A d \in Caller : caller'[d] = IF d = c THEN Waiting ELSE caller[d]
  BY <1>1
<1>4. \A s \in Session : session'[s] =
        IF s \in caller[c].rows THEN [session[s] EXCEPT !.revoked = TRUE]
        ELSE IF s = caller[c].of THEN [session[s] EXCEPT !.opened = password']
        ELSE session[s]
  BY DEF CommitPassword
<1>5. ASSUME NEW s \in Session
      PROVE  /\ session'[s] \in SessionRows
             /\ session'[s].there = session[s].there
             /\ session'[s].parent = session[s].parent
             /\ session[s].revoked => session'[s].revoked
             /\ Usable(s)' => Usable(s) /\ s \notin caller[c].rows
             /\ s \notin caller[c].rows /\ s = caller[c].of => session'[s].opened = password'
  <2>1. session[s] \in SessionRows
    BY <1>1
  <2>2. CASE s \in caller[c].rows
    <3>1. session'[s] = [session[s] EXCEPT !.revoked = TRUE]
      BY <1>4, <2>2
    <3> QED BY <2>1, <2>2, <3>1 DEF SessionRows, Usable
  <2>3. CASE s \notin caller[c].rows /\ s = caller[c].of
    <3>1. session'[s] = [session[s] EXCEPT !.opened = password']
      BY <1>4, <2>3
    <3> QED BY <1>2, <2>1, <2>3, <3>1 DEF SessionRows, Usable
  <2>4. CASE s \notin caller[c].rows /\ s # caller[c].of
    BY <1>4, <2>1, <2>4 DEF Usable
  <2> QED BY <2>2, <2>3, <2>4
<1>6. SessionTypeOK'
  <2>1. session' \in [Session -> SessionRows]
    BY <1>5 DEF CommitPassword
  <2>2. caller' \in [Caller -> Callers]
    BY <1>1, RowTypes
  <2> QED BY <1>1, <1>2, <2>1, <2>2 DEF SessionTypeOK
<1>7. \A d \in Caller : caller'[d].step # "revoking"
  BY <1>1, <1>3 DEF SessionInv, OneChange, Waiting
<1>8. ~overlapped' => ~overlapped /\ \A d \in Caller : ~Busy(d)
  BY <1>1
<1>9. BlankUntilOpened'
  <2> SUFFICES ASSUME NEW s \in Session, ~session'[s].there PROVE session'[s] = NoRow
    BY DEF BlankUntilOpened
  <2>1. ~session[s].there /\ session[s] = NoRow
    BY <1>5 DEF SessionInv, BlankUntilOpened
  <2>2. s \notin caller[c].rows /\ s # caller[c].of
    BY <1>1, <2>1 DEF SessionInv, OneChange
  <2> QED BY <1>4, <2>1, <2>2
<1>10. OneHeir'
  <2>1. \A s \in Session : session[s].parent \in Session \cup {NoSession}
    BY <1>1 DEF SessionRows
  <2> QED BY <1>5, <2>1 DEF SessionInv, OneHeir
<1>11. OldSessionsEndUnlessOverlapped'
  <2> SUFFICES ASSUME ~overlapped', NEW s \in Session, Usable(s)'
               PROVE  session'[s].opened = password'
    BY DEF OldSessionsEndUnlessOverlapped
  <2>1. s \in caller[c].rows \/ s = caller[c].of
    BY <1>1, <1>5, <1>8 DEF SessionInv, NothingMissed
  <2> QED BY <1>5, <2>1
<1>12. RefreshesHaveSessions' /\ OneChange'
  BY <1>3, <1>7 DEF SessionInv, RefreshesHaveSessions, OneChange, Waiting
<1>13. NothingMissed'
  <2>1. ASSUME ~overlapped', NEW d \in Caller
        PROVE  caller'[d].step \notin {"comparing", "prepared"}
    BY <1>3, <1>8, <2>1 DEF Busy, Waiting
  <2> QED BY <1>7, <2>1 DEF NothingMissed
<1> QED BY <1>6, <1>9, <1>10, <1>11, <1>12, <1>13 DEF SessionInv

-----------------------------------------------------------------------------
LEMMA SessionStep == SessionInv /\ [SessionNext]_sessionVars => SessionInv'
<1> SUFFICES ASSUME SessionInv, [SessionNext]_sessionVars PROVE SessionInv'
  OBVIOUS
<1>1. ASSUME NEW c \in Caller,
             \/ AskLogin(c) \/ PrepareLogin(c) \/ Login(c)
             \/ PrepareRefresh(c) \/ Refresh(c)
             \/ \E s \in Session : AskRefresh(c, s)
             \/ \E keep \in Session \cup {NoSession} : ChangePassword(c, keep)
             \/ CommitPassword(c)
      PROVE  SessionInv'
  BY <1>1, AskingKept, LoginKept, RefreshKept, ChangeKept, CommitKept
<1>2. ASSUME NEW s \in Session, Logout(s) \/ Expire(s) PROVE SessionInv'
  BY <1>2, MarksKept
<1>3. ASSUME UNCHANGED <<session, password, caller, overlapped>>, able' \in BOOLEAN
      PROVE  SessionInv'
  BY <1>3 DEF SessionInv, SessionTypeOK, BlankUntilOpened, RefreshesHaveSessions,
              OneChange, OneHeir, OldSessionsEndUnlessOverlapped, NothingMissed, Usable,
              Busy
<1>4. CASE SetAble
  BY <1>3, <1>4 DEF SetAble, SessionInv, SessionTypeOK
<1>5. CASE UNCHANGED sessionVars
  BY <1>3, <1>5 DEF sessionVars, SessionInv, SessionTypeOK
<1> QED BY <1>1, <1>2, <1>4, <1>5 DEF SessionNext

-----------------------------------------------------------------------------
(* The roles of a company.                                                 *)

\* Who is about to write the permissions of a role has deleted all there were, and
\* is alone, unless two requests for the role crossed.
SettersHold ==
    /\ \A r \in Role \ crossed : granted[r] = wanted[r]
    /\ \A m \in Manager :
          manager[m].step = "setting" /\ manager[m].of \notin crossed =>
              granted[manager[m].of] \subseteq manager[m].old
    /\ \A m, o \in Manager :
          /\ manager[m].step = "setting" /\ manager[o].step = "setting"
          /\ manager[m].of = manager[o].of
          => m = o \/ manager[m].of \in crossed

RoleInv == RoleTypeOK /\ SettersHold

RoleRow == [name : RoleName \cup {NoName}, admin : BOOLEAN, deletedAt : {0, RemovalStamp}]

LEMMA GrantTypes == ASSUME NEW slugs PROVE DefaultGrants(slugs) \in SUBSET Permission
<1>1. ASSUME NEW s \in {SlugOf[p] : p \in Permission} PROVE BySlug(s) \in Permission
  <2>1. \E p \in Permission : SlugOf[p] = s
    OBVIOUS
  <2> QED BY <2>1 DEF BySlug
<1> QED BY <1>1 DEF DefaultGrants

LEMMA OfflineTypes == Offline \in Managers /\ Offline.step = "idle"
<1>1. (CHOOSE r \in Role : TRUE) \in Role
  BY RoleAssumption DEF RoleAssumption
<1> QED BY <1>1 DEF Offline, Managers

LEMMA RolesBegin == RoleInit => RoleInv
<1> SUFFICES ASSUME RoleInit PROVE RoleInv
  OBVIOUS
<1>1. PICK f \in [DOMAIN Defaults -> Role] :
        LET Default(r) == {n \in DOMAIN Defaults : f[n] = r}
        IN  /\ role = [r \in Role |->
                  IF Default(r) = {} THEN NoRole
                  ELSE [NoRole EXCEPT !.name = CHOOSE n \in Default(r) : TRUE,
                                      !.admin = \E n \in Default(r) : Defaults[n].admin]]
            /\ granted = [r \in Role |->
                  UNION {DefaultGrants(Defaults[n].slugs) : n \in Default(r)}]
  BY DEF RoleInit
<1> DEFINE Default(r) == {n \in DOMAIN Defaults : f[n] = r}
<1>2. role \in [Role -> RoleRow]
  <2>1. ASSUME NEW r \in Role, Default(r) # {}
        PROVE  [NoRole EXCEPT !.name = CHOOSE n \in Default(r) : TRUE,
                              !.admin = \E n \in Default(r) : Defaults[n].admin] \in RoleRow
    <3> DEFINE a == \E n \in Default(r) : Defaults[n].admin
               x == CHOOSE n \in Default(r) : TRUE
    <3>1. a \in BOOLEAN
      OBVIOUS
    <3>2. x \in RoleName
      <4>1. x \in Default(r)
        BY <2>1
      <4> QED BY <4>1, RoleAssumption DEF RoleAssumption
    <3>3. \A y \in RoleName, b \in BOOLEAN : [NoRole EXCEPT !.name = y, !.admin = b] \in RoleRow
      BY DEF NoRole, RoleRow
    <3>4. [NoRole EXCEPT !.name = x, !.admin = a] \in RoleRow
      <4> HIDE DEF a, x
      <4> QED BY <3>1, <3>2, <3>3
    <3> QED BY <3>4
  <2>2. NoRole \in RoleRow
    BY DEF NoRole, RoleRow
  <2> HIDE DEF RoleRow, Default
  <2> QED BY <1>1, <2>1, <2>2 DEF Default
<1>3. granted \in [Role -> SUBSET Permission]
  <2>1. ASSUME NEW r \in Role
        PROVE  UNION {DefaultGrants(Defaults[n].slugs) : n \in Default(r)} \in SUBSET Permission
    BY GrantTypes
  <2> QED BY <1>1, <2>1
<1>4. wanted = granted /\ manager = [m \in Manager |-> Offline] /\ crossed = {} /\ removed = {}
  BY DEF RoleInit
<1>5. RoleTypeOK
  BY <1>2, <1>3, <1>4, OfflineTypes DEF RoleTypeOK, RoleRow
<1>6. SettersHold
  BY <1>3, <1>4, OfflineTypes DEF SettersHold
<1> QED BY <1>5, <1>6 DEF RoleInv

\* Writing the row of a role changes no permission; taking its permissions away
\* leaves nothing to delete.
LEMMA RowKeeps ==
    ASSUME RoleInv, NEW r \in Role,
           \/ \E n \in RoleName, admin \in BOOLEAN :
                 CreateRole(n, admin) \/ UpdateRole(r, n, admin)
           \/ RemoveRole(r)
    PROVE  RoleInv'
<1> USE DEF RoleInv
<1>1. role' \in [Role -> RoleRow]
  <2>1. ASSUME NEW n \in RoleName, NEW admin \in BOOLEAN, CreateRole(n, admin)
        PROVE  role' \in [Role -> RoleRow]
    <3>1. PICK o \in Role :
             role' = [role EXCEPT ![o] = [name |-> n, admin |-> admin, deletedAt |-> 0]]
      BY <2>1 DEF CreateRole
    <3> QED BY <3>1 DEF RoleTypeOK, RoleRow
  <2>2. ASSUME NEW n \in RoleName, NEW admin \in BOOLEAN, UpdateRole(r, n, admin)
        PROVE  role' \in [Role -> RoleRow]
    BY <2>2 DEF UpdateRole, RoleTypeOK, RoleRow
  <2>3. CASE RemoveRole(r)
    BY <2>3 DEF RemoveRole, RoleTypeOK, RoleRow
  <2> QED BY <2>1, <2>2, <2>3
<1>2. /\ UNCHANGED <<manager, crossed>>
      /\ removed' \in {removed, removed \cup {r}} \/ removed' \subseteq removed
  BY DEF CreateRole, UpdateRole, RemoveRole
<1>3. /\ granted' \in [Role -> SUBSET Permission] /\ wanted' \in [Role -> SUBSET Permission]
      /\ \A o \in Role :
            \/ granted'[o] = granted[o] /\ wanted'[o] = wanted[o]
            \/ granted'[o] = {} /\ wanted'[o] = {}
  BY DEF CreateRole, UpdateRole, RemoveRole, RoleTypeOK
<1>4. RoleTypeOK'
  BY <1>1, <1>2, <1>3 DEF RoleTypeOK, RoleRow
<1>5. SettersHold'
  <2>1. \A m \in Manager : manager[m].of \in Role
    BY DEF RoleTypeOK, Managers
  <2> QED BY <1>2, <1>3, <2>1 DEF SettersHold
<1> QED BY <1>4, <1>5

LEMMA SetKeeps ==
    ASSUME RoleInv, NEW m \in Manager, NEW r \in Role, NEW new \in SUBSET Permission,
           SetPermissions(m, r, new)
    PROVE  RoleInv'
<1> USE DEF RoleInv
<1> DEFINE q == [step |-> "setting", of |-> r, old |-> granted[r], new |-> new]
<1>1. /\ manager[m].step = "idle" /\ manager' = [manager EXCEPT ![m] = q]
      /\ UNCHANGED <<role, granted, removed>>
  BY DEF SetPermissions
<1>2. q \in Managers
  BY DEF RoleTypeOK, Managers
<1>3. /\ manager' \in [Manager -> Managers] /\ manager'[m] = q
      /\ \A o \in Manager \ {m} : manager'[o] = manager[o]
  BY <1>1, <1>2 DEF RoleTypeOK
<1>4. \/ /\ \E o \in Manager : manager[o].step = "setting" /\ manager[o].of = r
         /\ crossed' = crossed \cup {r} /\ wanted' = [wanted EXCEPT ![r] = {}]
      \/ /\ ~\E o \in Manager : manager[o].step = "setting" /\ manager[o].of = r
         /\ UNCHANGED <<crossed, wanted>>
  BY DEF SetPermissions
<1>5. RoleTypeOK'
  BY <1>1, <1>3, <1>4 DEF RoleTypeOK
<1>6. SettersHold'
  BY <1>1, <1>3, <1>4 DEF SettersHold, RoleTypeOK
<1> QED BY <1>5, <1>6

LEMMA CommitKeeps ==
    ASSUME RoleInv, NEW m \in Manager, CommitPermissions(m)
    PROVE  RoleInv'
<1> USE DEF RoleInv
<1> DEFINE r == manager[m].of
           new == manager[m].new
<1>1. manager[m] \in Managers /\ manager[m].step = "setting"
  BY DEF CommitPermissions, RoleTypeOK
<1>2. r \in Role /\ new \in SUBSET Permission
  BY <1>1 DEF Managers
<1>3. /\ granted' = [granted EXCEPT ![r] = (granted[r] \ manager[m].old) \cup new]
      /\ wanted' = [wanted EXCEPT ![r] = IF r \in crossed THEN {} ELSE new]
      /\ UNCHANGED <<role, crossed, removed>>
  BY DEF CommitPermissions, GrantsSet
<1>4. /\ manager' \in [Manager -> Managers]
      /\ manager'[m].step = "idle"
      /\ \A o \in Manager \ {m} :
            \/ manager'[o] = manager[o] /\ ~(manager[o].step = "setting" /\ manager[o].of = r)
            \/ /\ manager'[o].step = manager[o].step /\ manager'[o].of = r
               /\ manager[o].of = r /\ manager[o].step = "setting"
  <2>1. manager' = [o \in Manager |->
               IF o = m THEN Offline
               ELSE IF manager[o].step = "setting" /\ manager[o].of = r
                    THEN [manager[o] EXCEPT !.old = @ \ manager[m].old]
                    ELSE manager[o]]
    BY DEF CommitPermissions
  <2>2. ASSUME NEW o \in Manager
        PROVE  /\ [manager[o] EXCEPT !.old = @ \ manager[m].old] \in Managers
               /\ [manager[o] EXCEPT !.old = @ \ manager[m].old].step = manager[o].step
               /\ [manager[o] EXCEPT !.old = @ \ manager[m].old].of = manager[o].of
    <3>1. manager[o] \in Managers
      BY DEF RoleTypeOK
    <3> QED BY <3>1 DEF Managers
  <2> HIDE DEF r
  <2> QED BY <2>1, <2>2, OfflineTypes DEF RoleTypeOK
<1>5. RoleTypeOK'
  BY <1>2, <1>3, <1>4 DEF RoleTypeOK
<1>6. r \in crossed \/ \A o \in Manager \ {m} : manager'[o].step = "setting" => manager'[o].of # r
  BY <1>1, <1>4 DEF SettersHold
<1>7. SettersHold'
  <2>1. \A o \in Role \ crossed' : granted'[o] = wanted'[o]
    BY <1>1, <1>2, <1>3 DEF SettersHold, RoleTypeOK
  <2>2. ASSUME NEW o \in Manager, manager'[o].step = "setting", manager'[o].of \notin crossed'
        PROVE  granted'[manager'[o].of] \subseteq manager'[o].old
    <3>1. o # m /\ manager'[o] = manager[o] /\ manager[o].of # r /\ manager[o].of \in Role
      BY <1>3, <1>4, <1>6, <2>2 DEF Managers, RoleTypeOK
    <3> QED BY <1>3, <2>2, <3>1 DEF SettersHold, RoleTypeOK
  <2>3. ASSUME NEW o \in Manager, NEW p \in Manager, manager'[o].step = "setting",
               manager'[p].step = "setting", manager'[o].of = manager'[p].of
        PROVE  o = p \/ manager'[o].of \in crossed'
    <3>1. /\ o # m /\ p # m /\ manager[o].step = "setting" /\ manager[p].step = "setting"
          /\ manager[o].of = manager'[o].of /\ manager[p].of = manager'[p].of
      BY <1>4, <2>3
    <3> QED BY <1>3, <2>3, <3>1 DEF SettersHold
  <2> QED BY <2>1, <2>2, <2>3 DEF SettersHold
<1> QED BY <1>5, <1>7

LEMMA RoleSteps == RoleInv /\ [RoleNext]_roleVars => RoleInv'
<1> SUFFICES ASSUME RoleInv, [RoleNext]_roleVars PROVE RoleInv'
  OBVIOUS
<1>1. ASSUME NEW n \in RoleName, NEW admin \in BOOLEAN,
             CreateRole(n, admin) \/ \E r \in Role : UpdateRole(r, n, admin)
      PROVE  RoleInv'
  <2>1. PICK r : r \in Role
    BY RoleAssumption DEF RoleAssumption
  <2> QED BY <1>1, <2>1, RowKeeps
<1>2. ASSUME NEW r \in Role, RemoveRole(r) PROVE RoleInv'
  BY <1>2, RowKeeps DEF RemoveRole
<1>3. ASSUME NEW m \in Manager,
             \/ \E r \in Role, new \in SUBSET Permission : SetPermissions(m, r, new)
             \/ CommitPermissions(m)
      PROVE  RoleInv'
  BY <1>3, SetKeeps, CommitKeeps
<1>4. ASSUME UNCHANGED roleVars PROVE RoleInv'
  BY <1>4 DEF roleVars, RoleInv, RoleTypeOK, SettersHold
<1> QED BY <1>1, <1>2, <1>3, <1>4 DEF RoleNext

LEMMA GrantsAreWanted == RoleInv => AllowsWhatIsWanted
BY DEF RoleInv, SettersHold, AllowsWhatIsWanted, Allows

-----------------------------------------------------------------------------
(* The colours of a shop on their way to the dictionaries.                 *)

\* What a request has asked for is a row or a value of the shop.
EditorsHold ==
    \A e \in Editor :
        /\ editor[e].what = "variant" =>
              editor[e].variant \in Variety /\ editor[e].colour \in listed \cup {NoColour}
        /\ editor[e].what \in {"form", "link", "new"} => editor[e].value \in Value
        /\ editor[e].what \in {"link", "new"} => editor[e].colour \in Colour
        /\ editor[e].what = "remove" => editor[e].value \in Value \ SystemValue

DictionaryInv == DictionaryTypeOK /\ EditorsHold /\ LinksFollowColours

LEMMA NoEditTypes == NoEdit \in Editing /\ NoEdit.what = "nothing"
BY DEF NoEdit, Editing, Links

LEMMA DictionaryBegins == DictionaryInit => DictionaryInv
<1> SUFFICES ASSUME DictionaryInit PROVE DictionaryInv
  OBVIOUS
<1>1. DictionaryTypeOK
  <2>1. editor \in [Editor -> Editing]
    BY NoEditTypes DEF DictionaryInit
  <2>2. colourLink \in [Colour -> known \cup {NoValue}] /\ link \in [Variety -> known \cup {NoValue}]
    BY DEF DictionaryInit
  <2>3. batches \in 0 .. MaxBatches /\ SystemValue \subseteq known /\ known \subseteq Value
    BY DictionaryAssumption DEF DictionaryInit, DictionaryAssumption
  <2>4. bindingLog = {} /\ archived = {} /\ stranded = {} /\ switchedOn = FALSE /\ outrun = FALSE
    BY DEF DictionaryInit
  <2>5. listed \subseteq Colour /\ colour \in [Variety -> listed \cup {NoColour}]
    BY DEF DictionaryInit
  <2> QED BY <2>1, <2>2, <2>3, <2>4, <2>5 DEF DictionaryTypeOK
<1>2. EditorsHold
  BY NoEditTypes DEF DictionaryInit, EditorsHold
<1>3. LinksFollowColours
  BY DEF DictionaryInit, LinksFollowColours
<1> QED BY <1>1, <1>2, <1>3 DEF DictionaryInv

\* An answered request holds nothing; the others hold what they held while the old
\* list grows.
LEMMA AnswerKeeps ==
    ASSUME DictionaryInv, NEW e \in Editor, Answered(e), listed \subseteq listed'
    PROVE  editor' \in [Editor -> Editing] /\ EditorsHold'
<1>1. editor' = [editor EXCEPT ![e] = NoEdit] /\ editor \in [Editor -> Editing]
  BY DEF Answered, SetEditor, DictionaryInv, DictionaryTypeOK
<1> QED BY <1>1, NoEditTypes DEF DictionaryInv, EditorsHold

\* A request begins.
LEMMA AskKeeps ==
    ASSUME DictionaryInv, NEW e \in Editor,
           \/ \E p \in Variety, c \in listed \cup {NoColour} : AskVariant(e, p, c)
           \/ \E v \in Value : AskForm(e, v) \/ AskRemove(e, v)
    PROVE  DictionaryInv'
<1> USE DEF DictionaryInv
<1>1. UNCHANGED <<known, archived, colourLink, listed, colour, link, bindingLog, batches,
                  switchedOn, stranded, outrun>>
  BY DEF AskVariant, AskForm, AskRemove
<1>2. \E x \in Editing :
        /\ editor' = [editor EXCEPT ![e] = x]
        /\ x.what = "variant" => x.variant \in Variety /\ x.colour \in listed \cup {NoColour}
        /\ x.what \in {"variant", "form", "remove"}
        /\ x.what = "form" => x.value \in Value
        /\ x.what = "remove" => x.value \in Value \ SystemValue
  <2>1. ASSUME NEW p \in Variety, NEW c \in listed \cup {NoColour}, AskVariant(e, p, c)
        PROVE  \E x \in Editing :
                 /\ editor' = [editor EXCEPT ![e] = x]
                 /\ x.what = "variant" /\ x.variant \in Variety /\ x.colour \in listed \cup {NoColour}
    <3> DEFINE y == TriggeredLink(p, c)
               x == [NoEdit EXCEPT !.what = "variant", !.variant = p, !.colour = c, !.value = y]
    <3>1. y \in Links
      BY DEF TriggeredLink, DictionaryTypeOK, Links
    <3>2. editor' = [editor EXCEPT ![e] = x]
      BY <2>1 DEF AskVariant, SetEditor
    <3> HIDE DEF y
    <3>3. x \in Editing /\ x.what = "variant" /\ x.variant = p /\ x.colour = c
      BY <3>1 DEF NoEdit, Editing, DictionaryTypeOK
    <3> QED BY <3>2, <3>3
  <2>2. ASSUME NEW v \in Value, AskForm(e, v)
        PROVE  \E x \in Editing :
                 editor' = [editor EXCEPT ![e] = x] /\ x.what = "form" /\ x.value \in Value
    <3> DEFINE x == [NoEdit EXCEPT !.what = "form", !.value = v]
    <3>1. editor' = [editor EXCEPT ![e] = x]
      BY <2>2 DEF AskForm, SetEditor
    <3>2. x \in Editing /\ x.what = "form" /\ x.value = v
      BY DEF NoEdit, Editing, Links
    <3> QED BY <3>1, <3>2
  <2>3. ASSUME NEW v \in Value, AskRemove(e, v)
        PROVE  \E x \in Editing :
                 /\ editor' = [editor EXCEPT ![e] = x]
                 /\ x.what = "remove" /\ x.value \in Value \ SystemValue
    <3> DEFINE b == OnGoods(v)
               x == [NoEdit EXCEPT !.what = "remove", !.value = v, !.used = b]
    <3>1. editor' = [editor EXCEPT ![e] = x] /\ v \notin SystemValue
      BY <2>3 DEF AskRemove, SetEditor
    <3>2. b \in BOOLEAN
      BY DEF OnGoods
    <3> HIDE DEF b
    <3>3. x \in Editing /\ x.what = "remove" /\ x.value = v
      BY <3>2 DEF NoEdit, Editing, Links
    <3> QED BY <3>1, <3>3
  <2>4. CASE \E p \in Variety, c \in listed \cup {NoColour} : AskVariant(e, p, c)
    <3>1. "variant" # "form" /\ "variant" # "remove"
      OBVIOUS
    <3> QED BY <2>1, <2>4, <3>1
  <2>5. CASE \E v \in Value : AskForm(e, v)
    <3>1. "form" # "variant" /\ "form" # "remove"
      OBVIOUS
    <3> QED BY <2>2, <2>5, <3>1
  <2>6. CASE \E v \in Value : AskRemove(e, v)
    <3>1. "remove" # "variant" /\ "remove" # "form"
      OBVIOUS
    <3> QED BY <2>3, <2>6, <3>1
  <2> QED BY <2>4, <2>5, <2>6
<1>3. editor' \in [Editor -> Editing] /\ EditorsHold'
  BY <1>1, <1>2 DEF DictionaryTypeOK, EditorsHold
<1>4. DictionaryTypeOK'
  BY <1>1, <1>3 DEF DictionaryTypeOK
<1>5. LinksFollowColours'
  BY <1>1 DEF LinksFollowColours
<1> QED BY <1>3, <1>4, <1>5

LEMMA WriteVariantKeeps ==
    ASSUME DictionaryInv, NEW e \in Editor, WriteVariant(e)
    PROVE  DictionaryInv'
<1> USE DEF DictionaryInv
<1> DEFINE w == editor[e]
           p == w.variant
           c == w.colour
           v == w.value
           moved == v # TriggeredLink(p, c)
<1>1. /\ w \in Editing /\ p \in Variety /\ c \in listed \cup {NoColour}
      /\ UNCHANGED <<known, archived, colourLink, listed, bindingLog, batches, switchedOn>>
      /\ Answered(e)
  BY DEF WriteVariant, EditorsHold, DictionaryTypeOK
<1>2. \/ /\ v \in known \cup {NoValue}
         /\ colour' = [colour EXCEPT ![p] = c] /\ link' = [link EXCEPT ![p] = v]
         /\ stranded' = stranded \ {p} /\ outrun' = (outrun \/ moved)
      \/ UNCHANGED <<colour, link, stranded, outrun>>
  BY DEF WriteVariant
<1>3. editor' \in [Editor -> Editing] /\ EditorsHold'
  BY <1>1, AnswerKeeps
<1>4. moved \in BOOLEAN /\ (~moved => v = IF c = NoColour THEN NoValue ELSE colourLink[c])
  BY DEF TriggeredLink
<1> HIDE DEF w, p, c, v, moved
<1>5. DictionaryTypeOK'
  <2>1. outrun' \in BOOLEAN
    BY <1>2, <1>4 DEF DictionaryTypeOK
  <2>2. colour' \in [Variety -> listed \cup {NoColour}] /\ link' \in [Variety -> known \cup {NoValue}]
        /\ stranded' \subseteq Variety
    BY <1>1, <1>2 DEF DictionaryTypeOK
  <2> QED BY <1>1, <1>3, <2>1, <2>2 DEF DictionaryTypeOK
<1>6. LinksFollowColours'
  <2>1. CASE UNCHANGED <<colour, link, stranded, outrun>>
    BY <1>1, <2>1 DEF LinksFollowColours
  <2>2. CASE /\ colour' = [colour EXCEPT ![p] = c] /\ link' = [link EXCEPT ![p] = v]
             /\ stranded' = stranded \ {p} /\ outrun' = (outrun \/ moved)
    <3>1. ASSUME ~outrun' PROVE ~outrun /\ ~moved
      BY <2>2, <3>1
    <3>2. ASSUME ~outrun', NEW q \in Variety \ stranded'
          PROVE  link'[q] = IF colour'[q] = NoColour THEN NoValue ELSE colourLink'[colour'[q]]
      <4>1. CASE q = p
        BY <1>1, <1>4, <2>2, <3>1, <3>2, <4>1 DEF DictionaryTypeOK
      <4>2. CASE q # p
        BY <1>1, <2>2, <3>1, <3>2, <4>2 DEF DictionaryTypeOK, LinksFollowColours
      <4> QED BY <4>1, <4>2
    <3> QED BY <3>2 DEF LinksFollowColours
  <2> QED BY <1>2, <2>1, <2>2
<1> QED BY <1>3, <1>5, <1>6

\* Colours without a link get one, and the goods that have them.
LEMMA FillKeeps ==
    ASSUME DictionaryInv, NEW new, DOMAIN new \in SUBSET Colour,
           \A c \in DOMAIN new : new[c] \in Value /\ colourLink[c] = NoValue,
           colourLink' = [c \in Colour |-> IF c \in DOMAIN new THEN new[c] ELSE colourLink[c]],
           link' = Filled(new), stranded' = stranded \ FilledBy(new),
           UNCHANGED <<colour, outrun>>
    PROVE  /\ \A p \in Variety : link'[p] = link[p]
                  \/ (colour[p] \in DOMAIN new /\ link'[p] = new[colour[p]])
           /\ link' = [p \in Variety |-> link'[p]]
           /\ stranded' \subseteq Variety
           /\ LinksFollowColours'
<1> USE DEF DictionaryInv
<1>1. \A p \in Variety :
        link'[p] = IF link[p] = NoValue /\ colour[p] \in DOMAIN new
                   THEN new[colour[p]] ELSE link[p]
  BY DEF Filled
<1>2. ASSUME ~outrun', NEW p \in Variety \ stranded'
      PROVE  link'[p] = IF colour'[p] = NoColour THEN NoValue ELSE colourLink'[colour'[p]]
  <2>1. NoColour \notin DOMAIN new /\ NoValue \notin Value /\ colour[p] \in Colour \cup {NoColour}
    BY DictionaryAssumption DEF DictionaryAssumption, DictionaryTypeOK
  <2>2. CASE p \in stranded
    <3>1. link'[p] # link[p]
      BY <1>2, <2>2 DEF FilledBy, Filled
    <3> QED BY <1>1, <2>1, <3>1
  <2>3. CASE p \notin stranded
    <3>1. link[p] = IF colour[p] = NoColour THEN NoValue ELSE colourLink[colour[p]]
      BY <1>2, <2>3 DEF LinksFollowColours
    <3> QED BY <1>1, <2>1, <3>1
  <2> QED BY <2>2, <2>3
<1>3. link' = [p \in Variety |-> link'[p]]
  BY DEF Filled
<1> QED BY <1>1, <1>2, <1>3 DEF LinksFollowColours, DictionaryTypeOK

LEMMA ApplyCompanyKeeps ==
    ASSUME DictionaryInv, NEW some \in SUBSET Colour, NEW of \in [some -> Value],
           ApplyCompany(of)
    PROVE  DictionaryInv'
<1> USE DEF DictionaryInv
<1> DEFINE new == [c \in {d \in DOMAIN of : colourLink[d] = NoValue /\ d \in listed} |-> of[c]]
<1>1. /\ batches < MaxBatches /\ batches' = batches + 1
      /\ known' = known \cup {of[c] : c \in DOMAIN of}
      /\ colourLink' = [c \in Colour |-> IF c \in DOMAIN new THEN new[c] ELSE colourLink[c]]
      /\ link' = Filled(new) /\ stranded' = stranded \ FilledBy(new)
      /\ bindingLog' = bindingLog
              \cup {[batch |-> batches, row |-> c, value |-> new[c]] : c \in DOMAIN new}
              \cup {[batch |-> batches, row |-> p, value |-> link'[p]] : p \in FilledBy(new)}
      /\ UNCHANGED <<archived, listed, colour, switchedOn, editor, outrun>>
  BY DEF ApplyCompany
<1>2. /\ DOMAIN new \in SUBSET Colour
      /\ \A c \in DOMAIN new : new[c] \in Value /\ new[c] \in known' /\ colourLink[c] = NoValue
  BY <1>1
<1> HIDE DEF new
<1>3. /\ \A p \in Variety : link'[p] = link[p]
             \/ (colour[p] \in DOMAIN new /\ link'[p] = new[colour[p]])
      /\ link' = [p \in Variety |-> link'[p]] /\ stranded' \subseteq Variety
      /\ LinksFollowColours'
  BY <1>1, <1>2, FillKeeps
<1>4. /\ SystemValue \subseteq known' /\ known' \subseteq Value /\ known \subseteq known'
      /\ archived' \subseteq known'
  BY <1>1 DEF DictionaryTypeOK
<1>5. colourLink' \in [Colour -> known' \cup {NoValue}]
  BY <1>1, <1>2, <1>4 DEF DictionaryTypeOK
<1>6. link' \in [Variety -> known' \cup {NoValue}]
  <2>1. \A p \in Variety : link'[p] \in known' \cup {NoValue}
    BY <1>2, <1>3, <1>4 DEF DictionaryTypeOK
  <2> QED BY <1>3, <2>1
<1>7. bindingLog' \subseteq LogRows
  <2>1. \A p \in FilledBy(new) : p \in Variety /\ link'[p] \in Value
    BY <1>1, <1>2, <1>3 DEF FilledBy
  <2> QED BY <1>1, <1>2, <2>1 DEF LogRows, DictionaryTypeOK
<1>8. batches' \in 0 .. MaxBatches
  BY <1>1, DictionaryAssumption DEF DictionaryTypeOK, DictionaryAssumption
<1>9. EditorsHold'
  BY <1>1 DEF EditorsHold
<1> QED BY <1>1, <1>3, <1>4, <1>5, <1>6, <1>7, <1>8, <1>9 DEF DictionaryTypeOK

LEMMA FindFormKeeps ==
    ASSUME DictionaryInv, NEW e \in Editor, FindForm(e)
    PROVE  DictionaryInv'
<1> USE DEF DictionaryInv
<1>1. PICK old \in Editing : old = editor[e] /\ old.what = "form" /\ old.value \in Value
  BY DEF FindForm, DictionaryTypeOK, EditorsHold
<1>2. UNCHANGED <<known, archived, colourLink, listed, colour, link, bindingLog, batches,
                  switchedOn, stranded, outrun>>
  BY DEF FindForm
<1>3. CASE Answered(e)
  <2>1. editor' \in [Editor -> Editing] /\ EditorsHold'
    BY <1>2, <1>3, AnswerKeeps
  <2> QED BY <1>2, <2>1 DEF DictionaryTypeOK, LinksFollowColours
<1>4. ASSUME NEW c \in Colour,
             SetEditor(e, [editor[e] EXCEPT
                 !.what = IF c \in listed THEN "link" ELSE "new", !.colour = c])
      PROVE  DictionaryInv'
  <2>1. PICK what : what = IF c \in listed THEN "link" ELSE "new"
    OBVIOUS
  <2>2. PICK x : x = [old EXCEPT !.what = what, !.colour = c]
    OBVIOUS
  <2>3. editor' = [editor EXCEPT ![e] = x]
    BY <1>1, <1>4, <2>1, <2>2 DEF SetEditor
  <2>4. x \in Editing /\ x.what \in {"link", "new"} /\ x.value \in Value /\ x.colour \in Colour
    BY <1>1, <2>1, <2>2 DEF Editing
  <2>5. editor' \in [Editor -> Editing] /\ EditorsHold'
    BY <1>2, <2>3, <2>4 DEF DictionaryTypeOK, EditorsHold
  <2> QED BY <1>2, <2>5 DEF DictionaryTypeOK, LinksFollowColours
<1> QED BY <1>3, <1>4 DEF FindForm

LEMMA LinkFormKeeps ==
    ASSUME DictionaryInv, NEW e \in Editor, LinkForm(e)
    PROVE  DictionaryInv'
<1> USE DEF DictionaryInv
<1>1. PICK v \in Value, c \in Colour : v = editor[e].value /\ c = editor[e].colour
  BY DEF LinkForm, EditorsHold
<1>2. Answered(e) /\ UNCHANGED <<known, archived, colour, switchedOn>>
  BY DEF LinkForm
<1>3. CASE UNCHANGED <<colourLink, listed, link, bindingLog, batches, stranded, outrun>>
  <2>1. editor' \in [Editor -> Editing] /\ EditorsHold'
    BY <1>2, <1>3, AnswerKeeps
  <2>2. LinksFollowColours'
    BY <1>2, <1>3 DEF LinksFollowColours
  <2> QED BY <1>2, <1>3, <2>1, <2>2 DEF DictionaryTypeOK
<1>4. CASE /\ v \in known
           /\ batches < MaxBatches
           /\ colourLink' = [colourLink EXCEPT ![c] = v]
           /\ listed' = listed \cup {c}
           /\ FormLink(c, v)
           /\ stranded' = stranded \ FilledBy([x \in {c} |-> v])
           /\ bindingLog' = bindingLog \cup {[batch |-> batches, row |-> c, value |-> v]}
           /\ batches' = batches + 1
           /\ outrun' = (outrun \/ colourLink[c] # NoValue)
  <2> DEFINE new == [x \in {c} |-> v]
  <2>1. DOMAIN new = {c} /\ new[c] = v
    OBVIOUS
  <2>2. link' = Filled(new) /\ stranded' = stranded \ FilledBy(new)
    BY <1>4 DEF FormLink
  <2> HIDE DEF new
  <2>3. colourLink' = [x \in Colour |-> IF x \in DOMAIN new THEN new[x] ELSE colourLink[x]]
    BY <1>4, <2>1 DEF DictionaryTypeOK
  <2>4. outrun' \in BOOLEAN /\ (~outrun' => colourLink[c] = NoValue /\ outrun' = outrun)
    BY <1>4 DEF DictionaryTypeOK
  <2>5. LinksFollowColours'
    <3>1. CASE ~outrun'
      BY <1>2, <2>1, <2>2, <2>3, <2>4, <3>1, FillKeeps
    <3> QED BY <3>1 DEF LinksFollowColours
  <2>6. link' \in [Variety -> known \cup {NoValue}]
    <3>1. link' = [p \in Variety |-> IF link[p] = NoValue /\ colour[p] \in DOMAIN new
                                     THEN new[colour[p]] ELSE link[p]]
      BY <2>2 DEF Filled
    <3> QED BY <1>4, <2>1, <3>1 DEF DictionaryTypeOK
  <2>7. stranded' \subseteq Variety
    BY <2>2 DEF DictionaryTypeOK
  <2>8. /\ colourLink' \in [Colour -> known \cup {NoValue}] /\ listed' \subseteq Colour
        /\ colour \in [Variety -> listed' \cup {NoColour}] /\ listed \subseteq listed'
    BY <1>4 DEF DictionaryTypeOK
  <2>9. bindingLog' \subseteq LogRows /\ batches' \in 0 .. MaxBatches
    BY <1>4, DictionaryAssumption DEF DictionaryTypeOK, DictionaryAssumption, LogRows
  <2>10. editor' \in [Editor -> Editing] /\ EditorsHold'
    BY <1>2, <2>8, AnswerKeeps
  <2> QED BY <1>2, <2>4, <2>5, <2>6, <2>7, <2>8, <2>9, <2>10 DEF DictionaryTypeOK
<1> QED BY <1>1, <1>3, <1>4 DEF LinkForm

LEMMA RollbackKeeps ==
    ASSUME DictionaryInv, NEW which, RollbackCompany(which)
    PROVE  DictionaryInv'
<1> USE DEF DictionaryInv
<1> DEFINE logged == {x \in bindingLog : x.batch \in which}
<1>1. /\ colourLink' = [c \in Colour |-> Reverted(c, colourLink[c], logged)]
      /\ link' = [p \in Variety |-> Reverted(p, link[p], logged)]
      /\ switchedOn' = FALSE
      /\ stranded' = stranded \cup {p \in Variety : ~Alike(p, logged)}
      /\ UNCHANGED <<known, archived, listed, colour, bindingLog, batches, editor, outrun>>
  BY DEF RollbackCompany
<1> HIDE DEF logged
<1>2. DictionaryTypeOK'
  BY <1>1 DEF DictionaryTypeOK, Reverted
<1>3. EditorsHold'
  BY <1>1 DEF EditorsHold
<1>4. LinksFollowColours'
  <2>1. ASSUME ~outrun', NEW p \in Variety \ stranded'
        PROVE  link'[p] = IF colour'[p] = NoColour THEN NoValue ELSE colourLink'[colour'[p]]
    <3>1. /\ link[p] = IF colour[p] = NoColour THEN NoValue ELSE colourLink[colour[p]]
          /\ Alike(p, logged) /\ (colour[p] = NoColour \/ colour[p] \in Colour)
      BY <1>1, <2>1 DEF LinksFollowColours, DictionaryTypeOK
    <3> QED BY <1>1, <2>1, <3>1 DEF Alike, Reverted
  <2> QED BY <2>1 DEF LinksFollowColours
<1> QED BY <1>2, <1>3, <1>4

LEMMA RemoveValueKeeps ==
    ASSUME DictionaryInv, NEW e \in Editor, RemoveValue(e)
    PROVE  DictionaryInv'
<1> USE DEF DictionaryInv
<1> DEFINE v == editor[e].value
<1>1. Answered(e) /\ v \in Value \ SystemValue
      /\ UNCHANGED <<listed, colour, link, bindingLog, batches, switchedOn, stranded, outrun>>
  BY DEF RemoveValue, EditorsHold
<1>2. editor' \in [Editor -> Editing] /\ EditorsHold'
  BY <1>1, AnswerKeeps
<1>3. \/ UNCHANGED <<known, colourLink>> /\ archived' \subseteq known
      \/ /\ ~OnGoods(v) /\ known' = known \ {v} /\ archived' = archived \ {v}
         /\ colourLink' = [c \in Colour |-> IF colourLink[c] = v THEN NoValue ELSE colourLink[c]]
  BY DEF RemoveValue, DictionaryTypeOK
<1> HIDE DEF v
<1>4. CASE UNCHANGED <<known, colourLink>> /\ archived' \subseteq known
  BY <1>1, <1>2, <1>4 DEF DictionaryTypeOK, LinksFollowColours
<1>5. CASE /\ ~OnGoods(v) /\ known' = known \ {v} /\ archived' = archived \ {v}
           /\ colourLink' = [c \in Colour |-> IF colourLink[c] = v THEN NoValue ELSE colourLink[c]]
  <2>1. link' \in [Variety -> known' \cup {NoValue}]
    BY <1>1, <1>5 DEF DictionaryTypeOK, OnGoods
  <2>2. DictionaryTypeOK'
    BY <1>1, <1>2, <1>5, <2>1 DEF DictionaryTypeOK
  <2>3. LinksFollowColours'
    BY <1>1, <1>5 DEF LinksFollowColours, DictionaryTypeOK, OnGoods
  <2> QED BY <1>2, <2>2, <2>3
<1> QED BY <1>3, <1>4, <1>5

LEMMA DictionarySteps == DictionaryInv /\ [DictionaryNext]_dictionaryVars => DictionaryInv'
<1> SUFFICES ASSUME DictionaryInv, [DictionaryNext]_dictionaryVars PROVE DictionaryInv'
  OBVIOUS
<1>1. ASSUME NEW e \in Editor,
             \/ \E p \in Variety, c \in listed \cup {NoColour} : AskVariant(e, p, c)
             \/ WriteVariant(e)
             \/ \E v \in Value : AskForm(e, v) \/ AskRemove(e, v)
             \/ FindForm(e) \/ LinkForm(e) \/ RemoveValue(e)
      PROVE  DictionaryInv'
  BY <1>1, AskKeeps, WriteVariantKeeps, FindFormKeeps, LinkFormKeeps, RemoveValueKeeps
<1>2. ASSUME NEW some \in SUBSET Colour, NEW of \in [some -> Value], ApplyCompany(of)
      PROVE  DictionaryInv'
  BY <1>2, ApplyCompanyKeeps
<1>3. ASSUME NEW which, RollbackCompany(which) PROVE DictionaryInv'
  BY <1>3, RollbackKeeps
<1>4. ASSUME \/ \E v \in Value : CreateValue(v) \/ ArchiveValue(v)
             \/ \E on \in BOOLEAN : SwitchOn(on)
      PROVE  DictionaryInv'
  <2>1. /\ UNCHANGED <<colourLink, listed, colour, link, bindingLog, batches, editor, stranded,
                       outrun>>
        /\ known \subseteq known' /\ known' \subseteq Value /\ archived' \subseteq known'
        /\ switchedOn' \in BOOLEAN
    BY <1>4 DEF CreateValue, ArchiveValue, SwitchOn, DictionaryInv, DictionaryTypeOK
  <2> QED BY <2>1 DEF DictionaryInv, DictionaryTypeOK, EditorsHold, LinksFollowColours
<1>5. ASSUME UNCHANGED dictionaryVars PROVE DictionaryInv'
  BY <1>5 DEF dictionaryVars, DictionaryInv, DictionaryTypeOK, EditorsHold, LinksFollowColours
<1> QED BY <1>1, <1>2, <1>3, <1>4, <1>5 DEF DictionaryNext

-----------------------------------------------------------------------------
(* The dictionaries goods are described with.                              *)

Written == {"create", "edit", "delete", "assign"}
CreateRequests == [step : {"named", "create"}, row : Row]
EditRequests == [step : {"edit"}, entry : Entry, name : Spelling \cup Mark \cup {Unset},
                 mark : Mark \cup {Unset}, code : Code \cup {Unset}]
RemoveRequests == [step : {"delete"}, entry : Entry]
ValueRequests == [step : {"values", "checked"}, member : Member, values : SUBSET Entry]
DeskRequests == {AtDesk} \cup CreateRequests \cup EditRequests \cup RemoveRequests \cup ValueRequests

AttributeTypes ==
    /\ scene \in Scenes
    /\ rows \in [Entry -> {Free, Removed} \cup Row]
    /\ members \in [Member -> SUBSET Entry] /\ chosen \in [Member -> SUBSET Entry]
    /\ desk \in [Clerk -> DeskRequests]
    /\ late \in [Clerk -> SUBSET Written]
    /\ outdated \subseteq Written

\* Only colours are named by their HEX, and sizes by their code.
NameFits(name) ==
    /\ kind # "colour" => name \notin Mark
    /\ kind = "size" => KeyOf[name] = name

SameNamed(a, b) == NameKey(a.name) = NameKey(b.name)

\* What the code of a new colour is made of.
Coded == kind = "colour"
Ident(row) == row.mark
FirstCode(row) == [base |-> Ident(row), suffix |-> 1]
SecondCode(row) == [base |-> Ident(row), suffix |-> 2]

\* Two entries are no twins.
Apart(a, b) ==
    /\ kind = "colour" => a.name # b.name
    /\ kind = "size" => a.mark # b.mark \/ a.name # b.name
    /\ Coded /\ ~Crossed({"edit", "delete"}) => Ident(a) # Ident(b)
    /\ kind = "option" /\ ~Crossed({"create", "edit"}) => a.mark # b.mark \/ ~SameNamed(a, b)
    /\ kind \in {"colour", "season", "definition"} /\ ~Crossed({"create", "edit"}) => ~SameNamed(a, b)

EntriesApart ==
    /\ \A e \in Listed : NameFits(rows[e].name)
    /\ \A e \in Listed : \A f \in Others(e) : Apart(rows[e], rows[f])

\* No colour was edited or removed since p read.
Steady(p) == Coded /\ late[p] \cap {"edit", "delete"} = {}

\* The code a request chose is the one its twins have, or will have.
CodesHold(p, row) ==
    /\ Coded => row.code \in {FirstCode(row), SecondCode(row)}
    /\ Steady(p) /\ ~Crossed({"edit", "delete"}) =>
          \A f \in Listed : Ident(rows[f]) = Ident(row) => rows[f].code = row.code
    /\ Steady(p) /\ row.code = FirstCode(row) =>
          \A f \in Listed : rows[f].code = row.code => Ident(rows[f]) = Ident(row)
    /\ Steady(p) /\ row.code = SecondCode(row) =>
          \E f \in Listed : rows[f].code = FirstCode(row)

OneCode ==
    \A p, q \in Clerk :
        /\ desk[p].step \in {"named", "create"} /\ Steady(p) /\ desk[q].step \in {"named", "create"} /\ Steady(q)
        /\ Ident(desk[p].row) = Ident(desk[q].row)
        => desk[p].row.code = desk[q].row.code

CreateHolds(p, r) ==
    /\ r.step = "named" => kind = "season"
    /\ NameFits(r.row.name)
    /\ CodesHold(p, r.row)
    /\ late[p] = {} => \A f \in Listed : ~IsTwin(r.row, rows[f])

EditHolds(p, r) ==
    /\ r.name # Unset => NameFits(r.name)
    /\ kind = "option" => r.mark = Unset
    /\ late[p] = {} =>
          /\ r.name \in Spelling => ~NameTaken(r.entry, r.name)
          /\ kind = "colour" /\ r.mark # Unset => \A f \in Others(r.entry) : rows[f].mark # r.mark
          /\ kind = "definition" /\ r.mark # Unset => ~InUse(r.entry)

ValuesHold(p, r) ==
    /\ r.step = "checked" => r.values \subseteq Listed
    /\ late[p] = {} =>
          /\ kind = "definition" =>
                \A e \in r.values : e \in Listed /\ (rows[e].mark = AxisMark <=> r.member \in Variant)
          /\ r.step = "checked" => SameVariants(r.member, r.values) = {}

ReadingsHold ==
    /\ \A p \in Clerk :
          LET r == desk[p]
          IN  /\ r.step \in {"named", "create"} => CreateHolds(p, r)
              /\ r.step = "edit" => EditHolds(p, r)
              /\ r.step = "delete" /\ late[p] = {} => ~InUse(r.entry)
              /\ r.step \in {"values", "checked"} => ValuesHold(p, r)
    /\ OneCode

GoodsHold ==
    /\ \A u \in Member : members[u] \subseteq Listed
    /\ GoodsKeepTheirValues /\ VariantsDiffer

AttributeInv == AttributeTypes /\ EntriesApart /\ ReadingsHold /\ GoodsHold

LEMMA SceneFits ==
    ASSUME AttributeTypes
    PROVE  /\ kind \in {"colour", "size", "season", "option", "definition"}
           /\ scene.names \subseteq Spelling /\ scene.goods \subseteq Member
           /\ scene.codes \subseteq Spelling \cup Mark
<1>1. scene \in [kind : {"colour", "size", "season", "option", "definition"},
                 names : SUBSET Spelling, codes : SUBSET (Spelling \cup Mark),
                 goods : SUBSET Member]
  BY AttributesAssumption DEF AttributesAssumption, AttributeTypes
<1> QED BY <1>1 DEF kind

LEMMA RequestKinds ==
    ASSUME NEW r \in DeskRequests
    PROVE  /\ r.step \in {"named", "create"} => r \in CreateRequests
           /\ r.step = "edit" => r \in EditRequests
           /\ r.step = "delete" => r \in RemoveRequests
           /\ r.step \in {"values", "checked"} => r \in ValueRequests
           /\ r.step \in {"idle", "named", "create", "edit", "delete", "values", "checked"}
           /\ r.step = "idle" => r = AtDesk
BY DEF DeskRequests, CreateRequests, EditRequests, RemoveRequests, ValueRequests, AtDesk

LEMMA AtDeskFits == AtDesk \in DeskRequests /\ AtDesk.step = "idle"
BY DEF AtDesk, DeskRequests

LEMMA RowIsListed == ASSUME NEW row \in Row PROVE row \notin {Free, Removed}
BY DEF Row, Free, Removed

LEMMA ListedRows ==
    ASSUME AttributeTypes
    PROVE  /\ Listed \subseteq Entry /\ \A e \in Listed : rows[e] \in Row
           /\ \A e \in Entry : rows[e] \in Row => e \in Listed
BY RowIsListed DEF AttributeTypes, Listed

\* A key is a name of its own.
LEMMA KeysFit ==
    ASSUME NEW name \in Spelling \cup Mark
    PROVE  /\ name \in Mark => NameKey(name) = name
           /\ name \notin Mark => NameKey(name) = KeyOf[name] /\ KeyOf[name] \in Spelling
                                  /\ KeyOf[name] \notin Mark
BY AttributesAssumption DEF AttributesAssumption, NameKey

LEMMA ApartSymmetric == ASSUME NEW a, NEW b, Apart(a, b) PROVE Apart(b, a)
BY DEF Apart, SameNamed

LEMMA ApartStays ==
    ASSUME NEW a, NEW b, Apart(a, b), scene' = scene, outdated \subseteq outdated'
    PROVE  Apart(a, b)'
BY DEF Apart, SameNamed, Crossed, Coded, Ident, NameKey, kind

\* What a write does to the requests in flight.
LEMMA FinishFits ==
    ASSUME AttributeTypes, NEW p \in Clerk, NEW what \in Written, Finish(p, what)
    PROVE  /\ desk' \in [Clerk -> DeskRequests] /\ late' \in [Clerk -> SUBSET Written]
           /\ outdated' \subseteq Written /\ outdated \subseteq outdated' /\ scene' = scene
           /\ desk'[p] = AtDesk
           /\ \A q \in Clerk \ {p} :
                 /\ desk'[q] = desk[q]
                 /\ desk[q] # AtDesk => late'[q] = late[q] \cup {what}
                 /\ desk[q] = AtDesk => late'[q] = {}
           /\ late[p] # {} => what \in outdated' /\ late[p] \subseteq outdated'
           /\ late[p] = {} => outdated' = outdated
<1>1. scene' = scene /\ desk' = [desk EXCEPT ![p] = AtDesk]
      /\ outdated' = IF late[p] = {} THEN outdated ELSE outdated \cup late[p] \cup {what}
  BY DEF Finish
<1>2. desk' \in [Clerk -> DeskRequests] /\ desk'[p] = AtDesk
      /\ \A q \in Clerk \ {p} : desk'[q] = desk[q]
  BY <1>1, AtDeskFits DEF AttributeTypes
<1>3. late' = [q \in Clerk |-> IF q = p \/ desk[q] = AtDesk THEN {} ELSE late[q] \cup {what}]
  BY DEF Finish
<1>4. late' \in [Clerk -> SUBSET Written]
  <2>1. \A q \in Clerk : late[q] \cup {what} \in SUBSET Written
    BY DEF AttributeTypes
  <2> QED BY <1>3, <2>1
<1>5. outdated' \subseteq Written
  BY <1>1 DEF AttributeTypes
<1>6. \A q \in Clerk \ {p} : /\ desk[q] # AtDesk => late'[q] = late[q] \cup {what}
                             /\ desk[q] = AtDesk => late'[q] = {}
  BY <1>3
<1> QED BY <1>1, <1>2, <1>4, <1>5, <1>6

\* The readings that still justify a write are those of codes.
LEMMA ReadingsStay ==
    ASSUME AttributeInv, NEW p \in Clerk, NEW what \in Written, Finish(p, what),
           \A q \in Clerk : \A row \in Row :
              q # p /\ desk[q].step \in {"named", "create"} /\ desk[q].row = row => CodesHold(q, row)',
           \A q \in Clerk : q # p /\ desk[q].step = "checked" => desk[q].values \subseteq Listed'
    PROVE  ReadingsHold'
<1> USE DEF AttributeInv
<1>1. /\ desk' \in [Clerk -> DeskRequests] /\ scene' = scene /\ desk'[p] = AtDesk
      /\ \A q \in Clerk \ {p} :
            /\ desk'[q] = desk[q]
            /\ desk[q] # AtDesk => late'[q] = late[q] \cup {what}
  BY FinishFits
<1>2. OneCode'
  <2> SUFFICES ASSUME NEW q \in Clerk, NEW s \in Clerk,
                      desk'[q].step \in {"named", "create"}, Steady(q)', desk'[s].step \in {"named", "create"}, Steady(s)',
                      Ident(desk[q].row)' = Ident(desk[s].row)'
               PROVE  desk'[q].row.code = desk'[s].row.code
    BY DEF OneCode
  <2>1. q # p /\ s # p /\ desk'[q] = desk[q] /\ desk'[s] = desk[s]
    BY <1>1, AtDeskFits
  <2>2. Steady(q) /\ Steady(s)
    BY <1>1, <2>1, AtDeskFits DEF Steady, Coded, kind
  <2>3. Ident(desk[q].row) = Ident(desk[s].row)
    BY <1>1, <2>1 DEF Ident, NameKey, kind
  <2> QED BY <2>1, <2>2, <2>3 DEF ReadingsHold, OneCode
<1>3. ASSUME NEW q \in Clerk
      PROVE  LET r == desk[q]
             IN  /\ r.step \in {"named", "create"} => CreateHolds(q, r)
                 /\ r.step = "edit" => EditHolds(q, r)
                 /\ r.step = "delete" /\ late[q] = {} => ~InUse(r.entry)
                 /\ r.step \in {"values", "checked"} => ValuesHold(q, r)
             '
  <2>1. CASE q = p
    BY <1>1, <2>1, AtDeskFits
  <2>2. CASE q # p
    <3>1. PICK r \in DeskRequests : r = desk[q] /\ r = desk'[q]
      BY <1>1, <2>2 DEF AttributeTypes
    <3>2. r.step # "idle" => late'[q] # {}
      BY <1>1, <2>2, <3>1, AtDeskFits
    <3>3. r.step \in {"named", "create"} => CreateHolds(q, r)'
      <4> SUFFICES ASSUME r.step \in {"named", "create"} PROVE CreateHolds(q, r)'
        OBVIOUS
      <4>1. r.row \in Row
        BY <3>1, RequestKinds DEF CreateRequests
      <4>2. PICK row \in Row : row = r.row
        BY <4>1
      <4>3. CodesHold(q, row)' /\ NameFits(row.name)
        BY <2>2, <3>1, <4>2 DEF ReadingsHold, CreateHolds
      <4>4. NameFits(row.name)'
        BY <1>1, <4>3 DEF NameFits, kind
      <4>5. (r.step = "named" => kind = "season")'
        BY <1>1, <2>2, <3>1 DEF ReadingsHold, CreateHolds, kind
      <4> QED BY <3>2, <4>2, <4>3, <4>4, <4>5 DEF CreateHolds
    <3>4. r.step = "edit" => EditHolds(q, r)'
      <4> SUFFICES ASSUME r.step = "edit" PROVE EditHolds(q, r)'
        OBVIOUS
      <4>1. EditHolds(q, r)
        BY <3>1 DEF ReadingsHold
      <4> QED BY <1>1, <3>2, <4>1 DEF EditHolds, NameFits, kind
    <3>5. r.step \in {"values", "checked"} => ValuesHold(q, r)'
      BY <2>2, <3>1, <3>2 DEF ValuesHold
    <3> QED BY <3>1, <3>2, <3>3, <3>4, <3>5
  <2> QED BY <2>1, <2>2
<1> QED BY <1>2, <1>3 DEF ReadingsHold

\* What is written is read again where only a request changes.
LEMMA RequestChanges ==
    ASSUME AttributeInv, NEW p \in Clerk, NEW r \in DeskRequests,
           desk' = [desk EXCEPT ![p] = r], late' \in [Clerk -> SUBSET Written],
           \A q \in Clerk : q # p => late'[q] = late[q],
           r.step # "idle" => late'[p] = late[p],
           UNCHANGED <<scene, rows, members, chosen, outdated>>,
           r.step \in {"named", "create"} => CreateHolds(p, r),
           r.step = "edit" => EditHolds(p, r),
           r.step = "delete" => ~InUse(r.entry),
           r.step \in {"values", "checked"} => ValuesHold(p, r),
           r.step \in {"named", "create"} =>
              \A q \in Clerk : \A row \in Row :
                 /\ q # p /\ desk[q].step \in {"named", "create"} /\ desk[q].row = row
                 /\ Steady(q) /\ Steady(p) /\ Ident(row) = Ident(r.row)
                 => row.code = r.row.code
    PROVE  AttributeInv'
<1> USE DEF AttributeInv
<1>1. AttributeTypes'
  BY DEF AttributeTypes
<1>2. EntriesApart'
  <2>1. \A a, b : Apart(a, b) => Apart(a, b)'
    BY ApartStays
  <2>2. Listed' = Listed /\ \A e : Others(e)' = Others(e)
    BY DEF Listed, Others
  <2>3. \A e \in Listed : NameFits(rows[e].name)'
    BY DEF EntriesApart, NameFits, kind
  <2> QED BY <2>1, <2>2, <2>3 DEF EntriesApart
<1>3. GoodsHold'
  BY DEF GoodsHold, GoodsKeepTheirValues, VariantsDiffer, Listed, Crossed, kind
<1>4. desk'[p] = r /\ \A q \in Clerk : q # p => desk'[q] = desk[q]
  BY DEF AttributeTypes
<1>5. \A q \in Clerk : desk'[q].step # "idle" => late'[q] = late[q]
  BY <1>4
<1>6. ASSUME NEW q \in Clerk, NEW x \in DeskRequests, x.step # "idle", late'[q] = late[q]
      PROVE  /\ x.step \in {"named", "create"} /\ CreateHolds(q, x) => CreateHolds(q, x)'
             /\ x.step = "edit" /\ EditHolds(q, x) => EditHolds(q, x)'
             /\ ~InUse(x.entry) => ~InUse(x.entry)'
             /\ ValuesHold(q, x) => ValuesHold(q, x)'
  <2>1. Listed' = Listed /\ \A e : Others(e)' = Others(e)
    BY DEF Listed, Others
  <2>2. \A a : (NameFits(a)' <=> NameFits(a)) /\ (NameKey(a)' = NameKey(a))
    BY DEF NameFits, NameKey, kind
  <2>3. \A a : Ident(a)' = Ident(a) /\ FirstCode(a)' = FirstCode(a) /\ SecondCode(a)' = SecondCode(a)
    BY DEF Ident, FirstCode, SecondCode, NameKey, kind
  <2>4. Steady(q)' <=> Steady(q)
    BY <1>6 DEF Steady, Coded, kind
  <2>5. \A a, b : IsTwin(a, b)' <=> IsTwin(a, b)
    BY DEF IsTwin, NameKey, kind
  <2>6. \A a : CodesHold(q, a)' <=> CodesHold(q, a)
    BY <2>1, <2>3, <2>4 DEF CodesHold, Coded, Crossed, kind
  <2>7. CreateHolds(q, x) => CreateHolds(q, x)'
    BY <1>6, <2>1, <2>2, <2>5, <2>6 DEF CreateHolds, kind
  <2>8. EditHolds(q, x) => EditHolds(q, x)'
    BY <1>6, <2>1, <2>2 DEF EditHolds, NameTaken, InUse, kind
  <2>9. ValuesHold(q, x) => ValuesHold(q, x)'
    BY <1>6, <2>1 DEF ValuesHold, SameVariants, kind
  <2>10. ~InUse(x.entry) => ~InUse(x.entry)'
    BY DEF InUse
  <2> QED BY <2>7, <2>8, <2>9, <2>10
<1>7. ASSUME NEW q \in Clerk
      PROVE  LET x == desk[q]
             IN  /\ x.step \in {"named", "create"} => CreateHolds(q, x)
                 /\ x.step = "edit" => EditHolds(q, x)
                 /\ x.step = "delete" /\ late[q] = {} => ~InUse(x.entry)
                 /\ x.step \in {"values", "checked"} => ValuesHold(q, x)
             '
  <2>1. PICK x \in DeskRequests : x = desk'[q]
    BY <1>1 DEF AttributeTypes
  <2>2. x.step = "idle" \/ late'[q] = late[q]
    BY <1>5, <2>1
  <2>3. /\ x.step \in {"named", "create"} => CreateHolds(q, x)
        /\ x.step = "edit" => EditHolds(q, x)
        /\ x.step = "delete" /\ late[q] = {} => ~InUse(x.entry)
        /\ x.step \in {"values", "checked"} => ValuesHold(q, x)
    <3>1. CASE q = p
      BY <1>4, <2>1, <3>1
    <3>2. CASE q # p
      <4>1. x = desk[q]
        BY <1>4, <2>1, <3>2
      <4> QED BY <4>1 DEF ReadingsHold
    <3> QED BY <3>1, <3>2
  <2>4. /\ x.step \in {"named", "create"} => CreateHolds(q, x)'
        /\ x.step = "edit" => EditHolds(q, x)'
        /\ x.step = "delete" /\ late'[q] = {} => ~InUse(x.entry)'
        /\ x.step \in {"values", "checked"} => ValuesHold(q, x)'
    BY <1>6, <2>2, <2>3
  <2> QED BY <2>1, <2>4
<1>8. OneCode'
  <2> SUFFICES ASSUME NEW q \in Clerk, NEW s \in Clerk,
                      desk'[q].step \in {"named", "create"}, Steady(q)', desk'[s].step \in {"named", "create"}, Steady(s)',
                      Ident(desk[q].row)' = Ident(desk[s].row)'
               PROVE  desk'[q].row.code = desk'[s].row.code
    BY DEF OneCode
  <2>1. PICK x \in DeskRequests, y \in DeskRequests : x = desk'[q] /\ y = desk'[s]
    BY <1>1 DEF AttributeTypes
  <2>2. x.step \in {"named", "create"} /\ y.step \in {"named", "create"} /\ x.row \in Row /\ y.row \in Row
    BY <2>1, RequestKinds DEF CreateRequests
  <2>3. Steady(q) /\ Steady(s)
    BY <1>5, <2>1, <2>2 DEF Steady, Coded, kind
  <2>4. Ident(x.row) = Ident(y.row)
    BY <2>1 DEF Ident, NameKey, kind
  <2>5. CASE q = p /\ s = p
    BY <2>5
  <2>6. CASE q # p /\ s # p
    BY <1>4, <2>1, <2>2, <2>3, <2>4, <2>6 DEF ReadingsHold, OneCode
  <2>7. CASE q = p /\ s # p
    BY <1>4, <2>1, <2>2, <2>3, <2>4, <2>7
  <2>8. CASE q # p /\ s = p
    BY <1>4, <2>1, <2>2, <2>3, <2>4, <2>8
  <2> QED BY <2>5, <2>6, <2>7, <2>8
<1> QED BY <1>1, <1>2, <1>3, <1>7, <1>8 DEF ReadingsHold

\* The same when a clerk who is free asks.
LEMMA Asks ==
    ASSUME AttributeInv, NEW p \in Clerk, NEW r \in DeskRequests, Request(p, r),
           r.step \in {"named", "create"} => CreateHolds(p, r),
           r.step = "edit" => EditHolds(p, r),
           r.step = "delete" => ~InUse(r.entry),
           r.step \in {"values", "checked"} => ValuesHold(p, r),
           r.step \in {"named", "create"} =>
              \A q \in Clerk : \A row \in Row :
                 /\ q # p /\ desk[q].step \in {"named", "create"} /\ desk[q].row = row
                 /\ Steady(q) /\ Steady(p) /\ Ident(row) = Ident(r.row)
                 => row.code = r.row.code
    PROVE  AttributeInv'
<1>1. /\ desk' = [desk EXCEPT ![p] = r]
      /\ UNCHANGED <<scene, rows, members, chosen, late, outdated>>
  BY DEF Request
<1>2. late' \in [Clerk -> SUBSET Written]
  BY <1>1 DEF AttributeInv, AttributeTypes
<1> QED BY <1>1, <1>2, RequestChanges

LEMMA DropRequestKeeps ==
    ASSUME AttributeInv, NEW p \in Clerk, DropRequest(p)
    PROVE  AttributeInv'
<1>1. /\ desk' = [desk EXCEPT ![p] = AtDesk] /\ late' = [late EXCEPT ![p] = {}]
      /\ UNCHANGED <<scene, rows, members, chosen, outdated>>
  BY DEF DropRequest
<1>2. late' \in [Clerk -> SUBSET Written] /\ \A q \in Clerk : q # p => late'[q] = late[q]
  BY <1>1 DEF AttributeInv, AttributeTypes
<1> QED BY <1>1, <1>2, AtDeskFits, RequestChanges

LEMMA CheckDescriptionKeeps ==
    ASSUME AttributeInv, NEW p \in Clerk, CheckDescription(p)
    PROVE  AttributeInv'
<1>1. PICK r \in DeskRequests : r = desk[p]
  BY DEF AttributeInv, AttributeTypes
<1>2. PICK x : x = [r EXCEPT !.step = "checked"]
  OBVIOUS
<1>3. r.step = "values" /\ r \in ValueRequests /\ r.values \subseteq Listed
      /\ SameVariants(r.member, r.values) = {}
  BY <1>1, RequestKinds DEF CheckDescription
<1>4. x \in ValueRequests /\ x.step = "checked" /\ x.member = r.member /\ x.values = r.values
  BY <1>2, <1>3 DEF ValueRequests
<1>5. desk' = [desk EXCEPT ![p] = x] /\ UNCHANGED <<scene, rows, members, chosen, late, outdated>>
  BY <1>1, <1>2 DEF CheckDescription
<1>6. ValuesHold(p, r)
  BY <1>1, <1>3 DEF AttributeInv, ReadingsHold
<1>7. ValuesHold(p, x)
  BY <1>3, <1>4, <1>6 DEF ValuesHold
<1>8. late' \in [Clerk -> SUBSET Written] /\ \A q \in Clerk : late'[q] = late[q]
  BY <1>5 DEF AttributeInv, AttributeTypes
<1> QED BY <1>4, <1>5, <1>7, <1>8, RequestChanges DEF DeskRequests

LEMMA AskRemovalKeeps ==
    ASSUME AttributeInv, NEW p \in Clerk, NEW e \in Entry, AskRemoval(p, e)
    PROVE  AttributeInv'
<1> DEFINE r == [step |-> "delete", entry |-> e]
<1>1. r \in DeskRequests /\ r.step = "delete" /\ r.entry = e
  BY DEF DeskRequests, RemoveRequests
<1>2. ~InUse(e) /\ Request(p, r)
  BY DEF AskRemoval
<1> HIDE DEF r
<1> QED BY <1>1, <1>2, Asks

LEMMA AskDescriptionKeeps ==
    ASSUME AttributeInv, NEW p \in Clerk, NEW u \in Member, NEW S \in SUBSET Entry,
           AskDescription(p, u, S)
    PROVE  AttributeInv'
<1> DEFINE r == [step |-> "values", member |-> u, values |-> S]
<1>1. r \in DeskRequests /\ r.step = "values" /\ r.member = u /\ r.values = S
  BY DEF DeskRequests, ValueRequests
<1>2. S \subseteq Listed /\ Request(p, r)
      /\ (kind = "definition" => \A e \in S : rows[e].mark = AxisMark <=> u \in Variant)
  BY DEF AskDescription
<1> HIDE DEF r
<1>3. ValuesHold(p, r)
  BY <1>1, <1>2 DEF ValuesHold
<1> QED BY <1>1, <1>2, <1>3, Asks

LEMMA AskCodeKeeps ==
    ASSUME AttributeInv, NEW p \in Clerk, NEW e \in Entry, NEW code \in Code, AskCode(p, e, code)
    PROVE  AttributeInv'
<1> DEFINE r == [step |-> "edit", entry |-> e, mark |-> Unset, name |-> Unset, code |-> code]
<1>1. r \in DeskRequests /\ r.step = "edit" /\ r.name = Unset /\ r.mark = Unset
  BY DEF DeskRequests, EditRequests
<1>2. Request(p, r)
  BY DEF AskCode
<1> HIDE DEF r
<1>3. EditHolds(p, r)
  BY <1>1, AttributesAssumption DEF EditHolds, AttributesAssumption
<1> QED BY <1>1, <1>2, <1>3, Asks

\* A name that was typed is stored as it may be.
LEMMA StoredNames ==
    ASSUME AttributeTypes, NEW typed \in Spelling, NEW mark
    PROVE  StoredName(typed, mark) \in Spelling /\ NameFits(StoredName(typed, mark))
BY SceneFits, AttributesAssumption DEF StoredName, NameFits, AttributesAssumption

LEMMA AskNameKeeps ==
    ASSUME AttributeInv, NEW p \in Clerk, NEW e \in Entry, NEW typed \in Spelling,
           AskName(p, e, typed)
    PROVE  AttributeInv'
<1>1. PICK name \in Spelling : name = StoredName(typed, Unset)
  BY StoredNames DEF AttributeInv
<1>2. NameFits(name)
  BY <1>1, StoredNames DEF AttributeInv
<1> DEFINE r == [step |-> "edit", entry |-> e, name |-> name, mark |-> Unset, code |-> Unset]
<1>3. /\ r \in DeskRequests /\ r.step = "edit" /\ r.name = name /\ r.mark = Unset
      /\ r.entry = e
  BY DEF DeskRequests, EditRequests
<1>4. Request(p, r) /\ ~NameTaken(e, name)
  BY <1>1 DEF AskName
<1> HIDE DEF r
<1>5. EditHolds(p, r)
  BY <1>2, <1>3, <1>4 DEF EditHolds
<1> QED BY <1>3, <1>4, <1>5, Asks

LEMMA AskMarkKeeps ==
    ASSUME AttributeInv, NEW p \in Clerk, NEW e \in Entry, NEW mark \in Mark, AskMark(p, e, mark)
    PROVE  AttributeInv'
<1>1. PICK name : name = IF rows[e].name \in Mark THEN mark ELSE Unset
  OBVIOUS
<1> DEFINE r == [step |-> "edit", entry |-> e, mark |-> mark, code |-> Unset, name |-> name]
<1>2. /\ r \in DeskRequests /\ r.step = "edit" /\ r.name = name /\ r.mark = mark
      /\ r.entry = e
  BY <1>1 DEF DeskRequests, EditRequests
<1>3. /\ Request(p, r) /\ e \in Listed /\ kind \in {"colour", "size", "definition"}
      /\ (kind = "colour" => \A f \in Others(e) : rows[f].mark # mark)
      /\ (kind = "definition" => ~InUse(e))
  BY <1>1 DEF AskMark
<1> HIDE DEF r
<1>4. name # Unset => name \in Mark /\ kind = "colour"
  BY <1>1, <1>3 DEF AttributeInv, EntriesApart, NameFits
<1>5. name \notin Spelling
  BY <1>1, AttributesAssumption DEF AttributesAssumption
<1>6. EditHolds(p, r)
  BY <1>2, <1>3, <1>4, <1>5 DEF EditHolds, NameFits
<1> QED BY <1>2, <1>3, <1>6, Asks

\* The codes of a new entry.
LEMMA CodesFit ==
    ASSUME AttributeTypes, NEW name \in Spelling \cup Mark, NEW mark \in Mark, NameFits(name),
           NEW row, row.name = name, row.mark = mark
    PROVE  /\ Codes(name, mark)[1] \in Code \cup {NoCode}
           /\ Codes(name, mark)[2] \in Code \cup {NoCode}
           /\ Coded => /\ Codes(name, mark) = <<FirstCode(row), SecondCode(row)>>
                       /\ FirstCode(row) # NoCode /\ FirstCode(row) # SecondCode(row)
<1>1. name \notin Mark => KeyOf[name] \in Spelling /\ NameKey(name) = KeyOf[name]
  BY KeysFit
<1>2. NoCode.base = Unset /\ Unset \notin Spelling \cup Mark
  BY AttributesAssumption DEF AttributesAssumption, NoCode
<1>3. CASE kind = "colour"
  <2>1. Codes(name, mark) = <<[base |-> mark, suffix |-> 1], [base |-> mark, suffix |-> 2]>>
    BY <1>3 DEF Codes
  <2>2. /\ FirstCode(row) = [base |-> mark, suffix |-> 1]
        /\ SecondCode(row) = [base |-> mark, suffix |-> 2]
    BY <1>3 DEF FirstCode, SecondCode, Ident
  <2>3. [base |-> mark, suffix |-> 1] \in Code /\ [base |-> mark, suffix |-> 2] \in Code
    BY DEF Code
  <2>4. FirstCode(row) # NoCode /\ FirstCode(row) # SecondCode(row)
    <3>1. FirstCode(row).base = mark /\ FirstCode(row).suffix = 1 /\ SecondCode(row).suffix = 2
      BY <2>2
    <3> QED BY <1>2, <3>1
  <2> QED BY <2>1, <2>2, <2>3, <2>4
<1>4. CASE kind = "season"
  <2>1. name \notin Mark
    BY <1>4 DEF NameFits
  <2>2. PICK key \in Spelling : key = KeyOf[name]
    BY <1>1, <2>1
  <2>3. Codes(name, mark) = <<[base |-> key, suffix |-> 1], [base |-> key, suffix |-> 2]>>
    BY <1>4, <2>2 DEF Codes
  <2>4. [base |-> key, suffix |-> 1] \in Code /\ [base |-> key, suffix |-> 2] \in Code
    BY DEF Code
  <2> QED BY <1>4, <2>3, <2>4 DEF Coded
<1>5. CASE kind = "size"
  <2>1. Codes(name, mark) = <<[base |-> name, suffix |-> 1], [base |-> name, suffix |-> mark]>>
    BY <1>5 DEF Codes
  <2>2. [base |-> name, suffix |-> 1] \in Code /\ [base |-> name, suffix |-> mark] \in Code
    BY DEF Code
  <2> QED BY <1>5, <2>1, <2>2 DEF Coded
<1>6. CASE kind \notin {"colour", "size", "season"}
  BY <1>6 DEF Codes, Coded
<1> QED BY <1>3, <1>4, <1>5, <1>6

LEMMA AskEntryKeeps ==
    ASSUME AttributeInv, NEW p \in Clerk, NEW typed \in Spelling \cup {Unset}, NEW mark \in Mark,
           AskEntry(p, typed, mark)
    PROVE  AttributeInv'
<1> USE DEF AttributeInv
<1>1. PICK name : name = StoredName(typed, mark)
  OBVIOUS
<1>2. name \in Spelling \cup Mark /\ NameFits(name)
  <2>1. CASE typed = Unset
    <3>1. kind = "colour"
      BY <2>1 DEF AskEntry
    <3> QED BY <1>1, <2>1, <3>1 DEF StoredName, NameFits
  <2>2. CASE typed \in Spelling
    BY <1>1, <2>2, StoredNames
  <2> QED BY <2>1, <2>2
<1>3. PICK one, two : one = Codes(name, mark)[1] /\ two = Codes(name, mark)[2]
  OBVIOUS
<1>4. PICK code : code = IF kind = "season" THEN NoCode ELSE IF Taken(one) THEN two ELSE one
  OBVIOUS
<1>5. PICK row : row = [name |-> name, mark |-> mark, code |-> code]
  OBVIOUS
<1>6. PICK step : step = IF kind = "season" THEN "named" ELSE "create"
  OBVIOUS
<1>16. PICK r : r = [step |-> step, row |-> row]
  OBVIOUS
<1>7. ~Taken(code) /\ (\A f \in Listed : ~IsTwin(row, rows[f])) /\ Request(p, r)
  BY <1>1, <1>3, <1>4, <1>5, <1>6, <1>16 DEF AskEntry, FreeCode
<1>8. row.name = name /\ row.mark = mark /\ row.code = code
  BY <1>5
<1>9. /\ one \in Code \cup {NoCode} /\ two \in Code \cup {NoCode}
      /\ Coded => one = FirstCode(row) /\ two = SecondCode(row) /\ one # NoCode /\ one # two
  BY <1>2, <1>3, <1>8, CodesFit
<1>10. row \in Row
  BY <1>2, <1>4, <1>5, <1>9 DEF Row
<1>11. /\ r \in DeskRequests /\ r.step \in {"named", "create"} /\ r.row = row
       /\ r.step = "named" => kind = "season"
  BY <1>6, <1>10, <1>16 DEF DeskRequests, CreateRequests
<1>12. Coded => \A f \in Listed : Ident(rows[f]) # Ident(row)
  BY <1>7 DEF Coded, IsTwin, Ident
<1>13. CodesHold(p, row)
  <2> SUFFICES ASSUME Coded
               PROVE  /\ code \in {one, two}
                      /\ code = one => \A f \in Listed : rows[f].code # one
                      /\ code = two => \E f \in Listed : rows[f].code = one
    BY <1>8, <1>9, <1>12 DEF CodesHold, Steady
  <2> QED BY <1>4, <1>7, <1>9 DEF Taken, Coded
<1>14. CreateHolds(p, r)
  BY <1>2, <1>7, <1>8, <1>11, <1>13 DEF CreateHolds
<1>15. ASSUME NEW q \in Clerk, NEW old \in Row, desk[q].step \in {"named", "create"}, desk[q].row = old,
              Steady(q), Ident(old) = Ident(row)
       PROVE  old.code = row.code
  <2>1. CodesHold(q, old) /\ Coded
    BY <1>15 DEF ReadingsHold, CreateHolds, Steady
  <2>2. FirstCode(old) = one /\ SecondCode(old) = two
    BY <1>9, <1>15, <2>1 DEF FirstCode, SecondCode
  <2>3. CASE old.code = one
    <3>1. \A f \in Listed : rows[f].code # one
      BY <1>12, <1>15, <2>1, <2>2, <2>3 DEF CodesHold
    <3>2. ~Taken(one)
      BY <3>1 DEF Taken
    <3> QED BY <1>4, <1>8, <2>1, <2>3, <3>2 DEF Coded
  <2>4. CASE old.code = two
    <3>1. Taken(one)
      BY <1>9, <1>15, <2>1, <2>2, <2>4 DEF CodesHold, Taken
    <3> QED BY <1>4, <1>8, <2>1, <2>4, <3>1 DEF Coded
  <2> QED BY <2>1, <2>2, <2>3, <2>4 DEF CodesHold
<1> QED BY <1>7, <1>11, <1>14, <1>15, Asks

LEMMA ChooseCodeKeeps ==
    ASSUME AttributeInv, NEW p \in Clerk, ChooseCode(p)
    PROVE  AttributeInv'
<1> USE DEF AttributeInv
<1>1. PICK old \in DeskRequests : old = desk[p] /\ old.step = "named"
  BY DEF AttributeTypes, ChooseCode
<1>2. CreateHolds(p, old) /\ old.row \in Row
  BY <1>1, RequestKinds DEF ReadingsHold, CreateRequests
<1>3. PICK named \in Row : named = old.row
  BY <1>2
<1>4. PICK code : code = FreeCode(named.name, named.mark)
  OBVIOUS
<1>5. PICK row : row = [named EXCEPT !.code = code]
  OBVIOUS
<1>6. PICK r : r = [step |-> "create", row |-> row]
  OBVIOUS
<1>7. desk' = [desk EXCEPT ![p] = r] /\ UNCHANGED <<scene, rows, members, chosen, late, outdated>>
  BY <1>1, <1>3, <1>4, <1>5, <1>6 DEF ChooseCode
<1>8. kind = "season" /\ NameFits(named.name) /\ ~Coded
  BY <1>1, <1>2, <1>3 DEF CreateHolds, Coded
<1>9. code \in Code \cup {NoCode}
  <2>1. named.name \in Spelling \cup Mark /\ named.mark \in Mark
    BY DEF Row
  <2> QED BY <1>4, <1>8, <2>1, CodesFit DEF FreeCode
<1>10. row \in Row /\ row.name = named.name
  BY <1>5, <1>9 DEF Row
<1>11. r \in DeskRequests /\ r.step = "create" /\ r.row = row
  BY <1>6, <1>10 DEF DeskRequests, CreateRequests
<1>12. CodesHold(p, row)
  BY <1>8 DEF CodesHold, Steady
<1>13. late[p] = {} => \A f \in Listed : ~IsTwin(row, rows[f])
  BY <1>2, <1>3, <1>8, <1>10 DEF CreateHolds, IsTwin
<1>14. CreateHolds(p, r)
  BY <1>8, <1>10, <1>11, <1>12, <1>13 DEF CreateHolds
<1>15. late' \in [Clerk -> SUBSET Written]
  BY <1>7 DEF AttributeTypes
<1> QED BY <1>7, <1>8, <1>11, <1>14, <1>15, RequestChanges DEF Steady

\* An entry is written among entries it is apart from.
LEMMA WriteApart ==
    ASSUME AttributeTypes, EntriesApart, scene' = scene, outdated \subseteq outdated',
           NEW e \in Entry, NEW row \in Row, rows' = [rows EXCEPT ![e] = row],
           NameFits(row.name), \A f \in Others(e) : \A b : b = rows[f] => Apart(row, b)'
    PROVE  /\ rows' \in [Entry -> {Free, Removed} \cup Row]
           /\ Listed' = Listed \cup {e} /\ EntriesApart'
<1>1. rows' \in [Entry -> {Free, Removed} \cup Row] /\ rows'[e] = row
      /\ \A f \in Entry : f # e => rows'[f] = rows[f]
  BY DEF AttributeTypes
<1>2. Listed' = Listed \cup {e}
  BY <1>1, RowIsListed DEF Listed
<1>3. \A f \in Listed' : NameFits(rows[f].name)'
  <2> SUFFICES ASSUME NEW f \in Listed' PROVE NameFits(rows[f].name)'
    OBVIOUS
  <2>1. PICK name : name = rows'[f].name
    OBVIOUS
  <2>2. NameFits(name)
    <3>1. CASE f = e
      BY <1>1, <2>1, <3>1
    <3>2. CASE f # e
      BY <1>1, <1>2, <2>1, <3>2 DEF EntriesApart, Listed
    <3> QED BY <3>1, <3>2
  <2>3. NameFits(name)'
    BY <2>2 DEF NameFits, kind
  <2> QED BY <2>1, <2>3
<1>4. ASSUME NEW f \in Listed', NEW g \in Listed', f # g
      PROVE  Apart(rows[f], rows[g])'
  <2>1. PICK a, b : a = rows'[f] /\ b = rows'[g]
    OBVIOUS
  <2>2. f \in Entry /\ g \in Entry
    BY <1>4 DEF Listed
  <2>3. CASE f = e
    <3>1. g \in Others(e) /\ b = rows[g] /\ a = row
      BY <1>1, <1>2, <1>4, <2>1, <2>2, <2>3 DEF Others
    <3> QED BY <2>1, <3>1
  <2>4. CASE g = e
    <3>1. f \in Others(e) /\ a = rows[f] /\ b = row
      BY <1>1, <1>2, <1>4, <2>1, <2>2, <2>4 DEF Others
    <3>2. Apart(b, a)'
      BY <3>1
    <3>3. Apart(a, b)'
      BY <3>2 DEF Apart, SameNamed
    <3> QED BY <2>1, <3>3
  <2>5. CASE f # e /\ g # e
    <3>1. a = rows[f] /\ b = rows[g] /\ f \in Listed /\ g \in Others(f)
      BY <1>1, <1>2, <1>4, <2>1, <2>2, <2>5 DEF Others
    <3>2. Apart(a, b)
      BY <3>1 DEF EntriesApart
    <3>3. Apart(a, b)'
      BY <3>2, ApartStays
    <3> QED BY <2>1, <3>3
  <2> QED BY <2>3, <2>4, <2>5
<1> QED BY <1>1, <1>2, <1>3, <1>4 DEF EntriesApart, Others

\* Names of colours, and grids with names of sizes, are unique.
LEMMA AdmittedNames ==
    ASSUME NEW e, NEW row, Admits(e, row), NEW f \in Others(e), NEW b, b = rows[f]
    PROVE  /\ row.code = NoCode \/ b.code # row.code
           /\ kind = "colour" => row.name # b.name
           /\ kind = "size" => row.mark # b.mark \/ row.name # b.name
BY DEF Admits

LEMMA CreateEntryKeeps ==
    ASSUME AttributeInv, NEW p \in Clerk, NEW e \in Entry, CreateEntry(p, e)
    PROVE  AttributeInv'
<1> USE DEF AttributeInv
<1>1. PICK r \in DeskRequests : r = desk[p]
  BY DEF AttributeTypes
<1>2. r.step = "create" /\ r.row \in Row /\ CreateHolds(p, r)
  BY <1>1, RequestKinds DEF CreateEntry, ReadingsHold, CreateRequests
<1>3. PICK row \in Row : row = r.row
  BY <1>2
<1>4. /\ rows[e] = Free /\ Admits(e, row) /\ rows' = [rows EXCEPT ![e] = row]
      /\ Finish(p, "create") /\ UNCHANGED <<members, chosen>>
  BY <1>1, <1>3 DEF CreateEntry
<1>5. "create" \in Written
  BY DEF Written
<1>6. /\ desk' \in [Clerk -> DeskRequests] /\ late' \in [Clerk -> SUBSET Written]
      /\ outdated' \subseteq Written /\ outdated \subseteq outdated' /\ scene' = scene
      /\ late[p] # {} => "create" \in outdated' /\ late[p] \subseteq outdated'
  BY <1>4, <1>5, FinishFits
<1>7. e \notin Listed /\ Others(e) = Listed
  BY <1>4 DEF Listed, Others
<1>8. ASSUME NEW f \in Others(e), NEW b, b = rows[f]
      PROVE  Apart(row, b)'
  <2>1. /\ row.code = NoCode \/ b.code # row.code
        /\ kind = "colour" => row.name # b.name
        /\ kind = "size" => row.mark # b.mark \/ row.name # b.name
    BY <1>4, <1>8, AdmittedNames
  <2>2. f \in Listed /\ b \in Row /\ b = rows[f] /\ NameFits(b.name) /\ NameFits(row.name)
    BY <1>2, <1>3, <1>7, <1>8, ListedRows DEF EntriesApart, CreateHolds
  <2>3. Coded /\ ~Crossed({"edit", "delete"})' => Ident(row) # Ident(b)
    <3> SUFFICES ASSUME Coded, ~Crossed({"edit", "delete"})', Ident(row) = Ident(b) PROVE FALSE
      OBVIOUS
    <3>1. Steady(p) /\ ~Crossed({"edit", "delete"})
      BY <1>6 DEF Steady, Crossed
    <3>2. b.code = row.code
      BY <1>2, <1>3, <2>2, <3>1 DEF CreateHolds, CodesHold
    <3>3. row.code # NoCode
      <4>1. row.name \in Spelling \cup Mark /\ row.mark \in Mark
        BY DEF Row
      <4>2. /\ FirstCode(row).base = Ident(row) /\ SecondCode(row).base = Ident(row)
        BY DEF FirstCode, SecondCode
      <4>3. Ident(row) \in Spelling \cup Mark
        BY <4>1, KeysFit DEF Ident
      <4>4. row.code \in {FirstCode(row), SecondCode(row)}
        BY <1>2, <1>3 DEF CreateHolds, CodesHold
      <4>5. NoCode.base = Unset /\ Unset \notin Spelling \cup Mark
        BY AttributesAssumption DEF AttributesAssumption, NoCode
      <4> QED BY <4>2, <4>3, <4>4, <4>5
    <3> QED BY <2>1, <3>2, <3>3
  <2>4. ~Crossed({"create", "edit"})' => ~IsTwin(row, b)
    BY <1>2, <1>3, <1>6, <2>2 DEF CreateHolds, Crossed
  <2>5. kind = "option" /\ ~Crossed({"create", "edit"})' => row.mark # b.mark \/ ~SameNamed(row, b)
    BY <2>4 DEF IsTwin, SameNamed
  <2>6. kind \in {"season", "definition"} /\ ~Crossed({"create", "edit"})' => ~SameNamed(row, b)
    BY <2>4 DEF IsTwin, SameNamed
  <2>7. kind = "colour" /\ ~Crossed({"create", "edit"})' => ~SameNamed(row, b)
    <3> SUFFICES ASSUME kind = "colour", ~Crossed({"create", "edit"})', SameNamed(row, b) PROVE FALSE
      OBVIOUS
    <3>1. b.mark # row.mark /\ row.name = row.mark
      BY <2>4 DEF IsTwin, SameNamed
    <3>2. row.name \in Mark /\ b.name \in Spelling \cup Mark
      BY <2>2, <3>1 DEF Row
    <3>3. row.name = b.name
      BY <3>2, KeysFit DEF SameNamed
    <3> QED BY <2>1, <3>3
  <2> QED BY <1>6, <2>1, <2>3, <2>5, <2>6, <2>7 DEF Apart, SameNamed, Coded, Ident, NameKey, kind
<1>9. NameFits(row.name)
  BY <1>2, <1>3 DEF CreateHolds
<1>10. /\ rows' \in [Entry -> {Free, Removed} \cup Row]
       /\ Listed' = Listed \cup {e} /\ EntriesApart'
  BY <1>4, <1>6, <1>8, <1>9, WriteApart
<1>11. AttributeTypes'
  BY <1>4, <1>6, <1>10 DEF AttributeTypes
<1>12. ReadingsHold'
  <2>1. ASSUME NEW q \in Clerk, NEW old \in Row, q # p, desk[q].step \in {"named", "create"}, desk[q].row = old
        PROVE  CodesHold(q, old)'
    <3>1. CodesHold(q, old)
      BY <2>1 DEF ReadingsHold, CreateHolds
    <3>2. late'[q] = late[q] \cup {"create"}
      BY <1>4, <1>5, <2>1, AtDeskFits, FinishFits
    <3>3. Steady(q)' <=> Steady(q)
      BY <1>6, <3>2 DEF Steady, Coded, kind
    <3>4. \A a : Ident(a)' = Ident(a) /\ FirstCode(a)' = FirstCode(a) /\ SecondCode(a)' = SecondCode(a)
      BY <1>6 DEF Ident, FirstCode, SecondCode, NameKey, kind
    <3>5. /\ rows'[e] = row /\ \A f \in Listed : rows'[f] = rows[f]
      BY <1>4, <1>7 DEF AttributeTypes, Listed
    <3>6. Steady(q) /\ ~Crossed({"edit", "delete"})' /\ Ident(row) = Ident(old) => row.code = old.code
      <4> SUFFICES ASSUME Steady(q), ~Crossed({"edit", "delete"})', Ident(row) = Ident(old)
                   PROVE  row.code = old.code
        OBVIOUS
      <4>1. Steady(p)
        BY <1>6 DEF Steady, Crossed
      <4> QED BY <1>1, <1>2, <1>3, <2>1, <4>1 DEF ReadingsHold, OneCode
    <3>7. Steady(q) /\ old.code = FirstCode(old) /\ row.code = old.code => Ident(row) = Ident(old)
      <4> SUFFICES ASSUME Coded, old.code = FirstCode(old), row.code = old.code
                   PROVE  Ident(row) = Ident(old)
        BY DEF Steady
      <4>1. row.code \in {FirstCode(row), SecondCode(row)}
        BY <1>2, <1>3 DEF CreateHolds, CodesHold
      <4>2. /\ FirstCode(row).base = Ident(row) /\ SecondCode(row).base = Ident(row)
            /\ FirstCode(old).base = Ident(old)
        BY DEF FirstCode, SecondCode
      <4> QED BY <4>1, <4>2
    <3>8. ~Crossed({"edit", "delete"})' => ~Crossed({"edit", "delete"})
      BY <1>6 DEF Crossed
    <3>9. Coded' <=> Coded
      BY <1>6 DEF Coded, kind
    <3> QED BY <1>10, <3>1, <3>3, <3>4, <3>5, <3>6, <3>7, <3>8, <3>9 DEF CodesHold
  <2>2. \A q \in Clerk : q # p /\ desk[q].step = "checked" => desk[q].values \subseteq Listed'
    <3> SUFFICES ASSUME NEW q \in Clerk, desk[q].step = "checked" PROVE desk[q].values \subseteq Listed
      BY <1>10
    <3> QED BY DEF ReadingsHold, ValuesHold
  <2> QED BY <1>4, <1>5, <2>1, <2>2, ReadingsStay
<1>13. GoodsHold'
  <2>1. \A u \in Member : e \notin members[u] /\ members[u] \subseteq Listed
    BY <1>7 DEF GoodsHold
  <2>2. \A f \in Listed : rows'[f] = rows[f]
    BY <1>4, <1>7 DEF AttributeTypes, Listed
  <2>3. \A u \in Member : members'[u] \subseteq Listed'
    BY <1>4, <1>10, <2>1
  <2>4. GoodsKeepTheirValues'
    BY <1>4, <1>6 DEF GoodsHold, GoodsKeepTheirValues, Crossed
  <2>5. VariantsDiffer'
    BY <1>4, <1>6, <2>1, <2>2 DEF GoodsHold, VariantsDiffer, Crossed, kind
  <2> QED BY <2>3, <2>4, <2>5 DEF GoodsHold
<1> QED BY <1>10, <1>11, <1>12, <1>13

LEMMA EditEntryKeeps ==
    ASSUME AttributeInv, NEW p \in Clerk, EditEntry(p)
    PROVE  AttributeInv'
<1> USE DEF AttributeInv
<1>1. PICK r \in DeskRequests : r = desk[p]
  BY DEF AttributeTypes
<1>2. r.step = "edit" /\ r \in EditRequests /\ EditHolds(p, r)
  BY <1>1, RequestKinds DEF EditEntry, ReadingsHold
<1>3. /\ r.entry \in Entry /\ r.name \in Spelling \cup Mark \cup {Unset}
      /\ r.mark \in Mark \cup {Unset} /\ r.code \in Code \cup {Unset}
  BY <1>2 DEF EditRequests
<1>4. PICK e \in Entry : e = r.entry
  BY <1>3
<1>5. PICK old \in Row : old = rows[e] /\ e \in Listed
  BY <1>1, <1>4, ListedRows DEF EditEntry
<1>6. PICK row : row = [name |-> IF r.name = Unset THEN old.name ELSE r.name,
                        mark |-> IF r.mark = Unset THEN old.mark ELSE r.mark,
                        code |-> IF r.code = Unset THEN old.code ELSE r.code]
  OBVIOUS
<1>7. /\ Admits(e, row) /\ rows' = [rows EXCEPT ![e] = row]
      /\ Finish(p, "edit") /\ UNCHANGED <<members, chosen>>
  BY <1>1, <1>4, <1>5, <1>6 DEF EditEntry
<1>8. "edit" \in Written
  BY DEF Written
<1>9. /\ desk' \in [Clerk -> DeskRequests] /\ late' \in [Clerk -> SUBSET Written]
      /\ outdated' \subseteq Written /\ outdated \subseteq outdated' /\ scene' = scene
      /\ late[p] # {} => "edit" \in outdated'
      /\ \A q \in Clerk \ {p} : desk[q] # AtDesk => "edit" \in late'[q]
  BY <1>7, <1>8, FinishFits
<1>10. /\ row \in Row
       /\ row.name = IF r.name = Unset THEN old.name ELSE r.name
       /\ row.mark = IF r.mark = Unset THEN old.mark ELSE r.mark
  BY <1>3, <1>6 DEF Row
<1>11. NameFits(row.name)
  BY <1>2, <1>5, <1>10 DEF EditHolds, EntriesApart
<1>12. ASSUME NEW f \in Others(e), NEW b, b = rows[f]
       PROVE  Apart(row, b)'
  <2>1. /\ kind = "colour" => row.name # b.name
        /\ kind = "size" => row.mark # b.mark \/ row.name # b.name
    BY <1>7, <1>12, AdmittedNames
  <2>2. f \in Listed /\ b \in Row /\ Apart(old, b) /\ NameFits(b.name)
    BY <1>5, <1>12, ListedRows DEF EntriesApart, Others
  <2>3. CASE late[p] # {}
    <3>1. Crossed({"edit", "delete"})' /\ Crossed({"create", "edit"})'
      BY <1>9, <2>3 DEF Crossed
    <3> QED BY <1>9, <2>1, <3>1 DEF Apart, kind
  <2>4. CASE late[p] = {}
    <3>1. /\ r.name \in Spelling => ~NameTaken(e, r.name)
          /\ kind = "colour" /\ r.mark # Unset => b.mark # r.mark
      BY <1>2, <1>4, <1>12, <2>4 DEF EditHolds
    <3>2. r.name \in Spelling /\ (kind \in {"size", "option"} => b.mark = old.mark)
             => NameKey(b.name) # NameKey(row.name)
      <4>1. r.name \in Spelling => row.name = r.name
        BY <1>10, AttributesAssumption DEF AttributesAssumption
      <4> QED BY <1>5, <1>12, <3>1, <4>1 DEF NameTaken
    <3>3. r.name = Unset => row.name = old.name
      BY <1>10
    <3>4. kind # "colour" => r.name \in Spelling \cup {Unset}
      BY <1>2, <1>3 DEF EditHolds, NameFits
    <3>5. kind = "colour" /\ r.name \in Mark => ~SameNamed(row, b)
      <4> SUFFICES ASSUME kind = "colour", r.name \in Mark, SameNamed(row, b) PROVE FALSE
        OBVIOUS
      <4>1. row.name \in Mark /\ b.name \in Spelling \cup Mark
        BY <1>10, <2>2, AttributesAssumption DEF Row, AttributesAssumption
      <4>2. row.name = b.name
        BY <4>1, KeysFit DEF SameNamed
      <4> QED BY <2>1, <4>2
    <3>6. kind \in {"colour", "definition", "season"} /\ r.name # Unset => ~SameNamed(row, b)
      BY <1>3, <3>2, <3>4, <3>5 DEF SameNamed
    <3>7. kind = "option" => row.mark = old.mark
      BY <1>2, <1>10 DEF EditHolds
    <3>8. kind = "option" /\ r.name # Unset /\ row.mark = b.mark => ~SameNamed(row, b)
      BY <1>3, <3>2, <3>4, <3>7 DEF SameNamed
    <3>9. Coded /\ ~Crossed({"edit", "delete"})  => Ident(row) # Ident(b)
      BY <1>10, <2>2, <3>1 DEF Apart, Ident, Coded
    <3>10. Apart(row, b)
      BY <2>1, <2>2, <3>3, <3>6, <3>7, <3>8, <3>9 DEF Apart, SameNamed
    <3> QED BY <1>9, <3>10, ApartStays
  <2> QED BY <2>3, <2>4
<1>13. /\ rows' \in [Entry -> {Free, Removed} \cup Row]
       /\ Listed' = Listed \cup {e} /\ EntriesApart'
  BY <1>7, <1>9, <1>10, <1>11, <1>12, WriteApart
<1>14. AttributeTypes'
  BY <1>7, <1>9, <1>13 DEF AttributeTypes
<1>15. ReadingsHold'
  <2>1. ASSUME NEW q \in Clerk, NEW new \in Row, q # p, desk[q].step \in {"named", "create"}, desk[q].row = new
        PROVE  CodesHold(q, new)'
    <3>1. CodesHold(q, new)
      BY <2>1 DEF ReadingsHold, CreateHolds
    <3>2. ~Steady(q)'
      BY <1>9, <2>1, AtDeskFits DEF Steady
    <3>3. Coded => new.code \in {FirstCode(new), SecondCode(new)}
      BY <3>1 DEF CodesHold
    <3>4. (Coded => new.code \in {FirstCode(new), SecondCode(new)})'
      BY <1>9, <3>3 DEF Coded, FirstCode, SecondCode, Ident, NameKey, kind
    <3> QED BY <3>2, <3>4 DEF CodesHold
  <2>2. \A q \in Clerk : q # p /\ desk[q].step = "checked" => desk[q].values \subseteq Listed'
    BY <1>13 DEF ReadingsHold, ValuesHold
  <2> QED BY <1>7, <1>8, <2>1, <2>2, ReadingsStay
<1>16. GoodsHold'
  <2>1. Listed' = Listed
    BY <1>5, <1>13
  <2>2. \A f \in Entry : f # e => rows'[f] = rows[f]
    BY <1>7
  <2>3. GoodsKeepTheirValues'
    BY <1>7, <1>9 DEF GoodsHold, GoodsKeepTheirValues, Crossed
  <2>4. kind = "definition" /\ ~Crossed({"assign", "edit"})' =>
           \A u \in Member : \A f \in members[u] : rows'[f].mark = rows[f].mark
    <3> SUFFICES ASSUME kind = "definition", late[p] = {}, NEW u \in Member, e \in members[u]
                 PROVE  rows'[e].mark = rows[e].mark
      BY <1>9, <2>2 DEF Crossed, AttributeTypes
    <3>1. r.mark = Unset
      BY <1>2, <1>4 DEF EditHolds, InUse
    <3> QED BY <1>5, <1>7, <1>10, <3>1 DEF AttributeTypes
  <2>5. /\ VariantsDiffer
        /\ ~Crossed({"assign", "edit"})' => ~Crossed({"assign", "edit"})
        /\ ~Crossed({"assign", "delete"})' => ~Crossed({"assign", "delete"})
    BY <1>9 DEF GoodsHold, Crossed
  <2>6. VariantsDiffer'
    <3>1. (kind = "option" /\ ~Crossed({"assign", "delete"}) =>
             \A u, w \in Active : u # w /\ members[u] # {} => members[u] # members[w])'
      BY <1>7, <1>9, <2>5 DEF VariantsDiffer, kind
    <3>2. (kind = "definition" /\ ~Crossed({"assign", "edit"}) =>
             \A u \in Member : \A f \in members[u] : rows[f].mark = AxisMark <=> u \in Variant)'
      BY <1>7, <1>9, <2>4, <2>5 DEF VariantsDiffer, kind
    <3> QED BY <3>1, <3>2 DEF VariantsDiffer
  <2> QED BY <1>7, <2>1, <2>3, <2>6 DEF GoodsHold
<1> QED BY <1>13, <1>14, <1>15, <1>16

\* A write that is no creation or edit: no code of a request is in question.
LEMMA CodesStay ==
    ASSUME AttributeInv, NEW p \in Clerk, NEW what \in {"delete", "assign"}, Finish(p, what),
           what = "assign" => rows' = rows,
           NEW q \in Clerk, NEW row \in Row, q # p, desk[q].step \in {"named", "create"}, desk[q].row = row
    PROVE  CodesHold(q, row)'
<1> USE DEF AttributeInv
<1>1. what \in Written
  BY DEF Written
<1>2. /\ scene' = scene /\ outdated \subseteq outdated' /\ late'[q] = late[q] \cup {what}
  BY <1>1, AtDeskFits, FinishFits
<1>3. CodesHold(q, row)
  BY DEF ReadingsHold, CreateHolds
<1>4. \A a : Ident(a)' = Ident(a) /\ FirstCode(a)' = FirstCode(a) /\ SecondCode(a)' = SecondCode(a)
  BY <1>2 DEF Ident, FirstCode, SecondCode, NameKey, kind
<1>5. Coded' <=> Coded
  BY <1>2 DEF Coded, kind
<1>6. CASE what = "delete"
  <2>1. ~Steady(q)'
    BY <1>2, <1>6 DEF Steady
  <2> QED BY <1>3, <1>4, <1>5, <2>1 DEF CodesHold
<1>7. CASE what = "assign"
  <2>1. (Steady(q)' => Steady(q)) /\ (~Crossed({"edit", "delete"})' => ~Crossed({"edit", "delete"}))
    BY <1>2, <1>5 DEF Steady, Crossed
  <2>2. Listed' = Listed /\ rows' = rows
    BY <1>7 DEF Listed
  <2> QED BY <1>3, <1>4, <1>5, <2>1, <2>2 DEF CodesHold
<1> QED BY <1>6, <1>7

LEMMA RemoveEntryKeeps ==
    ASSUME AttributeInv, NEW p \in Clerk, RemoveEntry(p)
    PROVE  AttributeInv'
<1> USE DEF AttributeInv
<1>1. PICK r \in DeskRequests : r = desk[p]
  BY DEF AttributeTypes
<1>2. PICK e : e = r.entry
  OBVIOUS
<1>3. /\ r.step = "delete" /\ e \in Listed
      /\ \A q \in Clerk : desk[q].step = "checked" => e \notin desk[q].values
      /\ rows' = [rows EXCEPT ![e] = Removed]
      /\ members' = [u \in Member |-> members[u] \ {e}]
      /\ Finish(p, "delete") /\ chosen' = chosen
  BY <1>1, <1>2 DEF RemoveEntry
<1>4. "delete" \in Written /\ e \in Entry
  BY <1>3 DEF Written, Listed
<1>5. /\ desk' \in [Clerk -> DeskRequests] /\ late' \in [Clerk -> SUBSET Written]
      /\ outdated' \subseteq Written /\ outdated \subseteq outdated' /\ scene' = scene
      /\ late[p] # {} => "delete" \in outdated'
  BY <1>3, <1>4, FinishFits
<1>6. /\ rows' \in [Entry -> {Free, Removed} \cup Row]
      /\ Listed' = Listed \ {e} /\ \A f \in Listed' : rows'[f] = rows[f]
  BY <1>3, <1>4 DEF AttributeTypes, Listed
<1>7. AttributeTypes'
  <2>1. members' \in [Member -> SUBSET Entry]
    BY <1>3 DEF AttributeTypes
  <2> QED BY <1>3, <1>5, <1>6, <2>1 DEF AttributeTypes
<1>8. EntriesApart'
  <2>1. ASSUME NEW f \in Listed' PROVE NameFits(rows[f].name)'
    <3>1. PICK name : name = rows'[f].name
      OBVIOUS
    <3>2. NameFits(name)
      BY <1>6, <2>1, <3>1 DEF EntriesApart
    <3>3. NameFits(name)'
      BY <1>5, <3>2 DEF NameFits, kind
    <3> QED BY <3>1, <3>3
  <2>2. ASSUME NEW f \in Listed', NEW g \in Others(f)' PROVE Apart(rows[f], rows[g])'
    <3>1. PICK a, b : a = rows'[f] /\ b = rows'[g]
      OBVIOUS
    <3>2. Apart(a, b)
      BY <1>6, <2>2, <3>1 DEF EntriesApart, Others
    <3>3. Apart(a, b)'
      BY <1>5, <3>2, ApartStays
    <3> QED BY <3>1, <3>3
  <2> QED BY <2>1, <2>2 DEF EntriesApart
<1>9. ReadingsHold'
  <2>1. \A q \in Clerk : \A row \in Row :
           q # p /\ desk[q].step \in {"named", "create"} /\ desk[q].row = row => CodesHold(q, row)'
    BY <1>3, CodesStay
  <2>2. \A q \in Clerk : q # p /\ desk[q].step = "checked" => desk[q].values \subseteq Listed'
    BY <1>3, <1>6 DEF ReadingsHold, ValuesHold
  <2> QED BY <1>3, <1>4, <2>1, <2>2, ReadingsStay
<1>10. GoodsHold'
  <2>1. late[p] = {} => members' = members
    <3> SUFFICES ASSUME late[p] = {} PROVE members' = members
      OBVIOUS
    <3>1. \A u \in Member : e \notin members[u]
      BY <1>1, <1>2, <1>3 DEF ReadingsHold, InUse
    <3>2. \A u \in Member : members[u] \ {e} = members[u]
      BY <3>1
    <3> QED BY <1>3, <3>2 DEF AttributeTypes
  <2>2. \A u \in Member : members'[u] \subseteq Listed' /\ members'[u] \subseteq members[u]
    BY <1>3, <1>6 DEF GoodsHold
  <2>3. GoodsKeepTheirValues'
    BY <1>3, <1>5, <2>1 DEF GoodsHold, GoodsKeepTheirValues, Crossed
  <2>4. (kind = "option" /\ ~Crossed({"assign", "delete"}) =>
           \A u, w \in Active : u # w /\ members[u] # {} => members[u] # members[w])'
    BY <1>5, <2>1 DEF GoodsHold, VariantsDiffer, Crossed, kind
  <2>5. (kind = "definition" /\ ~Crossed({"assign", "edit"}) =>
           \A u \in Member : \A f \in members[u] : rows[f].mark = AxisMark <=> u \in Variant)'
    BY <1>5, <1>6, <2>2 DEF GoodsHold, VariantsDiffer, Crossed, kind
  <2>6. VariantsDiffer'
    BY <2>4, <2>5 DEF VariantsDiffer
  <2> QED BY <2>2, <2>3, <2>6 DEF GoodsHold
<1> QED BY <1>7, <1>8, <1>9, <1>10

\* A write of what a variant or a product is described with.
LEMMA AssignKeeps ==
    ASSUME AttributeInv, NEW p \in Clerk, Finish(p, "assign"), rows' = rows,
           NEW u \in Member, NEW S \in SUBSET Listed,
           members' = [members EXCEPT ![u] = S], chosen' = [chosen EXCEPT ![u] = S],
           kind = "option" /\ late[p] = {} => SameVariants(u, S) = {},
           kind = "definition" /\ late[p] = {} =>
              \A e \in S : rows[e].mark = AxisMark <=> u \in Variant
    PROVE  AttributeInv'
<1> USE DEF AttributeInv
<1>1. "assign" \in Written
  BY DEF Written
<1>2. /\ desk' \in [Clerk -> DeskRequests] /\ late' \in [Clerk -> SUBSET Written]
      /\ outdated' \subseteq Written /\ outdated \subseteq outdated' /\ scene' = scene
      /\ late[p] # {} => "assign" \in outdated'
  BY <1>1, FinishFits
<1>3. Listed' = Listed /\ S \subseteq Entry /\ \A e : Others(e)' = Others(e)
  BY DEF Listed, Others
<1>4. AttributeTypes'
  BY <1>2, <1>3 DEF AttributeTypes
<1>5. EntriesApart'
  <2>1. \A a, b : Apart(a, b) => Apart(a, b)'
    BY <1>2, ApartStays
  <2>2. \A e \in Listed : NameFits(rows[e].name)'
    BY <1>2 DEF EntriesApart, NameFits, kind
  <2> QED BY <1>3, <2>1, <2>2 DEF EntriesApart
<1>6. ReadingsHold'
  <2>1. \A q \in Clerk : \A row \in Row :
           q # p /\ desk[q].step \in {"named", "create"} /\ desk[q].row = row => CodesHold(q, row)'
    BY CodesStay
  <2>2. \A q \in Clerk : q # p /\ desk[q].step = "checked" => desk[q].values \subseteq Listed'
    BY <1>3 DEF ReadingsHold, ValuesHold
  <2> QED BY <1>1, <2>1, <2>2, ReadingsStay
<1>7. members'[u] = S /\ \A w \in Member : w # u => members'[w] = members[w]
  BY DEF AttributeTypes
<1>8. GoodsHold'
  <2>1. \A w \in Member : members'[w] \subseteq Listed'
    BY <1>3, <1>7 DEF GoodsHold
  <2>2. GoodsKeepTheirValues'
    <3>1. members = chosen => members' = chosen'
      OBVIOUS
    <3> QED BY <1>2, <3>1 DEF GoodsHold, GoodsKeepTheirValues, Crossed
  <2>3. (kind = "option" /\ ~Crossed({"assign", "delete"}) =>
           \A v, w \in Active : v # w /\ members[v] # {} => members[v] # members[w])'
    <3> SUFFICES ASSUME kind = "option", ~Crossed({"assign", "delete"})',
                        NEW v \in Active, NEW w \in Active, v # w, members'[v] # {}
                 PROVE  members'[v] # members'[w]
      BY <1>2 DEF kind
    <3>1. late[p] = {} /\ ~Crossed({"assign", "delete"})
      BY <1>2 DEF Crossed
    <3>2. Active \subseteq Variant /\ Variant \subseteq Member
      BY AttributesAssumption DEF AttributesAssumption
    <3>3. SameVariants(u, S) = {}
      BY <3>1
    <3>4. u \in Variant /\ S # {} => \A x \in Active \ {u} : members[x] # S
      BY <3>3 DEF SameVariants
    <3>5. members[v] # {} => members[v] # members[w]
      BY <3>1 DEF GoodsHold, VariantsDiffer
    <3>6. CASE v = u
      BY <1>7, <3>2, <3>4, <3>6
    <3>7. CASE w = u
      BY <1>7, <3>2, <3>4, <3>7
    <3>8. CASE v # u /\ w # u
      BY <1>7, <3>2, <3>5, <3>8
    <3> QED BY <3>6, <3>7, <3>8
  <2>4. (kind = "definition" /\ ~Crossed({"assign", "edit"}) =>
           \A v \in Member : \A f \in members[v] : rows[f].mark = AxisMark <=> v \in Variant)'
    <3> SUFFICES ASSUME kind = "definition", ~Crossed({"assign", "edit"})',
                        NEW v \in Member, NEW f \in members'[v]
                 PROVE  rows[f].mark = AxisMark <=> v \in Variant
      BY <1>2 DEF kind
    <3>1. late[p] = {} /\ ~Crossed({"assign", "edit"})
      BY <1>2 DEF Crossed
    <3> QED BY <1>7, <3>1 DEF GoodsHold, VariantsDiffer
  <2>5. VariantsDiffer'
    BY <2>3, <2>4 DEF VariantsDiffer
  <2> QED BY <2>1, <2>2, <2>5 DEF GoodsHold
<1> QED BY <1>4, <1>5, <1>6, <1>8

LEMMA AttributeSteps ==
    ASSUME AttributeInv, [AttributeNext]_attributeVars
    PROVE  AttributeInv'
<1> USE DEF AttributeInv
<1>1. ASSUME NEW p \in Clerk, NEW u \in scene.goods, NEW S \in SUBSET Entry, DescribeMember(p, u, S)
      PROVE  AttributeInv'
  <2>1. u \in Member
    BY SceneFits
  <2>2. /\ kind \in {"colour", "size", "season"} /\ S \subseteq Listed /\ Finish(p, "assign")
        /\ members' = [members EXCEPT ![u] = S] /\ chosen' = [chosen EXCEPT ![u] = S]
        /\ rows' = rows
    BY <1>1 DEF DescribeMember
  <2> QED BY <2>1, <2>2, AssignKeeps
<1>2. ASSUME NEW p \in Clerk, CommitDescription(p) PROVE AttributeInv'
  <2>1. PICK r \in DeskRequests : r = desk[p]
    BY DEF AttributeTypes
  <2>2. /\ r.step = "checked" /\ r \in ValueRequests /\ ValuesHold(p, r) /\ Finish(p, "assign")
        /\ members' = [members EXCEPT ![r.member] = r.values]
        /\ chosen' = [chosen EXCEPT ![r.member] = r.values]
        /\ rows' = rows
    BY <1>2, <2>1, RequestKinds DEF CommitDescription, ReadingsHold
  <2>3. r.member \in Member
    BY <2>2 DEF ValueRequests
  <2>4. /\ r.values \in SUBSET Listed
        /\ late[p] = {} => SameVariants(r.member, r.values) = {}
        /\ kind = "definition" /\ late[p] = {} =>
              \A e \in r.values : rows[e].mark = AxisMark <=> r.member \in Variant
    BY <2>2 DEF ValuesHold
  <2>5. PICK u \in Member, S \in SUBSET Listed : u = r.member /\ S = r.values
    BY <2>3, <2>4
  <2>6. /\ Finish(p, "assign") /\ rows' = rows
        /\ members' = [members EXCEPT ![u] = S] /\ chosen' = [chosen EXCEPT ![u] = S]
        /\ kind = "option" /\ late[p] = {} => SameVariants(u, S) = {}
        /\ kind = "definition" /\ late[p] = {} =>
              \A e \in S : rows[e].mark = AxisMark <=> u \in Variant
    BY <2>2, <2>4, <2>5
  <2> QED BY <2>6, AssignKeeps
<1>3. ASSUME NEW p \in Clerk, NEW s \in scene.names \cup {Unset}, NEW mark \in Mark,
             AskEntry(p, s, mark)
      PROVE  AttributeInv'
  BY <1>3, SceneFits, AskEntryKeeps
<1>4. ASSUME NEW p \in Clerk, NEW e \in Entry, NEW s \in scene.names, AskName(p, e, s)
      PROVE  AttributeInv'
  BY <1>4, SceneFits, AskNameKeeps
<1>5. ASSUME NEW p \in Clerk, NEW e \in Entry, NEW base \in scene.codes,
             AskCode(p, e, [base |-> base, suffix |-> 1])
      PROVE  AttributeInv'
  <2>1. [base |-> base, suffix |-> 1] \in Code
    BY SceneFits DEF Code
  <2> QED BY <1>5, <2>1, AskCodeKeeps
<1>6. ASSUME NEW p \in Clerk, NEW u \in scene.goods, NEW S \in SUBSET Entry, AskDescription(p, u, S)
      PROVE  AttributeInv'
  BY <1>6, SceneFits, AskDescriptionKeeps
<1>7. CASE AttributeNext
  BY <1>1, <1>2, <1>3, <1>4, <1>5, <1>6, <1>7, CreateEntryKeeps, AskMarkKeeps, AskRemovalKeeps,
     ChooseCodeKeeps, EditEntryKeeps, RemoveEntryKeeps, CheckDescriptionKeeps, DropRequestKeeps
     DEF AttributeNext
<1>8. CASE UNCHANGED attributeVars
  <2> USE <1>8 DEF attributeVars
  <2>1. AttributeTypes'
    BY DEF AttributeTypes
  <2>2. EntriesApart'
    BY DEF EntriesApart, Others, Listed, Apart, SameNamed, NameFits, Coded, Ident, NameKey, Crossed, kind
  <2>3. GoodsHold'
    BY DEF GoodsHold, GoodsKeepTheirValues, VariantsDiffer, Listed, Crossed, kind
  <2>4. ReadingsHold'
    BY DEF ReadingsHold, OneCode, CreateHolds, EditHolds, ValuesHold, CodesHold, Steady, Coded,
           Ident, FirstCode, SecondCode, NameKey, NameFits, NameTaken, IsTwin, InUse, SameVariants,
           Others, Listed, Crossed, kind
  <2> QED BY <2>1, <2>2, <2>3, <2>4
<1> QED BY <1>7, <1>8

LEMMA AttributesBegin == AttributeInit => AttributeInv
<1> SUFFICES ASSUME AttributeInit PROVE AttributeInv
  OBVIOUS
<1>1. AttributeTypes
  BY AtDeskFits DEF AttributeInit, AttributeTypes
<1>2. Listed = {}
  BY DEF AttributeInit, Listed
<1>3. EntriesApart
  BY <1>2 DEF EntriesApart
<1>4. ReadingsHold
  BY AtDeskFits DEF AttributeInit, ReadingsHold, OneCode
<1>5. GoodsHold
  BY AttributesAssumption
     DEF AttributesAssumption, AttributeInit, GoodsHold, GoodsKeepTheirValues, VariantsDiffer
<1> QED BY <1>1, <1>3, <1>4, <1>5 DEF AttributeInv

\* What the invariant says of the dictionaries.
LEMMA AttributesFollow == AttributeInv => AttributeTypeOK /\ AttributesAgree
<1> SUFFICES ASSUME AttributeInv PROVE AttributeTypeOK /\ AttributesAgree
  OBVIOUS
<1> USE DEF AttributeInv
<1>1. AttributeTypeOK
  <2>1. \A p \in Clerk : desk[p].step \in {"idle", "named", "create", "edit", "delete", "values", "checked"}
    BY RequestKinds DEF AttributeTypes
  <2> QED BY <2>1, ListedRows DEF AttributeTypes, AttributeTypeOK, Written
<1>2. NoTwins
  <2> SUFFICES ASSUME NEW e \in Listed, NEW f \in Others(e)
               PROVE  LET a == rows[e]
                          b == rows[f]
                          named == NameKey(a.name) = NameKey(b.name)
                      IN  /\ kind = "colour" /\ a.mark = b.mark => Crossed({"edit", "delete"})
                          /\ kind = "size" => ~(a.mark = b.mark /\ named)
                          /\ kind = "option" /\ a.mark = b.mark /\ named => Crossed({"create", "edit"})
                          /\ kind \in {"colour", "season", "definition"} /\ named => Crossed({"create", "edit"})
    BY DEF NoTwins, Pairs, Others
  <2>1. Apart(rows[e], rows[f])
    BY DEF EntriesApart
  <2>2. rows[e].name \in Spelling \cup Mark /\ rows[f].name \in Spelling \cup Mark
    BY ListedRows DEF Row, Others
  <2>3. kind = "size" => NameKey(rows[e].name) = rows[e].name /\ NameKey(rows[f].name) = rows[f].name
    BY <2>2, KeysFit DEF EntriesApart, NameFits, Others
  <2> QED BY <2>1, <2>3 DEF Apart, SameNamed, Coded, Ident
<1> QED BY <1>1, <1>2 DEF GoodsHold, AttributesAgree

-----------------------------------------------------------------------------
(* The settings of a company.                                              *)

Kind == {"tag", "cheque"}
Template == [Slot -> {"free", "plain", "default", "gone"}]
Company == [type : Business, flags : {Nothing} \cup SUBSET Flag]

Creates == [step : {"create", "creating"}, kind : Kind, seen : Template,
            rows : SUBSET Slot, default : BOOLEAN]
Makes == [step : {"make", "making"}, kind : Kind, seen : Template,
          rows : SUBSET Slot, slot : Slot]
Promotes == [step : {"promote", "promoting"}, seen : Template, slot : Slot]
Deletes == [step : {"delete"}, kind : {"cheque"}, slot : Slot, seen : Template]
Heals == [step : {"heal"}, kind : {"cheque"}, rows : SUBSET Slot, seen : Template]
Companies == [step : {"company"}, type : Business \cup {Nothing}, on : SUBSET Flag,
              off : SUBSET Flag, zone : Zone \cup {Nothing}, read : Company]
Profiles == [step : {"profile"}, zone : Zone \cup {Nothing}]
Zones == [step : {"zone"}, zone : Zone, read : Zone]
Stores == [step : {"store"}, zone : Zone \cup {Nothing}, read : Zone]
Shows == [step : {"show"}, read : Zone]
UnitErrands == [step : {"unit"}, unit : UnitKind, seen : [UnitKind -> 0 .. MaxUnits]]
Errands == {Doing} \cup Creates \cup Makes \cup Promotes \cup Deletes \cup Heals
             \cup Companies \cup Profiles \cup Zones \cup Stores \cup Shows
             \cup UnitErrands \cup [step : {"list"}]

SettingsTypes ==
    /\ topic \in Topics
    /\ templates \in [Kind -> Template]
    /\ company \in Company
    /\ profile \in Zone /\ cache \in Zone \cup {Nothing}
    /\ units \in [UnitKind -> 0 .. MaxUnits]
    /\ types \subseteq TypeName
    /\ errand \in [Owner -> Errands]
    /\ asked \in [type : Business, zone : Zone, on : SUBSET Flag, off : SUBSET Flag]
    /\ lapsed \in BOOLEAN
    /\ muddled \subseteq {"tag", "cheque", "company", "zone", "unit", "types"}

\* Templates are created and deleted, never brought back.
Ages(old, new) ==
    \A n \in Slot : (old[n] # "free" => new[n] # "free") /\ (old[n] = "gone" => new[n] = "gone")

\* What a request has read justifies what it will write, if nothing changes; the
\* templates a transaction clears are those it read, but for those gone since.
ErrandHolds(r) ==
    /\ r.step \in {"create", "creating"} =>
          r.default \/ Present(r.seen) # {}
    /\ r.step = "create" /\ r.kind = "cheque" /\ r.default => Present(r.seen) = {}
    /\ r.step \in {"create", "creating", "make", "making"} => Ages(r.seen, templates[r.kind])
    /\ r.step \in {"creating", "making"} =>
          \A n \in Present(r.seen) \ r.rows : templates[r.kind][n] = "gone"
    /\ r.step \in {"promote", "promoting", "heal"} => DefaultsOf(r.seen) = {}
    /\ r.step = "delete" => r.seen[r.slot] = "plain"
    /\ r.step = "company" => r.on \cap r.off = {}
    /\ r.step = "unit" => r.seen[r.unit] = 0

ErrandsHold == \A o \in Owner : ErrandHolds(errand[o])

Naming == \E o \in Owner : errand[o].step \in {"promote", "promoting"}

OneDefault(t) == \A m, n \in DefaultsOf(t) : m = n

DefaultHolds(k) ==
    k \notin muddled =>
        /\ OneDefault(templates[k])
        /\ Present(templates[k]) # {} =>
              DefaultsOf(templates[k]) # {} \/ (k = "tag" /\ (lapsed \/ Naming))

TemplatesHold ==
    /\ \A k \in Kind : DefaultHolds(k)
    /\ topic = "company" => \A k \in Kind : Present(templates[k]) = {}

CompanyHolds ==
    /\ "company" \notin muddled =>
          /\ company.type = asked.type
          /\ company.flags # Nothing =>
                asked.on \subseteq company.flags /\ asked.off \cap company.flags = {}
    /\ company.flags = Nothing => asked.on = {} /\ asked.off = {}

\* Who is about to store a zone has put it in the cache.
Storing(o) == errand[o].step = "store" /\ errand[o].zone # Nothing

ZoneHolds ==
    "zone" \notin muddled =>
        /\ profile = asked.zone
        /\ (\A o \in Owner : ~Storing(o)) => cache \in {Nothing, profile}
        /\ \A o \in Owner : Storing(o) => cache = errand[o].zone

SettingsInv ==
    /\ SettingsTypes /\ ErrandsHold /\ TemplatesHold /\ CompanyHolds /\ ZoneHolds
    /\ ListsAreWhole

LEMMA ErrandKinds ==
    ASSUME NEW r \in Errands
    PROVE  /\ r.step \in {"create", "creating"} => r \in Creates
           /\ r.step \in {"make", "making"} => r \in Makes
           /\ r.step \in {"promote", "promoting"} => r \in Promotes
           /\ r.step = "delete" => r \in Deletes
           /\ r.step = "heal" => r \in Heals
           /\ r.step = "company" => r \in Companies
           /\ r.step = "profile" => r \in Profiles
           /\ r.step = "zone" => r \in Zones
           /\ r.step = "store" => r \in Stores
           /\ r.step = "show" => r \in Shows
           /\ r.step = "unit" => r \in UnitErrands
BY DEF Errands, Doing, Creates, Makes, Promotes, Deletes, Heals, Companies, Profiles, Zones,
       Stores, Shows, UnitErrands

LEMMA DoingFits == Doing \in Errands /\ Doing.step = "idle"
BY DEF Doing, Errands

\* A set of slots whose elements are equal has one at most.
LEMMA AtMostOneSlot ==
    ASSUME NEW S, S \subseteq Slot, \A m, n \in S : m = n
    PROVE  Cardinality(S) <= 1
<1>1. CASE S = {}
  BY <1>1, FS_EmptySet
<1>2. CASE \E m \in S : S = {m}
  BY <1>2, FS_Singleton
<1>3. S = {} \/ \E m \in S : S = {m}
  OBVIOUS
<1> QED BY <1>1, <1>2, <1>3

\* What the invariant says of the settings.
LEMMA SettingsFollow == SettingsInv => SettingsTypeOK /\ SettingsStand
<1> SUFFICES ASSUME SettingsInv PROVE SettingsTypeOK /\ SettingsStand
  OBVIOUS
<1> USE DEF SettingsInv
<1>1. SettingsTypeOK
  <2>1. \A o \in Owner : errand[o] \in Errands
    BY DEF SettingsTypes
  <2>2. \A r \in Errands : r.step \in
          {"idle", "create", "make", "making", "creating", "promote", "promoting", "delete",
           "heal", "company", "profile", "zone", "store", "show", "unit", "list"}
    BY DEF Errands, Doing, Creates, Makes, Promotes, Deletes, Heals, Companies, Profiles,
           Zones, Stores, Shows, UnitErrands
  <2> QED BY <2>1, <2>2 DEF SettingsTypes, SettingsTypeOK, Kind, Template, Company
<1>2. TemplatesHaveDefault
  <2> SUFFICES ASSUME NEW k \in Kind, k \notin muddled
               PROVE  /\ Cardinality(DefaultsOf(templates[k])) <= 1
                      /\ Present(templates[k]) # {} =>
                            DefaultsOf(templates[k]) # {} \/ (k = "tag" /\ (lapsed \/ Naming))
    BY DEF TemplatesHaveDefault, Kind, Naming
  <2>1. OneDefault(templates[k])
    BY DEF TemplatesHold, DefaultHolds
  <2>2. Cardinality(DefaultsOf(templates[k])) <= 1
    BY <2>1, AtMostOneSlot DEF OneDefault, DefaultsOf
  <2> QED BY <2>2 DEF TemplatesHold, DefaultHolds
<1>3. CompanyAsAsked
  BY DEF CompanyAsAsked, CompanyHolds, ZoneHolds, Storing, ShownZone, ZoneUnread
<1> QED BY <1>1, <1>2, <1>3 DEF SettingsStand

LEMMA SettingsBegin == SettingsInit => SettingsInv
<1> SUFFICES ASSUME SettingsInit PROVE SettingsInv
  OBVIOUS
<1> USE DEF SettingsInit
<1>1. (CHOOSE b \in Business : TRUE) \in Business
  BY SettingsAssumption DEF SettingsAssumption
<1>2. SettingsTypes
  <2>1. templates \in [Kind -> Template] /\ units \in [UnitKind -> 0 .. MaxUnits]
    BY SettingsAssumption DEF SettingsAssumption, Kind, Template
  <2>2. company \in Company
           /\ asked \in [type : Business, zone : Zone, on : SUBSET Flag, off : SUBSET Flag]
    BY <1>1, SettingsAssumption DEF SettingsAssumption, Company
  <2>3. profile \in Zone /\ cache = Nothing /\ types = {} /\ lapsed = FALSE /\ muddled = {}
    BY SettingsAssumption DEF SettingsAssumption
  <2>4. errand \in [Owner -> Errands]
    BY DoingFits
  <2> QED BY <2>1, <2>2, <2>3, <2>4 DEF SettingsTypes
<1>3. ErrandsHold
  BY DoingFits DEF ErrandsHold, ErrandHolds
<1>4. TemplatesHold
  BY DEF TemplatesHold, DefaultHolds, OneDefault, Present, DefaultsOf, Kind
<1>5. CompanyHolds /\ ZoneHolds
  BY DoingFits DEF CompanyHolds, ZoneHolds, Storing
<1>6. ListsAreWhole
  BY DoingFits, SettingsAssumption DEF ListsAreWhole, SettingsAssumption
<1> QED BY <1>2, <1>3, <1>4, <1>5, <1>6 DEF SettingsInv

-----------------------------------------------------------------------------
(* Templates.                                                              *)

LEMMA NamingStays ==
    ASSUME SettingsTypes, NEW o \in Owner, NEW x, errand' = [errand EXCEPT ![o] = x],
           errand[o].step \notin {"promote", "promoting"}
    PROVE  Naming => Naming'
BY DEF Naming, SettingsTypes

LEMMA DefaultStays ==
    ASSUME NEW k, DefaultHolds(k), templates'[k] = templates[k], muddled \subseteq muddled',
           k = "tag" /\ (lapsed \/ Naming) => lapsed' \/ Naming'
    PROVE  DefaultHolds(k)'
BY DEF DefaultHolds

LEMMA MuddledGrows ==
    ASSUME SettingsTypes, NEW part \in {"tag", "cheque", "company", "zone", "unit", "types"},
           NEW changed, Muddling(part, changed)
    PROVE  /\ muddled \subseteq muddled'
           /\ muddled' \subseteq {"tag", "cheque", "company", "zone", "unit", "types"}
           /\ changed => part \in muddled'
BY DEF Muddling, SettingsTypes

\* A step that changes templates and the request of one owner.
LEMMA TemplatesChange ==
    ASSUME SettingsInv, NEW o \in Owner, NEW x \in Errands, topic # "company",
           errand' = [errand EXCEPT ![o] = x],
           errand[o].step \notin {"store", "list"}, x.step \notin {"store", "list"},
           templates' \in [Kind -> Template],
           \A k \in Kind : Ages(templates[k], templates'[k]),
           TemplatesOnly, lapsed' \in BOOLEAN, muddled \subseteq muddled',
           muddled' \subseteq {"tag", "cheque", "company", "zone", "unit", "types"},
           ErrandHolds(x)', \A k \in Kind : DefaultHolds(k)'
    PROVE  SettingsInv'
<1> USE DEF SettingsInv, TemplatesOnly, companyVars
<1>1. SettingsTypes'
  BY DEF SettingsTypes
<1>2. ErrandsHold'
  <2> SUFFICES ASSUME NEW p \in Owner PROVE ErrandHolds(errand[p])'
    BY DEF ErrandsHold
  <2>1. CASE p = o
    BY <2>1 DEF SettingsTypes
  <2>2. CASE p # o
    <3>0. PICK r \in Errands : r = errand[p]
      BY DEF SettingsTypes
    <3>1. errand'[p] = r /\ ErrandHolds(r)
      BY <2>2, <3>0 DEF SettingsTypes, ErrandsHold
    <3>2. r.step \in {"create", "creating", "make", "making"} => r.kind \in Kind
      BY <3>1, ErrandKinds DEF Creates, Makes
    <3>3. ErrandHolds(r)'
      BY <3>1, <3>2 DEF ErrandHolds, Ages, Present
    <3> QED BY <3>1, <3>3
  <2> QED BY <2>1, <2>2
<1>3. TemplatesHold'
  BY DEF TemplatesHold
<1>4. CompanyHolds'
  BY DEF CompanyHolds
<1>5. ZoneHolds'
  <2>1. \A p \in Owner : Storing(p)' <=> Storing(p)
    BY DEF Storing, SettingsTypes
  <2>2. \A p \in Owner : Storing(p) => errand'[p] = errand[p]
    BY DEF Storing, SettingsTypes
  <2> QED BY <2>1, <2>2 DEF ZoneHolds
<1>6. ListsAreWhole'
  BY DEF ListsAreWhole, SettingsTypes
<1> QED BY <1>1, <1>2, <1>3, <1>4, <1>5, <1>6

\* The same where no template changes.
LEMMA TemplateAsked ==
    ASSUME SettingsInv, NEW o \in Owner, NEW x \in Errands, topic # "company",
           errand' = [errand EXCEPT ![o] = x],
           errand[o].step \notin {"store", "list", "promote", "promoting"},
           x.step \notin {"store", "list"},
           UNCHANGED <<templates, lapsed, muddled>>, TemplatesOnly, ErrandHolds(x)
    PROVE  SettingsInv'
<1>1. ErrandHolds(x)'
  BY DEF ErrandHolds, Ages, Present
<1>2. \A k \in Kind : DefaultHolds(k)'
  BY NamingStays, DefaultStays DEF SettingsInv, TemplatesHold
<1>3. \A k \in Kind : Ages(templates[k], templates'[k])
  BY DEF Ages
<1> QED BY <1>1, <1>2, <1>3, TemplatesChange DEF SettingsInv, SettingsTypes

\* A step that puts one template list for another.
LEMMA TemplatesPut ==
    ASSUME SettingsInv, NEW o \in Owner, NEW x \in Errands, topic # "company",
           errand' = [errand EXCEPT ![o] = x],
           errand[o].step \notin {"store", "list"}, x.step \notin {"store", "list"},
           NEW k \in Kind, NEW t \in Template, Put(k, t), Ages(templates[k], t),
           TemplatesOnly, lapsed' \in BOOLEAN, muddled \subseteq muddled',
           muddled' \subseteq {"tag", "cheque", "company", "zone", "unit", "types"},
           ErrandHolds(x)',
           k # "tag" => lapsed' = lapsed /\ errand[o].step \notin {"promote", "promoting"},
           k \notin muddled' =>
               /\ OneDefault(t)
               /\ Present(t) # {} => DefaultsOf(t) # {} \/ (k = "tag" /\ (lapsed' \/ Naming'))
    PROVE  SettingsInv'
<1>1. /\ templates' \in [Kind -> Template] /\ templates'[k] = t
      /\ \A j \in Kind \ {k} : templates'[j] = templates[j]
  BY DEF Put, SettingsInv, SettingsTypes
<1>2. \A j \in Kind : Ages(templates[j], templates'[j])
  BY <1>1 DEF Ages
<1>3. \A j \in Kind : DefaultHolds(j)'
  <2> SUFFICES ASSUME NEW j \in Kind PROVE DefaultHolds(j)'
    OBVIOUS
  <2>1. CASE j = k
    BY <1>1, <2>1 DEF DefaultHolds
  <2>2. CASE j # k
    <3>1. j = "tag" /\ (lapsed \/ Naming) => lapsed' \/ Naming'
      BY <2>2, NamingStays DEF Kind, SettingsInv
    <3> QED BY <1>1, <2>2, <3>1, DefaultStays DEF SettingsInv, TemplatesHold
  <2> QED BY <2>1, <2>2
<1> QED BY <1>1, <1>2, <1>3, TemplatesChange

LEMMA AskTemplateHolds ==
    ASSUME SettingsInv, topic # "company", NEW o \in Owner, NEW k \in Kind,
           NEW asDefault \in BOOLEAN, AskTemplate(o, k, asDefault)
    PROVE  SettingsInv'
<1> DEFINE x == [step |-> "create", kind |-> k, seen |-> templates[k], rows |-> {},
                 default |-> asDefault \/ Present(templates[k]) = {}]
<1>1. x \in Creates /\ x.step = "create"
  BY DEF Creates, SettingsInv, SettingsTypes
<1>2. x \in Errands
  BY <1>1 DEF Errands
<1>3. ErrandHolds(x)
  BY DEF ErrandHolds, Ages, AskTemplate
<1>4. errand[o].step = "idle"
  BY DoingFits DEF AskTemplate, Ready
<1> QED BY <1>1, <1>2, <1>3, <1>4, TemplateAsked DEF AskTemplate, Send

LEMMA AskDefaultHolds ==
    ASSUME SettingsInv, topic # "company", NEW o \in Owner, NEW k \in Kind,
           NEW n \in Slot, AskDefault(o, k, n)
    PROVE  SettingsInv'
<1> DEFINE x == [step |-> "make", kind |-> k, seen |-> templates[k], rows |-> {}, slot |-> n]
<1>1. x \in Makes /\ x.step = "make"
  BY DEF Makes, SettingsInv, SettingsTypes
<1>2. x \in Errands
  BY <1>1 DEF Errands
<1>3. ErrandHolds(x)
  BY DEF ErrandHolds, Ages
<1>4. errand[o].step = "idle"
  BY DoingFits DEF AskDefault, Ready
<1> QED BY <1>1, <1>2, <1>3, <1>4, TemplateAsked DEF AskDefault, Send

LEMMA ClearDefaultsHolds ==
    ASSUME SettingsInv, topic # "company", NEW o \in Owner, ClearDefaults(o)
    PROVE  SettingsInv'
<1>1. PICK r \in Errands : r = errand[o]
  BY DEF SettingsInv, SettingsTypes
<1>2. PICK c \in SUBSET Slot : c = Clears(o)
  BY DEF Clears, Present
<1>7. PICK s : s = IF r.step = "make" THEN "making" ELSE "creating"
  OBVIOUS
<1>3. /\ ErrandHolds(r) /\ (r.step = "make" \/ r.step = "create")
      /\ errand' = [errand EXCEPT ![o] =
            [r EXCEPT !.step = s, !.rows = c]]
      /\ UNCHANGED <<templates, lapsed, muddled>> /\ TemplatesOnly
  BY <1>1, <1>2, <1>7 DEF ClearDefaults, Send, SettingsInv, ErrandsHold
<1>4. r.kind \in Kind /\ c = Present(templates[r.kind]) /\ templates[r.kind] \in Template
  BY <1>1, <1>2, <1>3, ErrandKinds DEF Creates, Makes, Clears, SettingsInv, SettingsTypes
<1>5. CASE r.step = "make"
  <2>1. r \in Makes /\ r.seen \in Template
    BY <1>1, <1>5, ErrandKinds DEF Makes
  <2>2. PICK x : x = [r EXCEPT !.step = "making", !.rows = c]
    OBVIOUS
  <2>3. /\ x \in Makes /\ x.step = "making" /\ x.kind = r.kind /\ x.seen = r.seen
        /\ x.rows = c
    BY <2>1, <2>2 DEF Makes
  <2>5. errand' = [errand EXCEPT ![o] = x]
    BY <1>3, <1>5, <1>7, <2>2
  <2>4. ErrandHolds(x)
    BY <1>3, <1>4, <1>5, <2>1, <2>3 DEF ErrandHolds, Ages, Present, Template
  <2> QED BY <1>1, <1>3, <1>5, <2>3, <2>4, <2>5, TemplateAsked DEF Errands
<1>6. CASE r.step = "create"
  <2>1. r \in Creates /\ r.seen \in Template
    BY <1>1, <1>6, ErrandKinds DEF Creates
  <2>2. PICK x : x = [r EXCEPT !.step = "creating", !.rows = c]
    OBVIOUS
  <2>3. /\ x \in Creates /\ x.step = "creating" /\ x.kind = r.kind /\ x.seen = r.seen
        /\ x.rows = c /\ x.default = r.default
    BY <2>1, <2>2 DEF Creates
  <2>5. errand' = [errand EXCEPT ![o] = x]
    BY <1>3, <1>6, <1>7, <2>2
  <2>4. ErrandHolds(x)
    BY <1>3, <1>4, <1>6, <2>1, <2>3 DEF ErrandHolds, Ages, Present, Template
  <2> QED BY <1>1, <1>3, <1>6, <2>3, <2>4, <2>5, TemplateAsked DEF Errands
<1> QED BY <1>3, <1>5, <1>6

LEMMA DoingHolds == ErrandHolds(Doing)'
BY DoingFits DEF ErrandHolds

\* A kind of template and what is written to it.
LEMMA WrittenTemplates ==
    ASSUME SettingsInv, NEW k \in Kind, NEW n \in Slot, NEW v \in {"plain", "default", "gone"},
           n \in Unused(templates[k]) \/ n \in Present(templates[k]), v = "gone" => n \in Present(templates[k])
    PROVE  /\ templates[k] \in Template
           /\ [templates[k] EXCEPT ![n] = v] \in Template
           /\ Ages(templates[k], [templates[k] EXCEPT ![n] = v])
BY DEF SettingsInv, SettingsTypes, Template, Ages, Unused, Present

LEMMA CreatePlainHolds ==
    ASSUME SettingsInv, topic # "company", NEW o \in Owner, NEW n \in Slot, CreatePlain(o, n)
    PROVE  SettingsInv'
<1>1. PICK r \in Errands : r = errand[o]
  BY DEF SettingsInv, SettingsTypes
<1>2. r \in Creates /\ r.kind \in Kind /\ ErrandHolds(r) /\ r.step = "create"
  BY <1>1, ErrandKinds DEF CreatePlain, SettingsInv, ErrandsHold, Creates
<1>3. PICK k \in Kind : k = r.kind
  BY <1>2
<1>4. PICK v \in {"plain", "default"} : v = IF r.default THEN "default" ELSE "plain"
  OBVIOUS
<1>5. PICK t : t = [templates[k] EXCEPT ![n] = v]
  OBVIOUS
<1>6. /\ n \in Unused(templates[k]) /\ Put(k, t) /\ Muddling(k, templates[k] # r.seen)
      /\ errand' = [errand EXCEPT ![o] = Doing] /\ lapsed' = lapsed /\ TemplatesOnly
      /\ (k = "tag" => ~r.default)
  BY <1>1, <1>3, <1>4, <1>5 DEF CreatePlain, Send
<1>7. /\ muddled \subseteq muddled'
      /\ muddled' \subseteq {"tag", "cheque", "company", "zone", "unit", "types"}
      /\ k \notin muddled' => templates[k] = r.seen
  BY <1>6, MuddledGrows DEF Kind, SettingsInv
<1>8. t \in Template /\ templates[k] \in Template /\ Ages(templates[k], t)
  BY <1>5, <1>6, WrittenTemplates
<1>9. k \notin muddled' =>
         /\ OneDefault(t)
         /\ Present(t) # {} => DefaultsOf(t) # {} \/ (k = "tag" /\ (lapsed' \/ Naming'))
  <2> SUFFICES ASSUME k \notin muddled'
               PROVE  /\ OneDefault(t)
                      /\ DefaultsOf(t) # {} \/ (k = "tag" /\ (lapsed' \/ Naming'))
    OBVIOUS
  <2>1. DefaultHolds(k) /\ k \notin muddled /\ templates[k] = r.seen
    BY <1>7 DEF SettingsInv, TemplatesHold
  <2>2. Naming => Naming'
    BY <1>1, <1>2, <1>6, NamingStays DEF SettingsInv
  <2>3. CASE r.default
    <3>1. Present(templates[k]) = {}
      BY <1>2, <1>3, <1>6, <2>1, <2>3 DEF ErrandHolds, Kind
    <3>2. DefaultsOf(t) = {n}
      BY <1>4, <1>5, <1>8, <2>3, <3>1 DEF DefaultsOf, Present, Template
    <3> QED BY <3>2 DEF OneDefault
  <2>4. CASE ~r.default
    <3>1. Present(templates[k]) # {}
      BY <1>2, <2>1, <2>4 DEF ErrandHolds
    <3>2. DefaultsOf(t) = DefaultsOf(templates[k])
      BY <1>4, <1>5, <1>6, <1>8, <2>4 DEF DefaultsOf, Unused, Template
    <3> QED BY <1>6, <2>1, <2>2, <3>1, <3>2 DEF DefaultHolds, OneDefault
  <2> QED BY <2>3, <2>4
<1>10. r.step \notin {"store", "list", "promote", "promoting"}
  BY <1>2
<1> QED BY <1>1, <1>6, <1>7, <1>8, <1>9, <1>10, DoingFits, DoingHolds, TemplatesPut
       DEF SettingsInv, SettingsTypes

LEMMA CommitDefaultHolds ==
    ASSUME SettingsInv, topic # "company", NEW o \in Owner, NEW n \in Slot, CommitDefault(o, n)
    PROVE  SettingsInv'
<1>1. PICK r \in Errands : r = errand[o]
  BY DEF SettingsInv, SettingsTypes
<1>2. /\ r.kind \in Kind /\ r.rows \subseteq Slot /\ r.seen \in Template
      /\ ErrandHolds(r) /\ r.step \in {"making", "creating"}
  BY <1>1, ErrandKinds DEF CommitDefault, SettingsInv, ErrandsHold, Creates, Makes
<1>3. PICK k \in Kind : k = r.kind
  BY <1>2
<1>4. PICK s \in Template : s = templates[k]
  BY DEF SettingsInv, SettingsTypes
<1>5. PICK t : t = [m \in Slot |-> IF m = n THEN "default"
                                   ELSE IF m \in r.rows /\ s[m] = "default" THEN "plain"
                                   ELSE s[m]]
  OBVIOUS
<1>6. /\ n \in Present(s) \/ n \in Unused(s)
      /\ Put(k, t) /\ Muddling(k, s # r.seen)
      /\ errand' = [errand EXCEPT ![o] = Doing] /\ TemplatesOnly
      /\ lapsed' = (lapsed /\ k # "tag")
  BY <1>1, <1>2, <1>3, <1>4, <1>5 DEF CommitDefault, Send
<1>7. /\ muddled \subseteq muddled'
      /\ muddled' \subseteq {"tag", "cheque", "company", "zone", "unit", "types"}
      /\ k \notin muddled' => s = r.seen
  BY <1>6, MuddledGrows DEF Kind, SettingsInv
<1>8. t \in Template /\ Ages(s, t)
  <2>1. t \in Template
    BY <1>4, <1>5 DEF Template
  <2>2. s[n] # "gone"
    BY <1>6 DEF Present, Unused
  <2> QED BY <1>4, <1>5, <2>1, <2>2 DEF Template, Ages
<1>9. k \notin muddled' => OneDefault(t) /\ DefaultsOf(t) # {}
  <2> SUFFICES ASSUME k \notin muddled' PROVE OneDefault(t) /\ DefaultsOf(t) # {}
    OBVIOUS
  <2>1. Present(s) \subseteq r.rows
    BY <1>2, <1>3, <1>4, <1>7 DEF ErrandHolds, Present
  <2>2. \A m \in Slot : t[m] = "default" <=> m = n
    BY <1>4, <1>5, <2>1 DEF Present
  <2>3. DefaultsOf(t) = {n}
    BY <2>2 DEF DefaultsOf
  <2> QED BY <2>3 DEF OneDefault
<1>10. r.step \notin {"store", "list", "promote", "promoting"}
  BY <1>2
<1>11. lapsed' \in BOOLEAN /\ (k # "tag" => lapsed' = lapsed)
  BY <1>6 DEF SettingsInv, SettingsTypes
<1> QED BY <1>1, <1>4, <1>6, <1>7, <1>8, <1>9, <1>10, <1>11, DoingFits, DoingHolds, TemplatesPut

LEMMA ClearTagHolds ==
    ASSUME SettingsInv, topic # "company", NEW o \in Owner, NEW n \in Slot, ClearTag(o, n)
    PROVE  SettingsInv'
<1>1. PICK s \in Template : s = templates["tag"]
  BY DEF SettingsInv, SettingsTypes, Kind
<1>2. PICK t : t = [s EXCEPT ![n] = "plain"]
  OBVIOUS
<1>3. /\ n \in Present(s) /\ Put("tag", t) /\ errand[o] = Doing /\ muddled = {}
      /\ lapsed' = (lapsed \/ s[n] = "default") /\ errand' = errand /\ muddled' = muddled
      /\ TemplatesOnly
  BY <1>1, <1>2 DEF ClearTag, Ready
<1>4. errand' = [errand EXCEPT ![o] = Doing]
  BY <1>3 DEF SettingsInv, SettingsTypes
<1>5. "tag" \in Kind /\ t \in Template /\ Ages(s, t)
  BY <1>1, <1>2, <1>3, WrittenTemplates DEF Kind
<1>6. OneDefault(t) /\ (Present(t) # {} => DefaultsOf(t) # {} \/ lapsed' \/ Naming')
  <2>1. OneDefault(s) /\ (Present(s) # {} => DefaultsOf(s) # {} \/ lapsed \/ Naming)
    BY <1>1, <1>3 DEF SettingsInv, TemplatesHold, DefaultHolds, Kind
  <2>2. DefaultsOf(t) \subseteq DefaultsOf(s) /\ (s[n] # "default" => DefaultsOf(t) = DefaultsOf(s))
    BY <1>1, <1>2, <1>3 DEF DefaultsOf, Template
  <2>3. Naming' = Naming
    BY <1>3 DEF Naming
  <2> QED BY <1>3, <2>1, <2>2, <2>3 DEF OneDefault
<1>7. lapsed' \in BOOLEAN
  BY <1>3 DEF SettingsInv, SettingsTypes
<1>8. muddled' \subseteq {"tag", "cheque", "company", "zone", "unit", "types"}
  BY <1>3
<1> QED BY <1>1, <1>3, <1>4, <1>5, <1>6, <1>7, <1>8, DoingFits, DoingHolds, TemplatesPut

LEMMA DeleteTagHolds ==
    ASSUME SettingsInv, topic # "company", NEW o \in Owner, NEW n \in Slot, DeleteTag(o, n)
    PROVE  SettingsInv'
<1>1. PICK s \in Template : s = templates["tag"]
  BY DEF SettingsInv, SettingsTypes, Kind
<1>2. PICK t : t = [s EXCEPT ![n] = "gone"]
  OBVIOUS
<1>3. PICK x : x = IF s[n] = "default" THEN [step |-> "promote", seen |-> t, slot |-> n]
                   ELSE Doing
  OBVIOUS
<1>4. /\ n \in Present(s) /\ Put("tag", t) /\ errand[o] = Doing /\ muddled = {}
      /\ errand' = [errand EXCEPT ![o] = x] /\ lapsed' = lapsed /\ muddled' = muddled
      /\ TemplatesOnly
  BY <1>1, <1>2, <1>3 DEF DeleteTag, Ready, Send
<1>5. "tag" \in Kind /\ t \in Template /\ Ages(s, t)
  BY <1>1, <1>2, <1>4, WrittenTemplates DEF Kind
<1>6. OneDefault(s) /\ (Present(s) # {} => DefaultsOf(s) # {} \/ lapsed \/ Naming)
  BY <1>1, <1>4 DEF SettingsInv, TemplatesHold, DefaultHolds, Kind
<1>7. /\ DefaultsOf(t) = DefaultsOf(s) \ {n}
      /\ s[n] = "default" => DefaultsOf(t) = {}
  BY <1>1, <1>2, <1>6 DEF DefaultsOf, Template, OneDefault
<1>8. x \in Errands /\ ErrandHolds(x)' /\ x.step \notin {"store", "list"}
      /\ (s[n] = "default" => x.step = "promote")
  <2>1. CASE s[n] = "default"
    <3>1. x \in Promotes /\ x.step = "promote" /\ x.seen = t
      BY <1>3, <1>5, <2>1 DEF Promotes
    <3> QED BY <1>7, <2>1, <3>1 DEF Errands, ErrandHolds
  <2>2. CASE s[n] # "default"
    BY <1>3, <2>2, DoingFits, DoingHolds
  <2> QED BY <2>1, <2>2
<1>9. OneDefault(t) /\ (Present(t) # {} => DefaultsOf(t) # {} \/ lapsed' \/ Naming')
  <2>1. OneDefault(t)
    BY <1>6, <1>7 DEF OneDefault
  <2>2. CASE s[n] = "default"
    <3>1. Naming'
      BY <1>4, <1>8, <2>2 DEF Naming, SettingsInv, SettingsTypes
    <3> QED BY <2>1, <3>1
  <2>3. CASE s[n] # "default"
    <3>1. DefaultsOf(t) = DefaultsOf(s)
      BY <1>7, <2>3 DEF DefaultsOf
    <3>2. Naming => Naming'
      BY <1>4, DoingFits, NamingStays DEF SettingsInv
    <3>3. Present(s) # {}
      BY <1>4
    <3> QED BY <1>4, <1>6, <2>1, <3>1, <3>2, <3>3
  <2> QED BY <2>2, <2>3
<1>10. lapsed' \in BOOLEAN /\ muddled' \subseteq {"tag", "cheque", "company", "zone", "unit", "types"}
  BY <1>4 DEF SettingsInv, SettingsTypes
<1> QED BY <1>1, <1>4, <1>5, <1>8, <1>9, <1>10, DoingFits, TemplatesPut

\* Slots that are taken have a last one.
Below == {s \in Nat \X Nat : s[1] < s[2]}

LEMMA LastSlot ==
    ASSUME NEW S \in SUBSET Slot, S # {}
    PROVE  \E n \in S : \A m \in S : m <= n
<1> DEFINE T == {MaxTemplates - n : n \in S}
<1>1. MaxTemplates \in Nat /\ \A n \in S : n \in Nat /\ n <= MaxTemplates
  BY SettingsAssumption DEF SettingsAssumption, Slot
<1>2. T \subseteq Nat /\ T # {}
  BY <1>1
<1>3. IsWellFoundedOn(Below, Nat)
  BY NatLessThanWellFounded DEF OpToRel, Below
<1> HIDE DEF T
<1>4. PICK x \in T : \A y \in T : <<y, x>> \notin Below
  BY <1>2, <1>3, WFMin
<1> USE DEF T
<1>5. PICK n \in S : x = MaxTemplates - n
  OBVIOUS
<1>6. ASSUME NEW m \in S PROVE m <= n
  <2>1. <<MaxTemplates - m, x>> \notin Below /\ MaxTemplates - m \in Nat /\ x \in Nat
    BY <1>2, <1>4
  <2>2. ~(MaxTemplates - m < x)
    BY <2>1 DEF Below
  <2> QED BY <1>1, <1>5, <2>2
<1> QED BY <1>5, <1>6

LEMMA FindNextHolds ==
    ASSUME SettingsInv, topic # "company", NEW o \in Owner, FindNext(o)
    PROVE  SettingsInv'
<1>1. PICK r \in Errands : r = errand[o]
  BY DEF SettingsInv, SettingsTypes
<1>2. r \in Promotes /\ r.step = "promote" /\ ErrandHolds(r)
  BY <1>1, ErrandKinds DEF FindNext, SettingsInv, ErrandsHold
<1>3. PICK s \in Template : s = templates["tag"]
  BY DEF SettingsInv, SettingsTypes, Kind
<1>4. UNCHANGED <<templates, lapsed, muddled>> /\ TemplatesOnly
  BY DEF FindNext
<1>5. CASE Newest(s) = {}
  <2>1. errand' = [errand EXCEPT ![o] = Doing]
    BY <1>3, <1>5 DEF FindNext, Send
  <2>2. Present(s) = {}
    <3> SUFFICES ASSUME Present(s) # {} PROVE FALSE
      OBVIOUS
    <3>1. PICK n \in Present(s) : \A m \in Present(s) : m <= n
      BY LastSlot DEF Present
    <3> QED BY <1>5, <3>1 DEF Newest
  <2>3. \A k \in Kind : DefaultHolds(k)'
    <3> SUFFICES ASSUME NEW k \in Kind PROVE DefaultHolds(k)'
      OBVIOUS
    <3>1. DefaultHolds(k)
      BY DEF SettingsInv, TemplatesHold
    <3>2. CASE k = "tag"
      BY <1>3, <1>4, <2>2, <3>1, <3>2 DEF DefaultHolds
    <3>3. CASE k # "tag"
      BY <1>4, <3>1, <3>3, DefaultStays
    <3> QED BY <3>2, <3>3
  <2>4. \A k \in Kind : Ages(templates[k], templates'[k])
    BY <1>4 DEF Ages
  <2> QED BY <1>1, <1>2, <1>4, <2>1, <2>3, <2>4, DoingFits, DoingHolds, TemplatesChange
         DEF SettingsInv, SettingsTypes
<1>6. CASE Newest(s) # {}
  <2>1. PICK n \in Slot : n = CHOOSE m \in Newest(s) : TRUE
    BY <1>6 DEF Newest, Present
  <2>2. PICK x : x = [r EXCEPT !.step = "promoting", !.slot = n]
    OBVIOUS
  <2>3. errand' = [errand EXCEPT ![o] = x]
    BY <1>1, <1>3, <1>6, <2>1, <2>2 DEF FindNext, Send
  <2>4. x \in Promotes /\ x.step = "promoting" /\ x.seen = r.seen
    BY <1>2, <2>2 DEF Promotes
  <2>5. x \in Errands /\ ErrandHolds(x)'
    BY <1>2, <2>4 DEF Errands, ErrandHolds
  <2>6. Naming'
    BY <2>3, <2>4 DEF Naming, SettingsInv, SettingsTypes
  <2>7. \A k \in Kind : DefaultHolds(k)'
    BY <1>4, <2>6, DefaultStays DEF SettingsInv, TemplatesHold
  <2>8. \A k \in Kind : Ages(templates[k], templates'[k])
    BY <1>4 DEF Ages
  <2> QED BY <1>1, <1>2, <1>4, <2>3, <2>4, <2>5, <2>7, <2>8, TemplatesChange
         DEF SettingsInv, SettingsTypes
<1> QED BY <1>5, <1>6

LEMMA PromoteHolds ==
    ASSUME SettingsInv, topic # "company", NEW o \in Owner, Promote(o)
    PROVE  SettingsInv'
<1>1. PICK r \in Errands : r = errand[o]
  BY DEF SettingsInv, SettingsTypes
<1>2. r \in Promotes /\ r.step = "promoting" /\ ErrandHolds(r)
  BY <1>1, ErrandKinds DEF Promote, SettingsInv, ErrandsHold
<1>3. PICK s \in Template : s = templates["tag"]
  BY DEF SettingsInv, SettingsTypes, Kind
<1>4. PICK n \in Slot : n = r.slot
  BY <1>2 DEF Promotes
<1>5. PICK t : t = [s EXCEPT ![n] = "default"]
  OBVIOUS
<1>6. /\ n \in Present(s) /\ Put("tag", t) /\ Muddling("tag", s # r.seen)
      /\ errand' = [errand EXCEPT ![o] = Doing] /\ lapsed' = lapsed /\ TemplatesOnly
  BY <1>1, <1>3, <1>4, <1>5 DEF Promote, Send
<1>7. /\ muddled \subseteq muddled'
      /\ muddled' \subseteq {"tag", "cheque", "company", "zone", "unit", "types"}
      /\ "tag" \notin muddled' => s = r.seen
  BY <1>6, MuddledGrows DEF SettingsInv
<1>8. "tag" \in Kind /\ t \in Template /\ Ages(s, t)
  BY <1>3, <1>5, <1>6, WrittenTemplates DEF Kind
<1>9. "tag" \notin muddled' => OneDefault(t) /\ DefaultsOf(t) # {}
  <2> SUFFICES ASSUME "tag" \notin muddled' PROVE OneDefault(t) /\ DefaultsOf(t) # {}
    OBVIOUS
  <2>1. DefaultsOf(s) = {}
    BY <1>2, <1>7 DEF ErrandHolds
  <2>2. DefaultsOf(t) = {n}
    BY <1>3, <1>5, <2>1 DEF DefaultsOf, Template
  <2> QED BY <2>2 DEF OneDefault
<1> QED BY <1>1, <1>2, <1>3, <1>6, <1>7, <1>8, <1>9, DoingFits, DoingHolds, TemplatesPut
       DEF SettingsInv, SettingsTypes

LEMMA AskDeleteChequeHolds ==
    ASSUME SettingsInv, topic # "company", NEW o \in Owner, NEW n \in Slot, AskDeleteCheque(o, n)
    PROVE  SettingsInv'
<1> DEFINE x == [step |-> "delete", kind |-> "cheque", slot |-> n, seen |-> templates["cheque"]]
<1>1. x \in Deletes /\ x.step = "delete" /\ x.seen[x.slot] = "plain"
  BY DEF Deletes, SettingsInv, SettingsTypes, AskDeleteCheque, Kind
<1>2. x \in Errands
  BY <1>1 DEF Errands
<1>3. ErrandHolds(x)
  BY <1>1 DEF ErrandHolds
<1>4. errand[o].step = "idle"
  BY DoingFits DEF AskDeleteCheque, Ready
<1> QED BY <1>1, <1>2, <1>3, <1>4, TemplateAsked DEF AskDeleteCheque, Send

LEMMA AskChequeHolds ==
    ASSUME SettingsInv, topic # "company", NEW o \in Owner, AskCheque(o)
    PROVE  SettingsInv'
<1>1. PICK s \in Template : s = templates["cheque"]
  BY DEF SettingsInv, SettingsTypes, Kind
<1> DEFINE x == [step |-> "heal", kind |-> "cheque", rows |-> Eldest(s), seen |-> s]
<1>2. x \in Heals /\ x.step = "heal" /\ x.seen = s
  BY DEF Heals, Eldest, Present
<1>3. x \in Errands
  BY <1>2 DEF Errands
<1>4. ErrandHolds(x)
  BY <1>1, <1>2 DEF ErrandHolds, AskCheque
<1>5. errand[o].step = "idle"
  BY DoingFits DEF AskCheque, Ready
<1> QED BY <1>1, <1>2, <1>3, <1>4, <1>5, TemplateAsked DEF AskCheque, Send

LEMMA DeleteChequeHolds ==
    ASSUME SettingsInv, topic # "company", NEW o \in Owner, DeleteCheque(o)
    PROVE  SettingsInv'
<1>1. PICK r \in Errands : r = errand[o]
  BY DEF SettingsInv, SettingsTypes
<1>2. r \in Deletes /\ r.step = "delete" /\ ErrandHolds(r)
  BY <1>1, ErrandKinds DEF DeleteCheque, SettingsInv, ErrandsHold
<1>3. PICK s \in Template : s = templates["cheque"]
  BY DEF SettingsInv, SettingsTypes, Kind
<1>4. PICK n \in Slot : n = r.slot
  BY <1>2 DEF Deletes
<1>5. PICK t : t = [s EXCEPT ![n] = "gone"]
  OBVIOUS
<1>6. /\ n \in Present(s) /\ Put("cheque", t) /\ Muddling("cheque", s # r.seen)
      /\ errand' = [errand EXCEPT ![o] = Doing] /\ lapsed' = lapsed /\ TemplatesOnly
  BY <1>1, <1>2, <1>3, <1>4, <1>5 DEF DeleteCheque, Send, Deletes
<1>7. /\ muddled \subseteq muddled'
      /\ muddled' \subseteq {"tag", "cheque", "company", "zone", "unit", "types"}
      /\ "cheque" \notin muddled' => s = r.seen
  BY <1>6, MuddledGrows DEF SettingsInv
<1>8. "cheque" \in Kind /\ t \in Template /\ Ages(s, t)
  BY <1>3, <1>5, <1>6, WrittenTemplates DEF Kind
<1>9. "cheque" \notin muddled' => OneDefault(t) /\ (Present(t) # {} => DefaultsOf(t) # {})
  <2> SUFFICES ASSUME "cheque" \notin muddled'
               PROVE OneDefault(t) /\ DefaultsOf(t) # {}
    OBVIOUS
  <2>1. s[n] = "plain"
    BY <1>2, <1>4, <1>7 DEF ErrandHolds
  <2>2. DefaultsOf(t) = DefaultsOf(s)
    BY <1>3, <1>5, <2>1 DEF DefaultsOf, Template
  <2>3. OneDefault(s) /\ (Present(s) # {} => DefaultsOf(s) # {})
    BY <1>3, <1>7 DEF SettingsInv, TemplatesHold, DefaultHolds, Kind
  <2> QED BY <1>6, <2>2, <2>3 DEF OneDefault
<1>10. lapsed' \in BOOLEAN /\ r.step \notin {"store", "list", "promote", "promoting"}
  BY <1>2, <1>6 DEF SettingsInv, SettingsTypes
<1> QED BY <1>1, <1>3, <1>6, <1>7, <1>8, <1>9, <1>10, DoingFits, DoingHolds, TemplatesPut

LEMMA HealChequeHolds ==
    ASSUME SettingsInv, topic # "company", NEW o \in Owner, NEW n \in Slot, HealCheque(o, n)
    PROVE  SettingsInv'
<1>1. PICK r \in Errands : r = errand[o]
  BY DEF SettingsInv, SettingsTypes
<1>2. r \in Heals /\ r.step = "heal" /\ ErrandHolds(r)
  BY <1>1, ErrandKinds DEF HealCheque, SettingsInv, ErrandsHold
<1>3. PICK s \in Template : s = templates["cheque"]
  BY DEF SettingsInv, SettingsTypes, Kind
<1>4. PICK t : t = [s EXCEPT ![n] = "default"]
  OBVIOUS
<1>5. /\ n \in Unused(s) \/ n \in Present(s)
      /\ Put("cheque", t) /\ Muddling("cheque", s # r.seen)
      /\ errand' = [errand EXCEPT ![o] = Doing] /\ lapsed' = lapsed /\ TemplatesOnly
  BY <1>1, <1>3, <1>4 DEF HealCheque, Send
<1>6. /\ muddled \subseteq muddled'
      /\ muddled' \subseteq {"tag", "cheque", "company", "zone", "unit", "types"}
      /\ "cheque" \notin muddled' => s = r.seen
  BY <1>5, MuddledGrows DEF SettingsInv
<1>7. "cheque" \in Kind /\ t \in Template /\ Ages(s, t)
  BY <1>3, <1>4, <1>5, WrittenTemplates DEF Kind
<1>8. "cheque" \notin muddled' => OneDefault(t) /\ DefaultsOf(t) # {}
  <2> SUFFICES ASSUME "cheque" \notin muddled' PROVE OneDefault(t) /\ DefaultsOf(t) # {}
    OBVIOUS
  <2>1. DefaultsOf(s) = {}
    BY <1>2, <1>6 DEF ErrandHolds
  <2>2. DefaultsOf(t) = {n}
    BY <1>3, <1>4, <2>1 DEF DefaultsOf, Template
  <2> QED BY <2>2 DEF OneDefault
<1>9. lapsed' \in BOOLEAN /\ r.step \notin {"store", "list", "promote", "promoting"}
  BY <1>2, <1>5 DEF SettingsInv, SettingsTypes
<1> QED BY <1>1, <1>3, <1>5, <1>6, <1>7, <1>8, <1>9, DoingFits, DoingHolds, TemplatesPut

LEMMA TemplateStepHolds ==
    ASSUME SettingsInv, topic # "company", NEW o \in Owner, NEW k \in Kind, TemplateStep(o, k)
    PROVE  SettingsInv'
BY AskTemplateHolds, ClearDefaultsHolds, AskDefaultHolds, CreatePlainHolds, CommitDefaultHolds
   DEF TemplateStep

LEMMA TagStepHolds ==
    ASSUME SettingsInv, topic # "company", NEW o \in Owner, TagStep(o)
    PROVE  SettingsInv'
<1>1. "tag" \in Kind
  BY DEF Kind
<1> QED BY <1>1, TemplateStepHolds, ClearTagHolds, DeleteTagHolds, FindNextHolds, PromoteHolds
       DEF TagStep

LEMMA ChequeStepHolds ==
    ASSUME SettingsInv, topic # "company", NEW o \in Owner, ChequeStep(o)
    PROVE  SettingsInv'
<1>1. "cheque" \in Kind
  BY DEF Kind
<1> QED BY <1>1, TemplateStepHolds, AskDeleteChequeHolds, HealChequeHolds, DeleteChequeHolds,
           AskChequeHolds DEF ChequeStep

-----------------------------------------------------------------------------
(* The company, units and payment types.                                   *)

\* A step that changes no template and the request of one owner, or of none.
LEMMA OtherChange ==
    ASSUME SettingsInv, NEW o \in Owner, NEW x \in Errands, errand' = [errand EXCEPT ![o] = x],
           UNCHANGED <<topic, templates, lapsed>>,
           errand[o].step \notin {"promote", "promoting"}, ErrandHolds(x),
           NEW part \in {"tag", "cheque", "company", "zone", "unit", "types"},
           NEW changed, Muddling(part, changed)
    PROVE  /\ errand' \in [Owner -> Errands] /\ ErrandsHold' /\ TemplatesHold'
           /\ topic' \in Topics /\ templates' \in [Kind -> Template] /\ lapsed' \in BOOLEAN
           /\ muddled \subseteq muddled' /\ (changed => part \in muddled')
           /\ muddled' \subseteq {"tag", "cheque", "company", "zone", "unit", "types"}
<1> USE DEF SettingsInv
<1>1. /\ muddled \subseteq muddled' /\ (changed => part \in muddled')
      /\ muddled' \subseteq {"tag", "cheque", "company", "zone", "unit", "types"}
  BY MuddledGrows
<1>2. errand' \in [Owner -> Errands]
  BY DEF SettingsTypes
<1>3. ErrandsHold'
  <2> SUFFICES ASSUME NEW p \in Owner PROVE ErrandHolds(errand[p])'
    BY DEF ErrandsHold
  <2>1. PICK r \in Errands : r = errand'[p]
    BY <1>2
  <2>2. ErrandHolds(r)
    BY <2>1 DEF ErrandsHold, SettingsTypes
  <2>3. ErrandHolds(r)'
    BY <2>2 DEF ErrandHolds, Ages, Present
  <2> QED BY <2>1, <2>3
<1>4. TemplatesHold'
  <2>1. \A k \in Kind : DefaultHolds(k)'
    BY <1>1, NamingStays, DefaultStays DEF TemplatesHold
  <2> QED BY <2>1 DEF TemplatesHold
<1> QED BY <1>1, <1>2, <1>3, <1>4 DEF SettingsTypes

LEMMA NoMuddle ==
    ASSUME muddled' = muddled
    PROVE  Muddling("tag", FALSE)
BY DEF Muddling

LEMMA DoingHoldsNow == ErrandHolds(Doing)
BY DoingFits DEF ErrandHolds

\* What follows where the company, units and types stay as well.
LEMMA OnlyErrandChanges ==
    ASSUME SettingsInv, NEW o \in Owner, NEW x \in Errands, errand' = [errand EXCEPT ![o] = x],
           UNCHANGED <<topic, templates, lapsed, companyVars, units, types, muddled>>,
           errand[o].step \notin {"promote", "promoting"}, ErrandHolds(x),
           Storing(o) => x = errand[o],
           x.step = "store" => x.zone = Nothing \/ x = errand[o],
           x.step = "list" => "types" \in muddled \/ DebtType \in types
    PROVE  SettingsInv'
<1> USE DEF SettingsInv, companyVars
<1>1. /\ errand' \in [Owner -> Errands] /\ ErrandsHold' /\ TemplatesHold'
      /\ topic' \in Topics /\ templates' \in [Kind -> Template] /\ lapsed' \in BOOLEAN
  BY NoMuddle, OtherChange
<1>2. SettingsTypes'
  BY <1>1 DEF SettingsTypes
<1>3. CompanyHolds'
  BY DEF CompanyHolds
<1>4. ZoneHolds'
  <2>1. \A p \in Owner : p # o => errand'[p] = errand[p]
    BY DEF SettingsTypes
  <2>2. errand'[o] = x
    BY DEF SettingsTypes
  <2>3. \A p \in Owner : Storing(p)' <=> Storing(p)
    BY <2>1, <2>2 DEF Storing
  <2>4. \A p \in Owner : Storing(p) => errand'[p] = errand[p]
    BY <2>1, <2>2 DEF Storing
  <2> QED BY <2>3, <2>4 DEF ZoneHolds
<1>5. ListsAreWhole'
  BY DEF ListsAreWhole, SettingsTypes
<1> QED BY <1>1, <1>2, <1>3, <1>4, <1>5

LEMMA AskCompanyHolds ==
    ASSUME SettingsInv, NEW o \in Owner, NEW type \in Business \cup {Nothing},
           NEW on \in SUBSET Flag, NEW off \in SUBSET Flag, on \cap off = {},
           NEW zone \in Zone \cup {Nothing}, AskCompany(o, type, on, off, zone)
    PROVE  SettingsInv'
<1> DEFINE x == [step |-> "company", type |-> type, on |-> on, off |-> off, zone |-> zone,
                 read |-> company]
<1>1. x \in Companies /\ x.step = "company" /\ x.on = on /\ x.off = off
  BY DEF Companies, SettingsInv, SettingsTypes
<1>2. x \in Errands
  BY <1>1 DEF Errands
<1>3. ErrandHolds(x)
  BY <1>1 DEF ErrandHolds
<1>4. errand[o].step = "idle" /\ errand' = [errand EXCEPT ![o] = x]
  BY DoingFits DEF AskCompany, Ready, Send
<1>5. UNCHANGED <<topic, templates, lapsed, companyVars, units, types, muddled>>
  BY DEF AskCompany, CompanyOnly
<1> HIDE DEF x
<1> QED BY <1>1, <1>2, <1>3, <1>4, <1>5, OnlyErrandChanges DEF Storing

LEMMA WriteCompanyHolds ==
    ASSUME SettingsInv, NEW o \in Owner, WriteCompany(o)
    PROVE  SettingsInv'
<1> USE DEF SettingsInv
<1>1. PICK r \in Errands : r = errand[o]
  BY DEF SettingsTypes
<1>2. r \in Companies /\ r.step = "company" /\ ErrandHolds(r)
  BY <1>1, ErrandKinds DEF WriteCompany, ErrandsHold
<1>3. /\ r.type \in Business \cup {Nothing} /\ r.on \subseteq Flag /\ r.off \subseteq Flag
      /\ r.zone \in Zone \cup {Nothing} /\ r.read \in Company /\ r.on \cap r.off = {}
  BY <1>2 DEF Companies, ErrandHolds
<1>4. PICK x : x = [step |-> "profile", zone |-> r.zone]
  OBVIOUS
<1>5. x \in Errands /\ x.step = "profile" /\ ErrandHolds(x)
  BY <1>3, <1>4 DEF Errands, Profiles, ErrandHolds
<1>6. errand' = [errand EXCEPT ![o] = x] /\ UNCHANGED <<topic, templates, lapsed, units, types,
                                                        profile, cache>>
  BY <1>1, <1>4 DEF WriteCompany, Send, CompanyOnly
<1>7. CASE ~(r.type # Nothing \/ r.on \cup r.off # {})
  <2>1. UNCHANGED <<company, asked, muddled>>
    BY <1>1, <1>7 DEF WriteCompany
  <2> QED BY <1>1, <1>2, <1>5, <1>6, <2>1, OnlyErrandChanges DEF companyVars, Storing
<1>8. CASE r.type # Nothing \/ r.on \cup r.off # {}
  <2>1. PICK type : type = IF r.type = Nothing THEN r.read.type ELSE r.type
    OBVIOUS
  <2>2. PICK flags : flags = (Normalized(type, r.read.flags) \ r.off) \cup r.on
    OBVIOUS
  <2>3. /\ company' = [type |-> type, flags |-> flags]
        /\ asked' = [asked EXCEPT !.type = type, !.on = (@ \ r.off) \cup r.on,
                                  !.off = (@ \ r.on) \cup r.off]
        /\ Muddling("company", company # r.read)
    BY <1>1, <1>8, <2>1, <2>2 DEF WriteCompany
  <2>4. type \in Business
    BY <1>3, <2>1 DEF Company
  <2>5. /\ Normalized(type, r.read.flags) \in SUBSET Flag
        /\ r.read.flags # Nothing => Normalized(type, r.read.flags) = r.read.flags
    BY <1>3, <2>4, SettingsAssumption DEF Company, Normalized, SettingsAssumption
  <2>6. flags \in SUBSET Flag /\ flags # Nothing
    BY <1>3, <2>2, <2>5, SettingsAssumption DEF SettingsAssumption
  <2>7. /\ asked' \in [type : Business, zone : Zone, on : SUBSET Flag, off : SUBSET Flag]
        /\ asked'.type = type /\ asked'.zone = asked.zone
        /\ asked'.on = (asked.on \ r.off) \cup r.on
        /\ asked'.off = (asked.off \ r.on) \cup r.off
    <3>1. asked \in [type : Business, zone : Zone, on : SUBSET Flag, off : SUBSET Flag]
      BY DEF SettingsTypes
    <3> QED BY <1>3, <2>3, <2>4, <3>1
  <2>8. /\ errand' \in [Owner -> Errands] /\ ErrandsHold' /\ TemplatesHold'
        /\ topic' \in Topics /\ templates' \in [Kind -> Template] /\ lapsed' \in BOOLEAN
        /\ muddled \subseteq muddled' /\ (company # r.read => "company" \in muddled')
        /\ muddled' \subseteq {"tag", "cheque", "company", "zone", "unit", "types"}
    BY <1>1, <1>2, <1>5, <1>6, <2>3, OtherChange
  <2>9. SettingsTypes'
    <3>1. company' \in Company
      BY <2>3, <2>4, <2>6 DEF Company
    <3> QED BY <1>6, <2>7, <2>8, <3>1 DEF SettingsTypes
  <2>10. CompanyHolds'
    <3>1. company'.type = type /\ company'.flags = flags
      BY <2>3
    <3> SUFFICES ASSUME "company" \notin muddled'
                 PROVE  asked'.on \subseteq flags /\ asked'.off \cap flags = {}
      BY <2>6, <2>7, <3>1 DEF CompanyHolds
    <3>2. r.read = company /\ "company" \notin muddled
      BY <2>8
    <3>3. CASE company.flags = Nothing
      BY <1>3, <2>2, <2>7, <3>3 DEF CompanyHolds
    <3>4. CASE company.flags # Nothing
      BY <1>3, <2>2, <2>5, <2>7, <3>2, <3>4 DEF CompanyHolds
    <3> QED BY <3>3, <3>4
  <2>11. ZoneHolds'
    <3>1. \A p \in Owner : (Storing(p)' <=> Storing(p)) /\ (Storing(p) => errand'[p] = errand[p])
      BY <1>1, <1>2, <1>5, <1>6 DEF Storing, SettingsTypes
    <3> QED BY <1>6, <2>7, <2>8, <3>1 DEF ZoneHolds
  <2>12. ListsAreWhole'
    BY <1>1, <1>2, <1>5, <1>6, <2>8 DEF ListsAreWhole, SettingsTypes
  <2> QED BY <2>8, <2>9, <2>10, <2>11, <2>12
<1> QED BY <1>7, <1>8

LEMMA ReadProfileHolds ==
    ASSUME SettingsInv, NEW o \in Owner, ReadProfile(o)
    PROVE  SettingsInv'
<1> USE DEF SettingsInv
<1>1. PICK r \in Errands : r = errand[o]
  BY DEF SettingsTypes
<1>2. r \in Profiles /\ r.step = "profile" /\ r.zone \in Zone \cup {Nothing}
  BY <1>1, ErrandKinds DEF ReadProfile, Profiles
<1>3. PICK x : x = [step |-> IF r.zone = Nothing THEN "store" ELSE "zone",
                    zone |-> r.zone, read |-> profile]
  OBVIOUS
<1>4. x \in Errands /\ ErrandHolds(x) /\ x.step \in {"store", "zone"}
      /\ (x.step = "store" => x.zone = Nothing)
  <2>1. profile \in Zone
    BY DEF SettingsTypes
  <2>2. CASE r.zone = Nothing
    <3>1. x \in Stores /\ x.step = "store" /\ x.zone = Nothing
      BY <1>3, <2>1, <2>2 DEF Stores
    <3> QED BY <3>1 DEF Errands, ErrandHolds
  <2>3. CASE r.zone # Nothing
    <3>1. x \in Zones /\ x.step = "zone"
      BY <1>2, <1>3, <2>1, <2>3 DEF Zones
    <3> QED BY <3>1 DEF Errands, ErrandHolds
  <2> QED BY <2>2, <2>3
<1>5. /\ errand' = [errand EXCEPT ![o] = x]
      /\ UNCHANGED <<topic, templates, lapsed, companyVars, units, types, muddled>>
  BY <1>1, <1>3 DEF ReadProfile, Send, CompanyOnly
<1> QED BY <1>1, <1>2, <1>4, <1>5, OnlyErrandChanges DEF Storing

\* A step that changes the profile or the cache.
LEMMA ZoneChange ==
    ASSUME SettingsInv, NEW o \in Owner, NEW x \in Errands, errand' = [errand EXCEPT ![o] = x],
           UNCHANGED <<topic, templates, lapsed, company, units, types>>,
           profile' \in Zone, cache' \in Zone \cup {Nothing},
           asked' \in [type : Business, zone : Zone, on : SUBSET Flag, off : SUBSET Flag],
           asked'.type = asked.type, asked'.on = asked.on, asked'.off = asked.off,
           errand[o].step \notin {"promote", "promoting"}, ErrandHolds(x),
           x.step # "list",
           NEW changed, Muddling("zone", changed), ZoneHolds'
    PROVE  SettingsInv'
<1> USE DEF SettingsInv
<1>1. /\ errand' \in [Owner -> Errands] /\ ErrandsHold' /\ TemplatesHold'
      /\ topic' \in Topics /\ templates' \in [Kind -> Template] /\ lapsed' \in BOOLEAN
      /\ muddled \subseteq muddled'
      /\ muddled' \subseteq {"tag", "cheque", "company", "zone", "unit", "types"}
  BY OtherChange
<1>2. SettingsTypes'
  BY <1>1 DEF SettingsTypes
<1>3. CompanyHolds'
  BY <1>1 DEF CompanyHolds
<1>4. ListsAreWhole'
  BY <1>1 DEF ListsAreWhole, SettingsTypes
<1> QED BY <1>1, <1>2, <1>3, <1>4

LEMMA CacheZoneHolds ==
    ASSUME SettingsInv, NEW o \in Owner, CacheZone(o)
    PROVE  SettingsInv'
<1> USE DEF SettingsInv
<1>1. PICK r \in Errands : r = errand[o]
  BY DEF SettingsTypes
<1>2. r \in Zones /\ r.step = "zone" /\ r.zone \in Zone
  BY <1>1, ErrandKinds DEF CacheZone, Zones
<1>3. PICK x : x = [r EXCEPT !.step = "store"]
  OBVIOUS
<1>4. x \in Stores /\ x.step = "store" /\ x.zone = r.zone
  BY <1>2, <1>3 DEF Zones, Stores
<1>5. x \in Errands /\ ErrandHolds(x)
  BY <1>4 DEF Errands, ErrandHolds
<1>6. /\ errand' = [errand EXCEPT ![o] = x] /\ cache' = r.zone
      /\ Muddling("zone", profile # r.read \/ CachedByAnother(o))
      /\ UNCHANGED <<topic, templates, lapsed, company, units, types, profile, asked>>
  BY <1>1, <1>3 DEF CacheZone, Send, CompanyOnly
<1>7. /\ muddled \subseteq muddled'
      /\ (profile # r.read \/ CachedByAnother(o)) => "zone" \in muddled'
  BY <1>6, MuddledGrows
<1>8. ZoneHolds'
  <2> SUFFICES ASSUME "zone" \notin muddled' PROVE ZoneHolds'
    BY DEF ZoneHolds
  <2>1. \A p \in Owner : Storing(p)' => p = o
    BY <1>6, <1>7 DEF Storing, CachedByAnother, SettingsTypes
  <2>2. errand'[o] = x /\ Storing(o)'
    BY <1>2, <1>4, <1>6, SettingsAssumption DEF Storing, SettingsTypes, SettingsAssumption
  <2> QED BY <1>4, <1>6, <1>7, <2>1, <2>2 DEF ZoneHolds
<1>9. profile' \in Zone /\ cache' \in Zone \cup {Nothing}
      /\ asked' \in [type : Business, zone : Zone, on : SUBSET Flag, off : SUBSET Flag]
  BY <1>2, <1>6 DEF SettingsTypes
<1> QED BY <1>1, <1>2, <1>4, <1>5, <1>6, <1>8, <1>9, ZoneChange

LEMMA StoreProfileHolds ==
    ASSUME SettingsInv, NEW o \in Owner, StoreProfile(o)
    PROVE  SettingsInv'
<1> USE DEF SettingsInv
<1>1. PICK r \in Errands : r = errand[o]
  BY DEF SettingsTypes
<1>2. r \in Stores /\ r.step = "store" /\ r.zone \in Zone \cup {Nothing} /\ r.read \in Zone
  BY <1>1, ErrandKinds DEF StoreProfile, Stores
<1>3. /\ errand' = [errand EXCEPT ![o] = Doing]
      /\ profile' = (IF r.zone = Nothing THEN r.read ELSE r.zone)
      /\ asked' = [asked EXCEPT !.zone = IF r.zone = Nothing THEN @ ELSE r.zone]
      /\ Muddling("zone", profile # r.read)
      /\ UNCHANGED <<topic, templates, lapsed, company, units, types, cache>>
  BY <1>1 DEF StoreProfile, Send, CompanyOnly
<1>4. /\ muddled \subseteq muddled' /\ (profile # r.read => "zone" \in muddled')
  BY <1>3, MuddledGrows
<1>5. /\ asked' \in [type : Business, zone : Zone, on : SUBSET Flag, off : SUBSET Flag]
      /\ asked'.type = asked.type /\ asked'.on = asked.on /\ asked'.off = asked.off
      /\ asked'.zone = IF r.zone = Nothing THEN asked.zone ELSE r.zone
  <2>1. asked \in [type : Business, zone : Zone, on : SUBSET Flag, off : SUBSET Flag]
    BY DEF SettingsTypes
  <2> QED BY <1>2, <1>3, <2>1
<1>6. profile' \in Zone /\ cache' \in Zone \cup {Nothing}
  BY <1>2, <1>3 DEF SettingsTypes
<1>7. ZoneHolds'
  <2> SUFFICES ASSUME "zone" \notin muddled' PROVE ZoneHolds'
    BY DEF ZoneHolds
  <2>1. profile = r.read /\ profile = asked.zone
    BY <1>4 DEF ZoneHolds
  <2>2. errand'[o] = Doing /\ \A p \in Owner : p # o => errand'[p] = errand[p]
    BY <1>3 DEF SettingsTypes
  <2>3. \A p \in Owner : Storing(p)' => p # o /\ Storing(p)
    BY <2>2, DoingFits DEF Storing
  <2>4. \A p \in Owner : p # o /\ Storing(p) => Storing(p)'
    BY <2>2 DEF Storing
  <2>5. \A p \in Owner : Storing(p)' => cache' = errand'[p].zone
    BY <1>3, <1>4, <2>2, <2>3 DEF ZoneHolds
  <2>6. profile' = asked'.zone
    BY <1>3, <1>5, <2>1
  <2>7. (\A p \in Owner : ~Storing(p)') => cache' \in {Nothing, profile'}
    <3>1. CASE r.zone = Nothing
      <4>1. ~Storing(o)
        BY <1>1, <3>1 DEF Storing
      <4> QED BY <1>3, <1>4, <2>1, <2>4, <3>1, <4>1 DEF ZoneHolds
    <3>2. CASE r.zone # Nothing
      <4>1. Storing(o) /\ cache = r.zone
        BY <1>1, <1>2, <1>4, <3>2 DEF Storing, ZoneHolds
      <4> QED BY <1>3, <3>2, <4>1
    <3> QED BY <3>1, <3>2
  <2> QED BY <2>5, <2>6, <2>7 DEF ZoneHolds
<1> QED BY <1>1, <1>2, <1>3, <1>5, <1>6, <1>7, DoingFits, DoingHoldsNow, ZoneChange

LEMMA AskZoneHolds ==
    ASSUME SettingsInv, NEW o \in Owner, AskZone(o)
    PROVE  SettingsInv'
<1> DEFINE x == [step |-> "show", read |-> profile]
<1>1. x \in Shows /\ x.step = "show"
  BY DEF Shows, SettingsInv, SettingsTypes
<1>2. x \in Errands /\ ErrandHolds(x)
  BY <1>1 DEF Errands, ErrandHolds
<1>3. errand[o].step = "idle" /\ errand' = [errand EXCEPT ![o] = x]
  BY DoingFits DEF AskZone, Ready, Send
<1>4. UNCHANGED <<topic, templates, lapsed, companyVars, units, types, muddled>>
  BY DEF AskZone, CompanyOnly
<1> HIDE DEF x
<1> QED BY <1>1, <1>2, <1>3, <1>4, OnlyErrandChanges DEF Storing

LEMMA ShowZoneHolds ==
    ASSUME SettingsInv, NEW o \in Owner, ShowZone(o)
    PROVE  SettingsInv'
<1> USE DEF SettingsInv
<1>1. PICK r \in Errands : r = errand[o]
  BY DEF SettingsTypes
<1>2. r \in Shows /\ r.step = "show" /\ r.read \in Zone
  BY <1>1, ErrandKinds DEF ShowZone, Shows
<1>3. /\ errand' = [errand EXCEPT ![o] = Doing] /\ cache' = r.read
      /\ Muddling("zone", profile # r.read \/ CachedByAnother(o))
      /\ UNCHANGED <<topic, templates, lapsed, company, units, types, profile, asked>>
  BY <1>1 DEF ShowZone, Send, CompanyOnly
<1>4. /\ muddled \subseteq muddled'
      /\ (profile # r.read \/ CachedByAnother(o)) => "zone" \in muddled'
  BY <1>3, MuddledGrows
<1>5. ZoneHolds'
  <2> SUFFICES ASSUME "zone" \notin muddled' PROVE ZoneHolds'
    BY DEF ZoneHolds
  <2>1. \A p \in Owner : ~Storing(p)'
    BY <1>3, <1>4, DoingFits DEF Storing, CachedByAnother, SettingsTypes
  <2> QED BY <1>3, <1>4, <2>1 DEF ZoneHolds
<1>6. profile' \in Zone /\ cache' \in Zone \cup {Nothing}
      /\ asked' \in [type : Business, zone : Zone, on : SUBSET Flag, off : SUBSET Flag]
  BY <1>2, <1>3 DEF SettingsTypes
<1> QED BY <1>1, <1>2, <1>3, <1>5, <1>6, DoingFits, DoingHoldsNow, ZoneChange

LEMMA CompanyStepHolds ==
    ASSUME SettingsInv, NEW o \in Owner, CompanyStep(o)
    PROVE  SettingsInv'
<1>1. CASE \E type \in Business \cup {Nothing}, flag \in Flag \cup {Nothing},
             on \in BOOLEAN, zone \in Zone \cup {Nothing} :
             AskCompany(o, type, IF on THEN {flag} \ {Nothing} ELSE {},
                        IF on THEN {} ELSE {flag} \ {Nothing}, zone)
  <2>1. PICK type \in Business \cup {Nothing}, flag \in Flag \cup {Nothing},
             on \in BOOLEAN, zone \in Zone \cup {Nothing} :
             AskCompany(o, type, IF on THEN {flag} \ {Nothing} ELSE {},
                        IF on THEN {} ELSE {flag} \ {Nothing}, zone)
    BY <1>1
  <2>2. PICK a, b : /\ a = IF on THEN {flag} \ {Nothing} ELSE {}
                    /\ b = IF on THEN {} ELSE {flag} \ {Nothing}
    OBVIOUS
  <2>3. a \in SUBSET Flag /\ b \in SUBSET Flag /\ a \cap b = {}
    BY <2>2
  <2> QED BY <2>1, <2>2, <2>3, AskCompanyHolds
<1>2. CASE WriteCompany(o) \/ ReadProfile(o) \/ CacheZone(o) \/ StoreProfile(o) \/ AskZone(o)
             \/ ShowZone(o)
  BY <1>2, WriteCompanyHolds, ReadProfileHolds, CacheZoneHolds, StoreProfileHolds,
     AskZoneHolds, ShowZoneHolds
<1> QED BY <1>1, <1>2 DEF CompanyStep

\* A step that changes units or payment types.
LEMMA ListChange ==
    ASSUME SettingsInv, NEW o \in Owner, NEW x \in Errands, errand' = [errand EXCEPT ![o] = x],
           ListsOnly, errand[o].step \in {"idle", "unit"}, x.step # "store", ErrandHolds(x),
           units' \in [UnitKind -> 0 .. MaxUnits], types' \subseteq TypeName,
           NEW part \in {"unit", "types"}, NEW changed, Muddling(part, changed),
           ListsAreWhole'
    PROVE  SettingsInv'
<1> USE DEF SettingsInv, ListsOnly, companyVars
<1>1. /\ errand' \in [Owner -> Errands] /\ ErrandsHold' /\ TemplatesHold'
      /\ topic' \in Topics /\ templates' \in [Kind -> Template] /\ lapsed' \in BOOLEAN
      /\ muddled \subseteq muddled'
      /\ muddled' \subseteq {"tag", "cheque", "company", "zone", "unit", "types"}
  BY OtherChange
<1>2. SettingsTypes'
  BY <1>1 DEF SettingsTypes
<1>3. CompanyHolds'
  BY <1>1 DEF CompanyHolds
<1>4. ZoneHolds'
  <2>1. \A p \in Owner : (Storing(p)' <=> Storing(p)) /\ (Storing(p) => errand'[p] = errand[p])
    BY DEF Storing, SettingsTypes
  <2> QED BY <1>1, <2>1 DEF ZoneHolds
<1> QED BY <1>1, <1>2, <1>3, <1>4

LEMMA AskUnitHolds ==
    ASSUME SettingsInv, NEW o \in Owner, NEW u \in UnitKind, AskUnit(o, u)
    PROVE  SettingsInv'
<1> USE DEF SettingsInv
<1>1. PICK us : us = units'
  OBVIOUS
<1>2. PICK x : x = [step |-> "unit", unit |-> u, seen |-> us]
  OBVIOUS
<1>3. /\ us = Seeded(units) /\ us[u] = 0 /\ errand[o] = Doing /\ muddled = {}
      /\ errand' = [errand EXCEPT ![o] = x] /\ types' = types /\ muddled' = muddled /\ ListsOnly
  BY <1>1, <1>2 DEF AskUnit, Ready, Send
<1>4. us \in [UnitKind -> 0 .. MaxUnits]
  BY <1>3, SettingsAssumption DEF SettingsTypes, Seeded, SettingsAssumption
<1>5. x \in UnitErrands /\ x.step = "unit" /\ x.seen = us /\ x.unit = u
  BY <1>2, <1>4 DEF UnitErrands
<1>6. x \in Errands /\ ErrandHolds(x)
  BY <1>3, <1>5 DEF Errands, ErrandHolds
<1>7. ListsAreWhole'
  <2>1. \A v \in UnitKind : us[v] <= 1
    BY <1>3, SettingsAssumption DEF Seeded, SettingsTypes, ListsAreWhole, SettingsAssumption
  <2> QED BY <1>1, <1>3, <1>5, <2>1 DEF ListsAreWhole, SettingsTypes
<1>8. Muddling("unit", FALSE)
  BY <1>3 DEF Muddling
<1> QED BY <1>1, <1>3, <1>4, <1>5, <1>6, <1>7, <1>8, DoingFits, ListChange DEF SettingsTypes

LEMMA CreateUnitHolds ==
    ASSUME SettingsInv, NEW o \in Owner, CreateUnit(o)
    PROVE  SettingsInv'
<1> USE DEF SettingsInv
<1>1. PICK r \in Errands : r = errand[o]
  BY DEF SettingsTypes
<1>2. r \in UnitErrands /\ r.step = "unit" /\ r.unit \in UnitKind /\ ErrandHolds(r)
  BY <1>1, ErrandKinds DEF CreateUnit, UnitErrands, ErrandsHold
<1>3. /\ units[r.unit] < MaxUnits /\ units' = [units EXCEPT ![r.unit] = @ + 1]
      /\ Muddling("unit", units # r.seen) /\ errand' = [errand EXCEPT ![o] = Doing]
      /\ types' = types /\ ListsOnly
  BY <1>1 DEF CreateUnit, Send
<1>4. units' \in [UnitKind -> 0 .. MaxUnits]
  BY <1>2, <1>3, SettingsAssumption DEF SettingsTypes, SettingsAssumption
<1>5. muddled \subseteq muddled' /\ (units # r.seen => "unit" \in muddled')
  BY <1>3, MuddledGrows
<1>6. ListsAreWhole'
  <2>1. "unit" \notin muddled' => \A v \in UnitKind : units'[v] <= 1
    <3> SUFFICES ASSUME "unit" \notin muddled', NEW v \in UnitKind PROVE units'[v] <= 1
      OBVIOUS
    <3>1. units[r.unit] = 0 /\ units[v] <= 1
      BY <1>2, <1>5 DEF ErrandHolds, ListsAreWhole
    <3> QED BY <1>2, <1>3, <3>1 DEF SettingsTypes
  <2> QED BY <1>3, <1>5, <2>1, DoingFits DEF ListsAreWhole, SettingsTypes
<1> QED BY <1>1, <1>2, <1>3, <1>4, <1>6, DoingFits, DoingHoldsNow, ListChange DEF SettingsTypes

LEMMA TypesHold ==
    ASSUME SettingsInv, NEW o \in Owner,
           AskTypes(o) \/ \E t \in TypeName : CreateType(o, t) \/ RemoveType(o, t, {})
                          \/ \E s \in TypeName : RemoveType(o, t, {s})
    PROVE  SettingsInv'
<1> USE DEF SettingsInv
<1>1. CASE AskTypes(o)
  <2>1. PICK x : x = [step |-> "list"]
    OBVIOUS
  <2>2. x \in Errands /\ x.step = "list" /\ ErrandHolds(x)
    BY <2>1 DEF Errands, ErrandHolds
  <2>3. /\ errand[o] = Doing /\ types' = types \cup {DebtType}
        /\ errand' = [errand EXCEPT ![o] = x] /\ units' = units /\ muddled' = muddled /\ ListsOnly
    BY <1>1, <2>1 DEF AskTypes, Ready, Send
  <2>4. types' \subseteq TypeName /\ Muddling("types", FALSE)
    BY <2>3, SettingsAssumption DEF SettingsTypes, SettingsAssumption, Muddling
  <2>5. ListsAreWhole'
    BY <2>3 DEF ListsAreWhole
  <2> QED BY <2>2, <2>3, <2>4, <2>5, DoingFits, ListChange DEF SettingsTypes
<1>2. ASSUME NEW t \in TypeName, CreateType(o, t) PROVE SettingsInv'
  <2>1. /\ errand[o] = Doing /\ types' = types \cup {t} /\ errand' = errand /\ units' = units
        /\ muddled' = muddled /\ ListsOnly
    BY <1>2 DEF CreateType, Ready
  <2>2. types' \subseteq TypeName /\ Muddling("types", FALSE) /\ ListsAreWhole'
        /\ errand' = [errand EXCEPT ![o] = Doing]
    BY <2>1 DEF SettingsTypes, Muddling, ListsAreWhole
  <2> QED BY <2>1, <2>2, DoingFits, DoingHoldsNow, ListChange DEF SettingsTypes
<1>3. ASSUME NEW t \in TypeName, NEW new \in SUBSET TypeName, RemoveType(o, t, new)
      PROVE  SettingsInv'
  <2>1. PICK busy : busy = (t = DebtType /\ \E p \in Owner : errand[p].step = "list")
    OBVIOUS
  <2>2. /\ errand[o] = Doing /\ types' = (types \ {t}) \cup new /\ errand' = errand
        /\ units' = units /\ Muddling("types", busy) /\ ListsOnly
    BY <1>3, <2>1 DEF RemoveType, Ready
  <2>3. muddled \subseteq muddled' /\ (busy => "types" \in muddled')
    BY <2>2, MuddledGrows
  <2>4. types' \subseteq TypeName /\ errand' = [errand EXCEPT ![o] = Doing]
    BY <2>2 DEF SettingsTypes
  <2>5. ListsAreWhole'
    BY <2>1, <2>2, <2>3 DEF ListsAreWhole
  <2> QED BY <2>2, <2>4, <2>5, DoingFits, DoingHoldsNow, ListChange DEF SettingsTypes
<1> QED BY <1>1, <1>2, <1>3

LEMMA EndErrandHolds ==
    ASSUME SettingsInv, NEW o \in Owner, EndErrand(o)
    PROVE  SettingsInv'
<1> USE DEF SettingsInv, companyVars
<1>1. PICK r \in Errands : r = errand[o]
  BY DEF SettingsTypes
<1>2. PICK promoting : promoting = (r.step \in {"promote", "promoting"})
  OBVIOUS
<1>3. /\ errand' = [errand EXCEPT ![o] = Doing]
      /\ Muddling("zone", Storing(o)) /\ lapsed' = (lapsed \/ r.step \in {"promote", "promoting"})
      /\ UNCHANGED <<topic, templates, companyVars, units, types>>
  BY <1>1 DEF EndErrand, Send, Storing
<1>4. /\ muddled \subseteq muddled' /\ (Storing(o) => "zone" \in muddled')
      /\ muddled' \subseteq {"tag", "cheque", "company", "zone", "unit", "types"}
  BY <1>3, MuddledGrows
<1>5. errand'[o] = Doing /\ \A p \in Owner : p # o => errand'[p] = errand[p]
  BY <1>3 DEF SettingsTypes
<1>6. SettingsTypes'
  <2>1. errand' \in [Owner -> Errands] /\ lapsed' \in BOOLEAN
    BY <1>3, DoingFits DEF SettingsTypes
  <2> QED BY <1>3, <1>4, <2>1 DEF SettingsTypes
<1>7. ErrandsHold'
  <2> SUFFICES ASSUME NEW p \in Owner PROVE ErrandHolds(errand[p])'
    BY DEF ErrandsHold
  <2>1. PICK q \in Errands : q = errand'[p]
    BY <1>6 DEF SettingsTypes
  <2>2. ErrandHolds(q)
    BY <1>5, <2>1, DoingHoldsNow DEF ErrandsHold
  <2>3. ErrandHolds(q)'
    BY <1>3, <2>2 DEF ErrandHolds, Ages, Present
  <2> QED BY <2>1, <2>3
<1>8. TemplatesHold'
  <2>1. Naming => Naming' \/ lapsed'
    BY <1>1, <1>3, <1>5 DEF Naming
  <2>2. \A k \in Kind : DefaultHolds(k)'
    BY <1>3, <1>4, <2>1 DEF TemplatesHold, DefaultHolds
  <2> QED BY <1>3, <2>2 DEF TemplatesHold
<1>9. CompanyHolds'
  BY <1>3, <1>4 DEF CompanyHolds
<1>10. ZoneHolds'
  <2> SUFFICES ASSUME "zone" \notin muddled' PROVE ZoneHolds'
    BY DEF ZoneHolds
  <2>1. \A p \in Owner : Storing(p)' <=> Storing(p)
    BY <1>4, <1>5, DoingFits DEF Storing
  <2>2. \A p \in Owner : Storing(p) => errand'[p] = errand[p]
    BY <1>4, <1>5
  <2> QED BY <1>3, <1>4, <2>1, <2>2 DEF ZoneHolds
<1>11. ListsAreWhole'
  BY <1>3, <1>4, <1>5, DoingFits DEF ListsAreWhole
<1> QED BY <1>6, <1>7, <1>8, <1>9, <1>10, <1>11

LEMMA RestartServerHolds ==
    ASSUME SettingsInv, RestartServer
    PROVE  SettingsInv'
<1> USE DEF SettingsInv
<1>1. /\ topic = "company" /\ errand' = [p \in Owner |-> Doing] /\ cache' = Nothing
      /\ UNCHANGED <<topic, templates, units, types, lapsed, company, profile, asked, muddled>>
  BY DEF RestartServer, CompanyOnly
<1>2. SettingsTypes'
  BY <1>1, DoingFits DEF SettingsTypes
<1>3. ErrandsHold'
  BY <1>1, DoingHolds DEF ErrandsHold
<1>4. TemplatesHold'
  <2>1. \A k \in Kind : Present(templates[k]) = {}
    BY <1>1 DEF TemplatesHold
  <2>2. \A k \in Kind : DefaultHolds(k)'
    BY <1>1, <2>1 DEF TemplatesHold, DefaultHolds
  <2> QED BY <1>1, <2>1, <2>2 DEF TemplatesHold
<1>5. CompanyHolds'
  BY <1>1 DEF CompanyHolds
<1>6. ZoneHolds'
  <2>1. \A p \in Owner : ~Storing(p)'
    BY <1>1, DoingFits DEF Storing
  <2> QED BY <1>1, <2>1 DEF ZoneHolds
<1>7. ListsAreWhole'
  BY <1>1, DoingFits DEF ListsAreWhole
<1> QED BY <1>2, <1>3, <1>4, <1>5, <1>6, <1>7

LEMMA SettingsSteps ==
    ASSUME SettingsInv, [SettingsNext]_settingsVars
    PROVE  SettingsInv'
<1>1. CASE SettingsNext
  <2>1. ASSUME NEW o \in Owner, topic = "tags" /\ TagStep(o) PROVE SettingsInv'
    BY <2>1, TagStepHolds
  <2>2. ASSUME NEW o \in Owner, topic = "cheques" /\ ChequeStep(o) PROVE SettingsInv'
    BY <2>2, ChequeStepHolds
  <2>3. ASSUME NEW o \in Owner, CompanyStep(o) PROVE SettingsInv'
    BY <2>3, CompanyStepHolds
  <2>4. ASSUME NEW o \in Owner, ListStep(o) PROVE SettingsInv'
    BY <2>4, AskUnitHolds, CreateUnitHolds, TypesHold DEF ListStep
  <2>5. ASSUME NEW o \in Owner, EndErrand(o) PROVE SettingsInv'
    BY <2>5, EndErrandHolds
  <2> QED BY <1>1, <2>1, <2>2, <2>3, <2>4, <2>5, RestartServerHolds DEF SettingsNext
<1>2. CASE UNCHANGED settingsVars
  <2> USE <1>2 DEF settingsVars, SettingsInv
  <2>1. SettingsTypes'
    BY DEF SettingsTypes
  <2>2. ErrandsHold'
    BY DEF ErrandsHold, ErrandHolds, Ages, Present
  <2>3. TemplatesHold'
    BY DEF TemplatesHold, DefaultHolds, Naming
  <2>4. CompanyHolds' /\ ZoneHolds' /\ ListsAreWhole'
    BY DEF CompanyHolds, ZoneHolds, Storing, ListsAreWhole
  <2> QED BY <2>1, <2>2, <2>3, <2>4
<1> QED BY <1>1, <1>2

-----------------------------------------------------------------------------
(* The cards of clients.                                                   *)

CardRow == [code : Nat \ {0}, teams : SUBSET Team, allowed : BOOLEAN, consented : BOOLEAN,
            revoked : BOOLEAN]
TeamsNamed == {Same} \cup SUBSET Team
Answers == {Same} \cup BOOLEAN
FrontRequests ==
    {Idling}
        \cup [step : {"create"}, code : Nat \ {0}, teams : SUBSET Team, allowed : BOOLEAN]
        \cup [step : {"edit"}, card : Person, teams : TeamsNamed, allowed : Answers]
        \cup [step : {"editing"}, card : Person,
              teams : [old : SUBSET Team, new : TeamsNamed], allowed : Answers]

\* A new card has a number that is taken or the next; a profile that is being saved
\* has deleted the groups the client is in, and is alone.
FrontsHold ==
    /\ \A p \in Front :
          /\ front[p].step = "create" => front[p].code \in 1 .. Cardinality(Registered) + 1
          /\ front[p].step \in {"edit", "editing"} => front[p].card \in Registered
          /\ front[p].step = "editing" => front[p].teams.old = card[front[p].card].teams
    /\ \A p, o \in Front :
          front[p].step = "editing" /\ front[o].step = "editing"
              /\ front[p].card = front[o].card => p = o

CardInv ==
    /\ card \in [Person -> {NoCard} \cup CardRow]
    /\ front \in [Front -> FrontRequests]
    /\ wished \in [Person -> [teams : SUBSET Team, allowed : BOOLEAN]]
    /\ FrontsHold
    /\ CardsAgree

LEMMA RegisteredFacts ==
    ASSUME card \in [Person -> {NoCard} \cup CardRow]
    PROVE  /\ Registered \subseteq Person /\ IsFiniteSet(Registered)
           /\ Cardinality(Registered) \in Nat /\ Cardinality(Person) \in Nat
           /\ Cardinality(Registered) <= Cardinality(Person)
           /\ \A c \in Registered : card[c] \in CardRow
BY CardAssumption, FS_Subset, FS_CardinalityType DEF Registered, CardAssumption

LEMMA CardKept == CardInv => CardTypeOK
<1> SUFFICES ASSUME CardInv PROVE CardTypeOK
  OBVIOUS
<1>1. ASSUME NEW c \in Registered
      PROVE  card[c] \in [code : 1 .. Cardinality(Person), teams : SUBSET Team,
                          allowed : BOOLEAN, consented : BOOLEAN, revoked : BOOLEAN]
  <2>1. card[c] \in CardRow /\ card[c].code \in 1 .. Cardinality(Registered)
    BY RegisteredFacts DEF CardInv, CardsAgree
  <2>2. card[c].code \in 1 .. Cardinality(Person)
    BY <2>1, RegisteredFacts DEF CardInv
  <2> QED BY <2>1, <2>2 DEF CardRow
<1>2. \A p \in Front : front[p].step \in {"idle", "create", "edit", "editing"}
  BY DEF CardInv, FrontRequests, Idling
<1> QED BY <1>1, <1>2 DEF CardInv, CardTypeOK

LEMMA CardsBegin == CardInit => CardInv
<1> SUFFICES ASSUME CardInit PROVE CardInv
  OBVIOUS
<1>1. Registered = {} /\ Cardinality(Registered) = 0
  BY FS_EmptySet DEF CardInit, Registered
<1>2. \A p \in Front : front[p] = Idling /\ front[p].step = "idle"
  BY DEF CardInit, Idling
<1>3. FrontsHold
  BY <1>2 DEF FrontsHold
<1>4. CardsAgree
  BY <1>1 DEF CardsAgree
<1> QED BY <1>3, <1>4 DEF CardInv, CardInit, FrontRequests

\* A request that changes no card.
LEMMA AskKeepsCards ==
    ASSUME CardInv, NEW p \in Front, NEW r \in FrontRequests, At(p, r),
           UNCHANGED <<card, wished>>,
           r.step = "create" => r.code \in 1 .. Cardinality(Registered) + 1,
           r.step \in {"edit", "editing"} => r.card \in Registered,
           r.step = "editing" => r.teams.old = card[r.card].teams /\ Untouched(r.card)
    PROVE  CardInv'
<1> USE DEF CardInv
<1>1. /\ front' \in [Front -> FrontRequests] /\ front'[p] = r
      /\ \A o \in Front \ {p} : front'[o] = front[o]
  BY DEF At
<1>2. Registered' = Registered
  BY DEF Registered
<1>3. FrontsHold'
  BY <1>1, <1>2 DEF FrontsHold, Untouched
<1>4. CardsAgree'
  BY <1>2 DEF CardsAgree
<1> QED BY <1>1, <1>3, <1>4

LEMMA RequestsKeepCards ==
    ASSUME CardInv, NEW p \in Front,
           \/ \E teams \in SUBSET Team, allowed \in BOOLEAN : AskCard(p, teams, allowed)
           \/ \E c \in Person, teams \in TeamsNamed, allowed \in Answers :
                 AskProfile(p, c, teams, allowed)
           \/ TakeCard(p) \/ DropCard(p)
    PROVE  CardInv'
<1>1. Cardinality(Registered) \in Nat
  BY RegisteredFacts DEF CardInv
<1>2. ASSUME NEW teams \in SUBSET Team, NEW allowed \in BOOLEAN, AskCard(p, teams, allowed)
      PROVE  CardInv'
  <2> DEFINE r == [step |-> "create", code |-> Cardinality(Registered) + 1, teams |-> teams,
                   allowed |-> allowed]
  <2>1. /\ r \in FrontRequests /\ r.step = "create"
        /\ r.code \in 1 .. Cardinality(Registered) + 1
    BY <1>1 DEF FrontRequests
  <2>2. At(p, r) /\ UNCHANGED <<card, wished>>
    BY <1>2 DEF AskCard
  <2> HIDE DEF r
  <2> QED BY <2>1, <2>2, AskKeepsCards
<1>3. ASSUME NEW c \in Person, NEW teams \in TeamsNamed, NEW allowed \in Answers,
             AskProfile(p, c, teams, allowed)
      PROVE  CardInv'
  <2> DEFINE r == [step |-> "edit", card |-> c, teams |-> teams, allowed |-> allowed]
  <2>1. r \in FrontRequests /\ r.step = "edit" /\ r.card = c
    BY DEF FrontRequests
  <2>2. At(p, r) /\ UNCHANGED <<card, wished>> /\ c \in Registered
    BY <1>3 DEF AskProfile
  <2> HIDE DEF r
  <2> QED BY <2>1, <2>2, AskKeepsCards
<1>4. CASE TakeCard(p)
  <2> DEFINE q == front[p]
             t == [old |-> card[q.card].teams, new |-> q.teams]
             r == [q EXCEPT !.step = "editing", !.teams = t]
  <2>1. /\ At(p, r) /\ UNCHANGED <<card, wished>> /\ q.step = "edit" /\ Untouched(q.card)
        /\ q.card \in Registered
    BY <1>4 DEF TakeCard, CardInv, FrontsHold
  <2>2. /\ q \in [step : {"edit"}, card : Person, teams : TeamsNamed, allowed : Answers]
        /\ card[q.card] \in CardRow
    BY <2>1, RegisteredFacts DEF CardInv, FrontRequests, Idling
  <2>3. t \in [old : SUBSET Team, new : TeamsNamed] /\ t.old = card[q.card].teams
    BY <2>2 DEF CardRow
  <2> HIDE DEF q, t
  <2>4. /\ r \in FrontRequests /\ r.step = "editing" /\ r.card = q.card
        /\ r.teams.old = card[q.card].teams
    BY <2>2, <2>3 DEF FrontRequests
  <2> HIDE DEF r
  <2> QED BY <2>1, <2>4, AskKeepsCards
<1>5. CASE DropCard(p)
  <2>1. Idling \in FrontRequests /\ Idling.step = "idle"
    BY DEF FrontRequests, Idling
  <2> QED BY <1>5, <2>1, AskKeepsCards DEF DropCard
<1> QED BY <1>2, <1>3, <1>4, <1>5

LEMMA CreateCardKeeps ==
    ASSUME CardInv, NEW p \in Front, NEW c \in Person, CreateCard(p, c)
    PROVE  CardInv'
<1> USE DEF CardInv
<1> DEFINE r == front[p]
           x == [code |-> r.code, teams |-> r.teams, allowed |-> r.allowed,
                 consented |-> r.allowed, revoked |-> ~r.allowed]
           w == [teams |-> r.teams, allowed |-> r.allowed]
           n == Cardinality(Registered)
<1>1. /\ r.step = "create" /\ card[c] = NoCard
      /\ \A d \in Registered : card[d].code # r.code
      /\ card' = [card EXCEPT ![c] = x] /\ wished' = [wished EXCEPT ![c] = w] /\ At(p, Idling)
  BY DEF CreateCard
<1>2. r \in [step : {"create"}, code : Nat \ {0}, teams : SUBSET Team, allowed : BOOLEAN]
  BY <1>1 DEF FrontRequests, Idling
<1>3. n \in Nat /\ IsFiniteSet(Registered) /\ Registered \subseteq Person
  BY RegisteredFacts
<1>4. r.code = n + 1
  <2>1. r.code \in 1 .. n + 1 /\ {card[d].code : d \in Registered} = 1 .. n
    BY <1>1 DEF FrontsHold, CardsAgree
  <2>2. r.code \notin 1 .. n
    BY <1>1, <2>1
  <2> HIDE DEF n, r
  <2> QED BY <1>3, <2>1, <2>2
<1>5. /\ x \in CardRow /\ x.code = r.code /\ x.teams = r.teams /\ x.allowed = r.allowed
      /\ x.allowed => x.consented /\ ~x.revoked
      /\ w \in [teams : SUBSET Team, allowed : BOOLEAN]
      /\ w.teams = r.teams /\ w.allowed = r.allowed
  <2>1. \A b \in BOOLEAN : (~b) \in BOOLEAN
    OBVIOUS
  <2> QED BY <1>2, <2>1 DEF CardRow
<1>6. \A y \in CardRow : y # NoCard
  BY DEF CardRow, NoCard
<1> HIDE DEF x, w, n, r
<1>7. /\ card' \in [Person -> {NoCard} \cup CardRow] /\ card'[c] = x
      /\ \A d \in Person \ {c} : card'[d] = card[d]
      /\ wished' \in [Person -> [teams : SUBSET Team, allowed : BOOLEAN]] /\ wished'[c] = w
      /\ \A d \in Person \ {c} : wished'[d] = wished[d]
  BY <1>1, <1>5
<1>8. /\ front' \in [Front -> FrontRequests] /\ front'[p] = Idling /\ front'[p].step = "idle"
      /\ \A o \in Front \ {p} : front'[o] = front[o]
  BY <1>1 DEF At, FrontRequests, Idling
<1>9. /\ Registered' = Registered \cup {c} /\ c \notin Registered
      /\ Cardinality(Registered)' = n + 1
  <2>1. Registered' = Registered \cup {c} /\ c \notin Registered
    BY <1>1, <1>5, <1>6, <1>7 DEF Registered
  <2>2. Cardinality(Registered \cup {c}) = Cardinality(Registered) + 1
    BY <1>3, <2>1, FS_AddElement
  <2> QED BY <2>1, <2>2 DEF n
<1>10. FrontsHold'
  <2>1. \A k : k \in 1 .. n + 1 => k \in 1 .. (n + 1) + 1
    BY <1>3
  <2> QED BY <1>1, <1>7, <1>8, <1>9, <2>1 DEF FrontsHold, n
<1>11. CardsAgree'
  <2>1. {card'[d].code : d \in Registered'} = 1 .. n + 1
    <3>1. {card[d].code : d \in Registered} = 1 .. n
      BY DEF CardsAgree, n
    <3>2. {card'[d].code : d \in Registered'} = {card[d].code : d \in Registered} \cup {n + 1}
      <4>1. \A d \in Registered : card'[d] = card[d] /\ d \in Registered'
        BY <1>3, <1>7, <1>9
      <4>2. card'[c].code = n + 1 /\ c \in Registered'
        BY <1>4, <1>5, <1>7, <1>9
      <4> QED BY <1>9, <4>1, <4>2
    <3>3. (1 .. n) \cup {n + 1} = 1 .. n + 1
      BY <1>3
    <3> QED BY <3>1, <3>2, <3>3
  <2>2. ASSUME NEW d \in Registered'
        PROVE  /\ card'[d].teams = wished'[d].teams
               /\ card'[d].allowed = wished'[d].allowed
               /\ card'[d].allowed => card'[d].consented /\ ~card'[d].revoked
    <3>1. CASE d = c
      BY <1>5, <1>7, <3>1
    <3>2. CASE d # c
      BY <1>3, <1>7, <1>9, <3>2 DEF CardsAgree
    <3> QED BY <3>1, <3>2
  <2> QED BY <1>9, <2>1, <2>2 DEF CardsAgree
<1> QED BY <1>7, <1>8, <1>10, <1>11

LEMMA CommitProfileKeeps ==
    ASSUME CardInv, NEW p \in Front, CommitProfile(p)
    PROVE  CardInv'
<1> USE DEF CardInv
<1> DEFINE r == front[p]
           c == r.card
           a == r.allowed
           said == a = TRUE
           teams == IF r.teams.new = Same THEN card[c].teams
                    ELSE (card[c].teams \ r.teams.old) \cup r.teams.new
           x == [card[c] EXCEPT !.teams = teams,
                                !.allowed = IF a = Same THEN @ ELSE a,
                                !.consented = @ \/ said,
                                !.revoked = IF a = Same THEN @ ELSE ~a]
           w == [wished[c] EXCEPT !.teams = IF r.teams.new = Same THEN @ ELSE r.teams.new,
                                  !.allowed = IF a = Same THEN @ ELSE a]
<1>1. r.step = "editing" /\ At(p, Idling) /\ c \in Registered
      /\ r.teams.old = card[c].teams
  BY DEF CommitProfile, FrontsHold
<1>2. /\ r \in [step : {"editing"}, card : Person,
                teams : [old : SUBSET Team, new : TeamsNamed], allowed : Answers]
      /\ card[c] \in CardRow /\ c \in Person
      /\ wished[c] \in [teams : SUBSET Team, allowed : BOOLEAN]
  BY <1>1, RegisteredFacts DEF FrontRequests, Idling
<1>3. card' = [card EXCEPT ![c] = x] /\ wished' = [wished EXCEPT ![c] = w]
  BY <1>2 DEF CommitProfile
<1>4. /\ a \in Answers /\ r.teams.new \in TeamsNamed /\ said \in BOOLEAN
      /\ a # Same => a \in BOOLEAN /\ said = a /\ (~a) \in BOOLEAN
  BY <1>2, CardAssumption DEF Answers
<1>5. /\ card[c].teams = wished[c].teams /\ card[c].allowed = wished[c].allowed
      /\ card[c].allowed => card[c].consented /\ ~card[c].revoked
  BY <1>1 DEF CardsAgree
<1>6. /\ teams \in SUBSET Team
      /\ teams = IF r.teams.new = Same THEN wished[c].teams ELSE r.teams.new
  BY <1>1, <1>2, <1>4, <1>5 DEF CardRow, TeamsNamed
<1> HIDE DEF said, teams, a
<1>7. /\ x \in CardRow /\ x.code = card[c].code
      /\ w \in [teams : SUBSET Team, allowed : BOOLEAN]
      /\ x.teams = w.teams /\ x.allowed = w.allowed
      /\ x.allowed => x.consented /\ ~x.revoked
  <2>1. CASE a = Same
    <3>1. x = [card[c] EXCEPT !.teams = teams, !.consented = @ \/ said]
      BY <1>2, <2>1 DEF CardRow
    <3> QED BY <1>2, <1>4, <1>5, <1>6, <2>1, <3>1 DEF CardRow
  <2>2. CASE a # Same
    <3> DEFINE yes == card[c].consented \/ said
               no == ~a
    <3>1. /\ x = [card[c] EXCEPT !.teams = teams, !.allowed = a, !.consented = yes, !.revoked = no]
          /\ w = [wished[c] EXCEPT !.teams = IF r.teams.new = Same THEN @ ELSE r.teams.new,
                                   !.allowed = a]
      BY <2>2
    <3>2. yes \in BOOLEAN /\ no \in BOOLEAN /\ a \in BOOLEAN /\ (a => yes /\ ~no)
      BY <1>4, <2>2
    <3> HIDE DEF yes, no, x, w
    <3> QED BY <1>2, <1>4, <1>6, <3>1, <3>2 DEF CardRow, TeamsNamed
  <2> QED BY <2>1, <2>2
<1> HIDE DEF x, w
<1>8. /\ card' \in [Person -> {NoCard} \cup CardRow] /\ card'[c] = x
      /\ \A d \in Person \ {c} : card'[d] = card[d]
      /\ wished' \in [Person -> [teams : SUBSET Team, allowed : BOOLEAN]] /\ wished'[c] = w
      /\ \A d \in Person \ {c} : wished'[d] = wished[d]
  BY <1>2, <1>3, <1>7
<1>9. /\ front' \in [Front -> FrontRequests] /\ front'[p] = Idling /\ front'[p].step = "idle"
      /\ \A o \in Front \ {p} : front'[o] = front[o]
  BY <1>1 DEF At, FrontRequests, Idling
<1>10. Registered' = Registered
  <2>1. \A y \in CardRow : y # NoCard
    BY DEF CardRow, NoCard
  <2> QED BY <1>1, <1>7, <1>8, <2>1 DEF Registered
<1>11. FrontsHold'
  <2>1. ASSUME NEW o \in Front, front'[o].step # "idle"
        PROVE  /\ o # p /\ front'[o] = front[o]
               /\ front[o].step = "editing" => front[o].card # c
    BY <1>1, <1>9, <2>1 DEF FrontsHold
  <2>2. Registered \subseteq Person
    BY RegisteredFacts
  <2>3. ASSUME NEW o \in Front
        PROVE  /\ front'[o].step = "create" => front'[o].code \in 1 .. Cardinality(Registered) + 1
               /\ front'[o].step \in {"edit", "editing"} => front'[o].card \in Registered
               /\ front'[o].step = "editing" => front'[o].teams.old = card'[front'[o].card].teams
    BY <1>8, <2>1, <2>2 DEF FrontsHold
  <2>4. ASSUME NEW o \in Front, NEW q \in Front, front'[o].step = "editing",
               front'[q].step = "editing", front'[o].card = front'[q].card
        PROVE  o = q
    BY <2>1, <2>4 DEF FrontsHold
  <2> QED BY <1>10, <2>3, <2>4 DEF FrontsHold
<1>12. CardsAgree'
  <2>1. {card'[d].code : d \in Registered'} = {card[d].code : d \in Registered}
    <3>1. \A d \in Registered : card'[d].code = card[d].code
      BY <1>7, <1>8 DEF Registered
    <3> QED BY <1>10, <3>1
  <2>2. ASSUME NEW d \in Registered
        PROVE  /\ card'[d].teams = wished'[d].teams
               /\ card'[d].allowed = wished'[d].allowed
               /\ card'[d].allowed => card'[d].consented /\ ~card'[d].revoked
    <3>1. CASE d = c
      BY <1>7, <1>8, <3>1
    <3>2. CASE d # c
      BY <1>8, <3>2 DEF CardsAgree, Registered
    <3> QED BY <3>1, <3>2
  <2> QED BY <1>10, <2>1, <2>2 DEF CardsAgree
<1> QED BY <1>8, <1>9, <1>11, <1>12

LEMMA CardSteps == CardInv /\ [CardNext]_cardVars => CardInv'
<1> SUFFICES ASSUME CardInv, [CardNext]_cardVars PROVE CardInv'
  OBVIOUS
<1>1. ASSUME NEW p \in Front,
             \/ \E teams \in SUBSET Team, allowed \in BOOLEAN : AskCard(p, teams, allowed)
             \/ \E c \in Person, teams \in TeamsNamed, allowed \in Answers :
                   AskProfile(p, c, teams, allowed)
             \/ TakeCard(p) \/ DropCard(p)
      PROVE  CardInv'
  BY <1>1, RequestsKeepCards
<1>2. ASSUME NEW p \in Front, CommitProfile(p) \/ \E c \in Person : CreateCard(p, c)
      PROVE  CardInv'
  BY <1>2, CreateCardKeeps, CommitProfileKeeps
<1>3. ASSUME UNCHANGED cardVars PROVE CardInv'
  <2>1. UNCHANGED <<card, front, wished>> /\ Registered' = Registered
    BY <1>3 DEF cardVars, Registered
  <2> QED BY <2>1 DEF CardInv, FrontsHold, CardsAgree
<1> QED BY <1>1, <1>2, <1>3 DEF CardNext, TeamsNamed, Answers

-----------------------------------------------------------------------------
(* The parts by themselves, and together.                                  *)

\* Of all the requests with one refresh token one opens a session, and the
\* sessions of an earlier password end with it unless a login or a refresh ran
\* across the change: for any requests in flight.
THEOREM SessionsSucceed == SessionSpec => []SessionsSucceedAndEnd
<1>1. SessionInit => SessionInv
  BY SessionsBegin
<1>2. SessionInv /\ [SessionNext]_sessionVars => SessionInv'
  BY SessionStep
<1>3. SessionInv => SessionsSucceedAndEnd
  BY DEF SessionInv, SessionsSucceedAndEnd
<1> QED BY <1>1, <1>2, <1>3, PTL DEF SessionSpec

\* The states are of their types.
THEOREM SessionTypes == SessionSpec => []SessionTypeOK
<1>1. SessionInv => SessionTypeOK
  BY DEF SessionInv
<1> QED BY <1>1, SessionsBegin, SessionStep, PTL DEF SessionSpec

\* A role allows what was last asked for it, unless two requests for its permissions
\* crossed.
THEOREM RolesAllow == RoleSpec => []AllowsWhatIsWanted
<1> QED BY RolesBegin, RoleSteps, GrantsAreWanted, PTL DEF RoleSpec

\* The values the colours of a shop are linked to are those its variants have, through
\* creation, copying, removal and rollback.
THEOREM LinksFollow == DictionarySpec => []LinksFollowColours
<1>1. DictionaryInv => LinksFollowColours
  BY DEF DictionaryInv
<1> QED BY <1>1, DictionaryBegins, DictionarySteps, PTL DEF DictionarySpec

\* Entries written on a reading keep no twins and lose no goods, and variants keep
\* their differences, unless the requests that could break it crossed.
THEOREM EntriesAgree == AttributeSpec => []AttributesAgree
<1> QED BY AttributesBegin, AttributeSteps, AttributesFollow, PTL DEF AttributeSpec

\* Templates keep one default, a company what was asked of it, and lists no doubles,
\* unless a request wrote on an old reading.
THEOREM SettingsKeep == SettingsSpec => []SettingsStand
<1> QED BY SettingsBegin, SettingsSteps, SettingsFollow, PTL DEF SettingsSpec

\* A client's card has what was last asked for it.
THEOREM CardsKeep == CardSpec => []CardsAgree
<1>1. CardInv => CardsAgree
  BY DEF CardInv
<1> QED BY <1>1, CardsBegin, CardSteps, PTL DEF CardSpec

\* One part is what a behaviour is about; the invariants of all of them hold.
RecordsInv ==
    /\ subject \in {"client", "card", "sessions", "dictionary", "attributes", "roles",
                    "settings"}
    /\ AccountInv /\ CardInv /\ SessionInv /\ DictionaryInv /\ AttributeInv /\ RoleInv
    /\ SettingsInv

LEMMA RecordsBegin == RecordsInit => RecordsInv
BY AccountStart, CardsBegin, SessionsBegin, DictionaryBegins, AttributesBegin, RolesBegin,
   SettingsBegin DEF RecordsInit, RecordsInv

LEMMA RecordsSteps == RecordsInv /\ [RecordsNext]_recordVars => RecordsInv'
<1> SUFFICES ASSUME RecordsInv, [RecordsNext]_recordVars PROVE RecordsInv'
  OBVIOUS
<1>1. /\ subject' = subject
      /\ [Next]_vars /\ [CardNext]_cardVars /\ [SessionNext]_sessionVars
      /\ [DictionaryNext]_dictionaryVars /\ [AttributeNext]_attributeVars
      /\ [RoleNext]_roleVars /\ [SettingsNext]_settingsVars
  BY DEF RecordsNext, recordVars
<1>2. AccountInv' /\ CardInv' /\ SessionInv'
  BY <1>1, AccountStep, CardSteps, SessionStep DEF RecordsInv
<1>3. DictionaryInv' /\ AttributeInv'
  BY <1>1, DictionarySteps, AttributeSteps DEF RecordsInv
<1>4. RoleInv' /\ SettingsInv'
  BY <1>1, RoleSteps, SettingsSteps DEF RecordsInv
<1> QED BY <1>1, <1>2, <1>3, <1>4 DEF RecordsInv

\* Every part keeps its types.
THEOREM RecordTypes == RecordsSpec => []RecordsTypeOK
<1>1. RecordsInv => RecordsTypeOK
  BY CardKept, AttributesFollow, SettingsFollow
     DEF RecordsInv, RecordsTypeOK, AccountInv, SessionInv, DictionaryInv, RoleInv
<1> QED BY <1>1, RecordsBegin, RecordsSteps, PTL DEF RecordsSpec

\* A role allows what was last asked for it, whatever is asked of the other records.
THEOREM RolesAllowAmongRecords == RecordsSpec => []AllowsWhatIsWanted
<1>1. RecordsInv => AllowsWhatIsWanted
  BY GrantsAreWanted DEF RecordsInv
<1> QED BY <1>1, RecordsBegin, RecordsSteps, PTL DEF RecordsSpec

\* The links of colours and the entries goods are described with agree with the goods.
THEOREM DictionariesHold == RecordsSpec => []DictionariesAgree
<1>1. RecordsInv => DictionariesAgree
  BY AttributesFollow DEF RecordsInv, DictionariesAgree, DictionaryInv
<1> QED BY <1>1, RecordsBegin, RecordsSteps, PTL DEF RecordsSpec

\* Settings and cards are what was last asked for.
THEOREM OfficesHold == RecordsSpec => []OfficesAgree
<1>1. RecordsInv => OfficesAgree
  BY SettingsFollow DEF RecordsInv, OfficesAgree, CardInv
<1> QED BY <1>1, RecordsBegin, RecordsSteps, PTL DEF RecordsSpec

\* Sessions, debts and bonuses are among the records what they are by themselves.
THEOREM PeopleHold ==
    RecordsSpec => [](/\ SessionsSucceedAndEnd /\ DebtTotalsAgree
                      /\ CreditsRoundTrip /\ LoyaltyBacked)
<1>1. RecordsInv => /\ SessionsSucceedAndEnd /\ CreditsRoundTrip /\ LoyaltyBacked
                    /\ DebtInv /\ DebtsAddUp
  BY InvParts DEF RecordsInv, SessionInv, SessionsSucceedAndEnd, AccountInv, DebtInv
<1>2. RecordsInv => DebtTotalsAgree
  BY <1>1, PagesAgree DEF DebtTotalsAgree
<1> QED BY <1>1, <1>2, RecordsBegin, RecordsSteps, PTL DEF RecordsSpec

=============================================================================
