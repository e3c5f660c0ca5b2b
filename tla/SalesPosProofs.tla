---------------------------- MODULE SalesPosProofs ----------------------------
(***************************************************************************)
(* A sale is posted at most once, its returns stay within what it took,    *)
(* what is charged is what was written off, and, as long as no cancelled   *)
(* sale is reopened by its id (DocumentsSpec), a cancel puts back exactly  *)
(* what was taken and a sale is a stock document: for any sales, items,    *)
(* returns, tills and kinds of operations.                                 *)
(*                                                                         *)
(* ReturnsWithinSale is not inductive: a return compares with the lines it *)
(* read before its transaction.  They are those the payment wrote off,     *)
(* because a sale that is no draft has been posted (PostedIsNoDraft), and  *)
(* because every write to a posted sale's lines is marked (LinesKept).     *)
(***************************************************************************)
EXTENDS MCSalesPos, TotalsTheorems

\* The steps that have a sale of their own.
SaleSteps == {"line", "discount", "recalc", "store", "pay", "park", "delete", "drop",
              "cancel", "return"}

PostedIsNoDraft(s) ==
    /\ posted[s] = 0 \/ (posted[s] = 1 /\ ~isDraft[s] /\ status[s] # "none")
    /\ Exists(s) /\ ~isDraft[s] => posted[s] = 1

LinesKept(s) == posted[s] = 1 /\ ~disturbed[s] => lines[s] = taken[s]

\* A request names its sale; a return has read the lines of a posted one.
RequestHolds(q) ==
    /\ q.step \in SaleSteps => q.sale \in Sale
    /\ q.step = "return" =>
          /\ posted[q.sale] = 1
          /\ ~disturbed[q.sale] => q.seen = taken[q.sale]

ReturnHolds(x) ==
    return[x].state = "live" => return[x].sale \in Sale /\ posted[return[x].sale] = 1

\* A sale's row is not there yet, or no longer.
Absent == {"none", "deleted"}

ReturnedOf(s, i) == {x \in LiveReturns(s) : return[x].item = i}
QuantityBack == [x \in Return |-> return[x].quantity]
Back(s, i) == SumOver(QuantityBack, ReturnedOf(s, i))

SaleInv ==
    /\ TypeOK
    /\ \A s \in Sale : PostedIsNoDraft(s) /\ LinesKept(s)
    /\ \A r \in Request : RequestHolds(request[r])
    /\ \A x \in Return : ReturnHolds(x)
    /\ \A s \in Sale, i \in Item :
          /\ posted[s] = 1 /\ ~disturbed[s] => Back(s, i) <= taken[s][i]
          /\ status[s] = "cancelled" => LiveReturns(s) = {}

-----------------------------------------------------------------------------
LEMMA IdleFacts ==
    Idle \in RequestState /\ Idle.step = "idle" /\ Idle.step \notin SaleSteps
<1>1. (CHOOSE i \in Item : TRUE) \in Item /\ (CHOOSE x \in Return : TRUE) \in Return
  BY SalesAssumption
<1>2. 0 \in Quantities /\ NoLines \in Lines /\ 0 \in Nat
  BY SalesAssumption DEF Quantities, NoLines, Lines
<1>3. Idle \in RequestState
  BY <1>1, <1>2 DEF Idle, RequestState, Steps
<1>4. Idle.step = "idle"
  BY DEF Idle
<1> QED BY <1>3, <1>4 DEF SaleSteps

LEMMA LineUnits == Lines \subseteq Units
BY SalesAssumption DEF Lines, Units, Quantities

\* What a sale comes to is a natural number.
LEMMA PayableType ==
    ASSUME NEW l \in Lines, NEW d \in Nat PROVE Payable(l, d) \in Nat
<1> DEFINE cost == [i \in Item |-> l[i] * Price[i]]
<1>1. \A i \in Item : cost[i] \in Int
  <2>1. ASSUME NEW i \in Item PROVE l[i] * Price[i] \in Int
    <3>1. l[i] \in Nat /\ Price[i] \in Nat
      BY SalesAssumption DEF Lines, Quantities
    <3> QED BY <3>1
  <2> QED BY <2>1
<1>2. SumOver(cost, Item) \in Nat
  BY <1>1, SumType, SalesAssumption
<1> HIDE DEF cost
<1> QED BY <1>2 DEF Payable, cost

LEMMA BackType ==
    ASSUME TypeOK, NEW s, NEW i PROVE Back(s, i) \in Nat /\ IsFiniteSet(ReturnedOf(s, i))
<1>1. ReturnedOf(s, i) \subseteq Return
  BY DEF ReturnedOf, LiveReturns
<1>2. IsFiniteSet(ReturnedOf(s, i))
  BY <1>1, SalesAssumption, FS_Subset
<1>3. \A x \in ReturnedOf(s, i) : QuantityBack[x] \in Int
  BY <1>1, SalesAssumption DEF TypeOK, ReturnDocument, QuantityBack, Quantities
<1> QED BY <1>2, <1>3, SumType DEF Back

LEMMA NoReturnFacts == NoReturn \in ReturnDocument /\ NoReturn.state = "none"
<1>1. (CHOOSE i \in Item : TRUE) \in Item /\ 0 \in Quantities
  BY SalesAssumption DEF Quantities
<1> QED BY <1>1 DEF NoReturn, ReturnDocument

LEMMA SaleBegins == Init => SaleInv
<1> SUFFICES ASSUME Init PROVE SaleInv
  OBVIOUS
<1>1. 0 \in Quantities /\ NoLines \in Lines /\ NoLines \in Units /\ InitialStock \in Nat
  BY SalesAssumption, LineUnits DEF Quantities, NoLines, Lines
<1>2. (CHOOSE i \in Item : TRUE) \in Item
  BY SalesAssumption
<1>3. TypeOK
  <2>1. /\ status \in [Sale -> Status] /\ isDraft \in [Sale -> BOOLEAN]
        /\ lines \in [Sale -> Lines] /\ discount \in [Sale -> Nat]
        /\ payable \in [Sale -> Nat] /\ stock \in Units
    BY <1>1 DEF Init, Status, Units
  <2>2. return \in [Return -> ReturnDocument]
    BY <1>1, NoReturnFacts DEF Init
  <2>3. request \in [Request -> RequestState]
    BY IdleFacts DEF Init
  <2>4. /\ settled \in [Sale -> Nat] /\ taken \in [Sale -> Units]
        /\ restored \in [Sale -> Units] /\ posted \in [Sale -> Nat]
        /\ reversed \in [Sale -> Nat] /\ disturbed \in [Sale -> BOOLEAN]
    BY <1>1 DEF Init
  <2> QED BY <2>1, <2>2, <2>3, <2>4 DEF TypeOK
<1>4. ASSUME NEW s \in Sale PROVE PostedIsNoDraft(s) /\ LinesKept(s)
  BY DEF Init, PostedIsNoDraft, LinesKept, Exists
<1>5. ASSUME NEW r \in Request PROVE RequestHolds(request[r])
  BY IdleFacts DEF Init, RequestHolds, SaleSteps
<1>6. ASSUME NEW x \in Return PROVE ReturnHolds(x)
  BY DEF Init, NoReturn, ReturnHolds
<1>7. ASSUME NEW s \in Sale PROVE status[s] = "none" /\ posted[s] = 0
  BY DEF Init
<1> QED BY <1>3, <1>4, <1>5, <1>6, <1>7 DEF SaleInv

-----------------------------------------------------------------------------
(* Steps that post nothing and touch no return.                            *)

\* A request that goes on.
LEMMA RequestKeeps ==
    ASSUME SaleInv, NEW r \in Request, NEW new \in RequestState,
           request' = [request EXCEPT ![r] = new],
           new.step \in SaleSteps => new.sale \in Sale,
           new.step # "return"
    PROVE  /\ request' \in [Request -> RequestState]
           /\ \A q \in Request : request'[q] = request[q]
                 \/ (request'[q].step # "return"
                       /\ (request'[q].step \in SaleSteps => request'[q].sale \in Sale))
BY DEF SaleInv, TypeOK

\* What keeps the invariant: a posted sale stays posted, an unchecked write of its
\* lines marks it, and nobody becomes a return.
LEMMA QuietKeeps ==
    ASSUME SaleInv, TypeOK', UNCHANGED <<posted, taken, return>>,
           \A s \in Sale :
               /\ status[s] # "none" => status'[s] # "none"
               /\ isDraft'[s] => isDraft[s] \/ status[s] = "none"
               /\ Exists(s)' /\ ~isDraft'[s] => Exists(s) /\ ~isDraft[s]
               /\ status'[s] = "cancelled" => status[s] = "cancelled"
               /\ disturbed[s] => disturbed'[s]
               /\ lines'[s] # lines[s] /\ ~isDraft[s] => disturbed'[s],
           \A q \in Request : request'[q] = request[q]
               \/ (request'[q].step # "return"
                     /\ (request'[q].step \in SaleSteps => request'[q].sale \in Sale))
    PROVE  SaleInv'
<1>1. ASSUME NEW s \in Sale PROVE PostedIsNoDraft(s)' /\ LinesKept(s)'
  BY DEF SaleInv, PostedIsNoDraft, LinesKept
<1>2. ASSUME NEW q \in Request PROVE RequestHolds(request[q])'
  <2>1. RequestHolds(request[q])
    BY DEF SaleInv
  <2>2. request[q].step = "return" => request[q].sale \in Sale
    BY <2>1 DEF RequestHolds, SaleSteps
  <2> QED BY <2>1, <2>2 DEF RequestHolds
<1>3. ASSUME NEW x \in Return PROVE ReturnHolds(x)'
  BY DEF SaleInv, ReturnHolds
<1>4. ASSUME NEW s \in Sale, NEW i \in Item
      PROVE  /\ posted'[s] = 1 /\ ~disturbed'[s] => Back(s, i)' <= taken'[s][i]
             /\ status'[s] = "cancelled" => LiveReturns(s)' = {}
  <2>1. Back(s, i)' = Back(s, i) /\ LiveReturns(s)' = LiveReturns(s)
    BY DEF Back, QuantityBack, ReturnedOf, LiveReturns
  <2> QED BY <2>1 DEF SaleInv
<1> QED BY <1>1, <1>2, <1>3, <1>4 DEF SaleInv

\* The first step of a request only notes what it has read.
LEMMA StartKeeps ==
    ASSUME SaleInv, NEW r \in Request, NEW kind, NEW new \in RequestState,
           Start(r, kind, new), new.step \in SaleSteps => new.sale \in Sale,
           new.step # "return"
    PROVE  SaleInv'
<1>1. /\ request' = [request EXCEPT ![r] = new]
      /\ UNCHANGED <<status, isDraft, lines, discount, payable, stock, return, settled,
                     taken, restored, posted, reversed, disturbed>>
  BY DEF Start, saleVars, history
<1>2. /\ request' \in [Request -> RequestState]
      /\ \A q \in Request : request'[q] = request[q]
            \/ (request'[q].step # "return"
                  /\ (request'[q].step \in SaleSteps => request'[q].sale \in Sale))
  BY <1>1, RequestKeeps
<1>3. TypeOK'
  BY <1>1, <1>2 DEF SaleInv, TypeOK
<1>4. UNCHANGED <<posted, taken, return>>
  BY <1>1
<1>5. ASSUME NEW s \in Sale
      PROVE  /\ status[s] # "none" => status'[s] # "none"
             /\ isDraft'[s] => isDraft[s] \/ status[s] = "none"
             /\ Exists(s)' /\ ~isDraft'[s] => Exists(s) /\ ~isDraft[s]
             /\ status'[s] = "cancelled" => status[s] = "cancelled"
             /\ disturbed[s] => disturbed'[s]
             /\ lines'[s] # lines[s] /\ ~isDraft[s] => disturbed'[s]
  BY <1>1 DEF Exists
<1> QED BY <1>2, <1>3, <1>4, <1>5, QuietKeeps

LEMMA BeginKeeps ==
    ASSUME SaleInv, NEW r \in Request,
           \/ BeginOpen(r)
           \/ \E s \in Sale :
                 \/ \E i \in Item, q \in Quantities : BeginEdit(r, s, i, q)
                 \/ \E d \in 0 .. MaxDiscount : BeginDiscount(r, s, d)
                 \/ BeginPay(r, s)
                 \/ BeginResume(r, s)
                 \/ \E newDraft \in BOOLEAN : BeginPark(r, s, newDraft)
                 \/ BeginRemove(r, s)
                 \/ BeginCancel(r, s)
           \/ \E x \in Return : BeginCancelReturn(r, x) \/ BeginRemoveReturn(r, x)
    PROVE  SaleInv'
<1> USE IdleFacts
<1>1. CASE BeginOpen(r)
  <2> DEFINE new == [Idle EXCEPT !.step = "sweep"]
  <2>1. new \in RequestState /\ new.step = "sweep"
    BY DEF RequestState, Steps
  <2>2. Start(r, "open", new)
    BY <1>1 DEF BeginOpen
  <2> HIDE DEF new
  <2> QED BY <2>1, <2>2, StartKeeps DEF SaleSteps
<1>2. ASSUME NEW s \in Sale, NEW i \in Item, NEW q \in Quantities, BeginEdit(r, s, i, q)
      PROVE  SaleInv'
  <2> DEFINE there == lines[s][i] > 0
             new == [Idle EXCEPT !.step = "line", !.sale = s, !.item = i,
                                 !.quantity = q, !.existed = there]
  <2>1. Start(r, "edit", new)
    BY <1>2 DEF BeginEdit
  <2>2. there \in BOOLEAN
    OBVIOUS
  <2> HIDE DEF there
  <2>3. new \in RequestState /\ new.step = "line" /\ new.sale = s
    BY <2>2 DEF RequestState, Steps
  <2> HIDE DEF new
  <2> QED BY <2>1, <2>3, StartKeeps
<1>3. ASSUME NEW s \in Sale, NEW d \in 0 .. MaxDiscount, BeginDiscount(r, s, d)
      PROVE  SaleInv'
  <2> DEFINE new == [Idle EXCEPT !.step = "discount", !.sale = s, !.due = d]
  <2>1. d \in Nat
    BY SalesAssumption
  <2>2. new \in RequestState /\ new.step = "discount" /\ new.sale = s
    BY <2>1 DEF RequestState, Steps
  <2>3. Start(r, "discount", new)
    BY <1>3 DEF BeginDiscount
  <2> HIDE DEF new
  <2> QED BY <2>2, <2>3, StartKeeps
<1>4. ASSUME NEW s \in Sale, BeginPay(r, s) PROVE SaleInv'
  <2> DEFINE new == [Idle EXCEPT !.step = "recalc", !.sale = s, !.paying = TRUE]
  <2>1. new \in RequestState /\ new.step = "recalc" /\ new.sale = s
    BY DEF RequestState, Steps
  <2>2. Start(r, "pay", new)
    BY <1>4 DEF BeginPay
  <2> HIDE DEF new
  <2> QED BY <2>1, <2>2, StartKeeps
<1>5. ASSUME NEW s \in Sale, BeginResume(r, s) PROVE SaleInv'
  <2> DEFINE new == [Idle EXCEPT !.step = "sweep", !.keep = s]
  <2>1. new \in RequestState /\ new.step = "sweep"
    BY DEF RequestState, Steps
  <2>2. Start(r, "resume", new)
    BY <1>5 DEF BeginResume
  <2> HIDE DEF new
  <2> QED BY <2>1, <2>2, StartKeeps DEF SaleSteps
<1>6. ASSUME NEW s \in Sale, NEW newDraft \in BOOLEAN, BeginPark(r, s, newDraft)
      PROVE  SaleInv'
  <2> DEFINE step == IF lines[s] = NoLines THEN "delete" ELSE "park"
             kept == newDraft /\ lines[s] # NoLines
             new == [Idle EXCEPT !.step = step, !.sale = s, !.existed = kept]
  <2>1. Start(r, "park", new)
    BY <1>6 DEF BeginPark
  <2>2. step \in {"delete", "park"} /\ kept \in BOOLEAN
    OBVIOUS
  <2> HIDE DEF step, kept
  <2>3. new \in RequestState /\ new.step = step /\ new.sale = s
    BY <2>2 DEF RequestState, Steps
  <2> HIDE DEF new
  <2>4. new.step # "return"
    BY <2>2, <2>3
  <2> QED BY <2>1, <2>3, <2>4, StartKeeps
<1>7. ASSUME NEW s \in Sale, BeginRemove(r, s) PROVE SaleInv'
  <2> DEFINE new == [Idle EXCEPT !.step = "delete", !.sale = s]
  <2>1. new \in RequestState /\ new.step = "delete" /\ new.sale = s
    BY DEF RequestState, Steps
  <2>2. Start(r, "delete", new)
    BY <1>7 DEF BeginRemove
  <2> HIDE DEF new
  <2> QED BY <2>1, <2>2, StartKeeps
<1>8. ASSUME NEW s \in Sale, BeginCancel(r, s) PROVE SaleInv'
  <2> DEFINE step == IF isDraft[s] THEN "delete" ELSE "cancel"
             new == [Idle EXCEPT !.step = step, !.sale = s, !.seen = lines[s]]
  <2>1. Start(r, "cancel", new)
    BY <1>8 DEF BeginCancel
  <2>2. step \in {"delete", "cancel"} /\ lines[s] \in Lines
    BY DEF SaleInv, TypeOK
  <2> HIDE DEF step
  <2>3. new \in RequestState /\ new.step = step /\ new.sale = s
    BY <2>2 DEF RequestState, Steps
  <2> HIDE DEF new
  <2>4. new.step # "return"
    BY <2>2, <2>3
  <2> QED BY <2>1, <2>3, <2>4, StartKeeps
<1>9. ASSUME NEW x \in Return, BeginCancelReturn(r, x) PROVE SaleInv'
  <2> DEFINE step == IF Exists(return[x].sale) THEN "unreturn" ELSE "orphan"
             new == [Idle EXCEPT !.step = step, !.target = x]
  <2>1. Start(r, "unreturn", new)
    BY <1>9 DEF BeginCancelReturn
  <2>2. step \in {"unreturn", "orphan"}
    OBVIOUS
  <2> HIDE DEF step
  <2>3. new \in RequestState /\ new.step = step
    BY <2>2 DEF RequestState, Steps
  <2> HIDE DEF new
  <2>4. new.step \notin SaleSteps /\ new.step # "return"
    BY <2>2, <2>3 DEF SaleSteps
  <2> QED BY <2>1, <2>3, <2>4, StartKeeps
<1>10. ASSUME NEW x \in Return, BeginRemoveReturn(r, x) PROVE SaleInv'
  <2> DEFINE new == [Idle EXCEPT !.step = "strike", !.target = x]
  <2>1. new \in RequestState /\ new.step = "strike"
    BY DEF RequestState, Steps
  <2>2. Start(r, "delete", new)
    BY <1>10 DEF BeginRemoveReturn
  <2> HIDE DEF new
  <2> QED BY <2>1, <2>2, StartKeeps DEF SaleSteps
<1> QED BY <1>1, <1>2, <1>3, <1>4, <1>5, <1>6, <1>7, <1>8, <1>9, <1>10

\* A return reads the lines of a sale that is no draft: those it took.
LEMMA BeginReturnKeeps ==
    ASSUME SaleInv, NEW r \in Request, NEW s \in Sale, NEW i \in Item,
           NEW q \in Quantities, BeginReturn(r, s, i, q)
    PROVE  SaleInv'
<1> DEFINE new == [Idle EXCEPT !.step = "return", !.sale = s, !.item = i,
                               !.quantity = q, !.seen = lines[s]]
<1>1. /\ Exists(s) /\ ~isDraft[s] /\ request' = [request EXCEPT ![r] = new]
      /\ UNCHANGED <<status, isDraft, lines, discount, payable, stock, return, settled,
                     taken, restored, posted, reversed, disturbed>>
  BY DEF BeginReturn, Start, saleVars, history
<1>2. lines[s] \in Lines /\ request \in [Request -> RequestState]
  BY DEF SaleInv, TypeOK
<1>3. /\ new \in RequestState /\ new.step = "return" /\ new.sale = s
      /\ new.seen = lines[s]
  BY <1>2, IdleFacts DEF RequestState, Steps
<1> HIDE DEF new
<1>4. posted[s] = 1 /\ (~disturbed[s] => lines[s] = taken[s])
  BY <1>1 DEF SaleInv, PostedIsNoDraft, LinesKept
<1>5. RequestHolds(new)
  BY <1>3, <1>4 DEF RequestHolds
<1>6. TypeOK'
  BY <1>1, <1>2, <1>3 DEF SaleInv, TypeOK
<1>7. ASSUME NEW p \in Request PROVE RequestHolds(request[p])'
  <2>1. request'[p] = IF p = r THEN new ELSE request[p]
    BY <1>1, <1>2
  <2>2. RequestHolds(request'[p])
    BY <2>1, <1>5 DEF SaleInv
  <2> QED BY <1>1, <2>2 DEF RequestHolds
<1> QED BY <1>1, <1>6, <1>7 DEF SaleInv, PostedIsNoDraft, LinesKept, ReturnHolds, Exists,
      Back, QuantityBack, ReturnedOf, LiveReturns

\* Bookkeeping only ever marks, and marks what changes a sale that is no draft.
LEMMA DisturbFacts ==
    ASSUME SaleInv, NEW t \in Sale, NEW changes \in BOOLEAN, Disturb(t, changes)
    PROVE  /\ disturbed' \in [Sale -> BOOLEAN]
           /\ \A s \in Sale : disturbed[s] => disturbed'[s]
           /\ changes /\ (~isDraft[t] \/ PaymentInFlight(t)) => disturbed'[t]
<1>1. disturbed \in [Sale -> BOOLEAN]
  BY DEF SaleInv, TypeOK
<1>2. PICK b \in BOOLEAN :
          /\ disturbed' = [disturbed EXCEPT ![t] = b]
          /\ disturbed[t] => b
          /\ changes /\ (~isDraft[t] \/ PaymentInFlight(t)) => b
  <2> DEFINE mark == disturbed[t] \/ (changes /\ (~isDraft[t] \/ PaymentInFlight(t)))
  <2>1. disturbed' = [disturbed EXCEPT ![t] = mark]
    BY DEF Disturb
  <2>2. /\ mark \in BOOLEAN /\ (disturbed[t] => mark)
        /\ (changes /\ (~isDraft[t] \/ PaymentInFlight(t)) => mark)
    OBVIOUS
  <2> HIDE DEF mark
  <2> QED BY <2>1, <2>2
<1> QED BY <1>1, <1>2

\* The line, the discount and the total are written whatever the sale has become.
LEMMA WriteLineKeeps ==
    ASSUME SaleInv, NEW r \in Request, WriteLine(r) PROVE SaleInv'
<1> DEFINE t == request[r].sale
           i == request[r].item
           new == [Idle EXCEPT !.step = "recalc", !.sale = t]
<1>1. /\ request[r] \in RequestState /\ t \in Sale /\ TypeOK
  BY DEF SaleInv, TypeOK, WriteLine, At, RequestHolds, SaleSteps
<1>2. /\ lines' = [lines EXCEPT ![t][i] = request[r].quantity]
      /\ Disturb(t, lines' # lines)
      /\ request' = [request EXCEPT ![r] = new]
      /\ UNCHANGED <<status, isDraft, discount, payable, stock, return, settled, taken,
                     restored, posted, reversed>>
  BY DEF WriteLine, history
<1>3. new \in RequestState /\ new.step = "recalc" /\ new.sale = t
  BY <1>1, IdleFacts DEF RequestState, Steps
<1> HIDE DEF new
<1>4. lines' \in [Sale -> Lines] /\ \A s \in Sale : s # t => lines'[s] = lines[s]
  <2>1. request[r].quantity \in Quantities /\ lines[t] \in Lines
    BY <1>1 DEF RequestState, TypeOK
  <2>2. [lines[t] EXCEPT ![i] = request[r].quantity] \in Lines
    BY <2>1 DEF Lines
  <2> QED BY <1>1, <1>2, <2>2 DEF TypeOK
<1>5. /\ disturbed' \in [Sale -> BOOLEAN] /\ \A s \in Sale : disturbed[s] => disturbed'[s]
      /\ lines' # lines /\ ~isDraft[t] => disturbed'[t]
  BY <1>1, <1>2, DisturbFacts
<1>6. /\ request' \in [Request -> RequestState]
      /\ \A q \in Request : request'[q] = request[q]
            \/ (request'[q].step # "return"
                  /\ (request'[q].step \in SaleSteps => request'[q].sale \in Sale))
  BY <1>1, <1>2, <1>3, RequestKeeps
<1>7. TypeOK'
  BY <1>1, <1>2, <1>4, <1>5, <1>6 DEF TypeOK
<1>8. UNCHANGED <<posted, taken, return>>
  BY <1>2
<1>9. ASSUME NEW s \in Sale
      PROVE  /\ status[s] # "none" => status'[s] # "none"
             /\ isDraft'[s] => isDraft[s] \/ status[s] = "none"
             /\ Exists(s)' /\ ~isDraft'[s] => Exists(s) /\ ~isDraft[s]
             /\ status'[s] = "cancelled" => status[s] = "cancelled"
             /\ disturbed[s] => disturbed'[s]
             /\ lines'[s] # lines[s] /\ ~isDraft[s] => disturbed'[s]
  <2>1. lines'[s] # lines[s] => s = t /\ lines' # lines
    BY <1>4
  <2> QED BY <1>2, <1>5, <2>1 DEF Exists
<1> QED BY <1>6, <1>7, <1>8, <1>9, QuietKeeps

LEMMA WriteDiscountKeeps ==
    ASSUME SaleInv, NEW r \in Request, WriteDiscount(r) PROVE SaleInv'
<1> DEFINE t == request[r].sale
           new == [Idle EXCEPT !.step = "recalc", !.sale = t]
<1>1. /\ request[r] \in RequestState /\ t \in Sale /\ TypeOK
  BY DEF SaleInv, TypeOK, WriteDiscount, At, RequestHolds, SaleSteps
<1>2. /\ discount' = [discount EXCEPT ![t] = request[r].due]
      /\ Disturb(t, discount' # discount)
      /\ request' = [request EXCEPT ![r] = new]
      /\ UNCHANGED <<status, isDraft, lines, payable, stock, return, settled, taken,
                     restored, posted, reversed>>
  BY DEF WriteDiscount, history
<1>3. new \in RequestState /\ new.step = "recalc" /\ new.sale = t
  BY <1>1, IdleFacts DEF RequestState, Steps
<1> HIDE DEF new
<1>4. discount' \in [Sale -> Nat]
  BY <1>1, <1>2 DEF TypeOK, RequestState
<1>5. /\ disturbed' \in [Sale -> BOOLEAN] /\ \A s \in Sale : disturbed[s] => disturbed'[s]
  BY <1>1, <1>2, DisturbFacts
<1>6. /\ request' \in [Request -> RequestState]
      /\ \A q \in Request : request'[q] = request[q]
            \/ (request'[q].step # "return"
                  /\ (request'[q].step \in SaleSteps => request'[q].sale \in Sale))
  BY <1>1, <1>2, <1>3, RequestKeeps
<1>7. TypeOK'
  BY <1>1, <1>2, <1>4, <1>5, <1>6 DEF TypeOK
<1>8. UNCHANGED <<posted, taken, return>>
  BY <1>2
<1>9. ASSUME NEW s \in Sale
      PROVE  /\ status[s] # "none" => status'[s] # "none"
             /\ isDraft'[s] => isDraft[s] \/ status[s] = "none"
             /\ Exists(s)' /\ ~isDraft'[s] => Exists(s) /\ ~isDraft[s]
             /\ status'[s] = "cancelled" => status[s] = "cancelled"
             /\ disturbed[s] => disturbed'[s]
             /\ lines'[s] # lines[s] /\ ~isDraft[s] => disturbed'[s]
  BY <1>2, <1>5 DEF Exists
<1> QED BY <1>6, <1>7, <1>8, <1>9, QuietKeeps

LEMMA TotalsKeep ==
    ASSUME SaleInv, NEW r \in Request, ReadTotals(r) \/ StoreTotals(r) PROVE SaleInv'
<1> DEFINE t == request[r].sale
<1>1. /\ request[r] \in RequestState /\ t \in Sale /\ TypeOK
  BY DEF SaleInv, TypeOK, ReadTotals, StoreTotals, At, RequestHolds, SaleSteps
<1>2. CASE ReadTotals(r)
  <2> DEFINE total == TotalOf(t)
             new == [request[r] EXCEPT !.step = "store", !.due = total]
  <2>1. /\ request' = [request EXCEPT ![r] = new]
        /\ UNCHANGED <<status, isDraft, lines, discount, payable, stock, return, settled,
                       taken, restored, posted, reversed, disturbed>>
    BY <1>2 DEF ReadTotals, saleVars, history
  <2>2. total \in Nat
    BY <1>1, PayableType DEF TotalOf, TypeOK
  <2> HIDE DEF total
  <2>3. new \in RequestState /\ new.step = "store" /\ new.sale = t
    BY <1>1, <2>2 DEF RequestState, Steps
  <2> HIDE DEF new
  <2>4. /\ request' \in [Request -> RequestState]
        /\ \A q \in Request : request'[q] = request[q]
              \/ (request'[q].step # "return"
                    /\ (request'[q].step \in SaleSteps => request'[q].sale \in Sale))
    BY <1>1, <2>1, <2>3, RequestKeeps
  <2>5. TypeOK'
    BY <1>1, <2>1, <2>4 DEF TypeOK
  <2>6. ASSUME NEW s \in Sale
        PROVE  /\ status[s] # "none" => status'[s] # "none"
               /\ isDraft'[s] => isDraft[s] \/ status[s] = "none"
               /\ Exists(s)' /\ ~isDraft'[s] => Exists(s) /\ ~isDraft[s]
               /\ status'[s] = "cancelled" => status[s] = "cancelled"
               /\ disturbed[s] => disturbed'[s]
               /\ lines'[s] # lines[s] /\ ~isDraft[s] => disturbed'[s]
    BY <2>1 DEF Exists
  <2> QED BY <2>1, <2>4, <2>5, <2>6, QuietKeeps
<1>3. CASE StoreTotals(r)
  <2> DEFINE next == [request[r] EXCEPT !.step = "pay"]
             new == IF request[r].paying THEN next ELSE Idle
  <2>1. /\ payable' = [payable EXCEPT ![t] = request[r].due]
        /\ Disturb(t, payable' # payable /\ ~request[r].paying)
        /\ request' = [request EXCEPT ![r] = new]
        /\ UNCHANGED <<status, isDraft, lines, discount, stock, return, settled,
                       taken, restored, posted, reversed>>
    BY <1>3 DEF StoreTotals, history
  <2>2. next \in RequestState /\ next.step = "pay" /\ next.sale = t
    BY <1>1 DEF RequestState, Steps
  <2> HIDE DEF next
  <2>3. /\ new \in RequestState /\ new.step # "return"
        /\ new.step \in SaleSteps => new.sale \in Sale
    BY <1>1, <2>2, IdleFacts
  <2> HIDE DEF new
  <2>4. /\ request' \in [Request -> RequestState]
        /\ \A q \in Request : request'[q] = request[q]
              \/ (request'[q].step # "return"
                    /\ (request'[q].step \in SaleSteps => request'[q].sale \in Sale))
    BY <2>1, <2>3, RequestKeeps
  <2>5. /\ disturbed' \in [Sale -> BOOLEAN]
        /\ \A s \in Sale : disturbed[s] => disturbed'[s]
    <3>1. (payable' # payable /\ ~request[r].paying) \in BOOLEAN
      OBVIOUS
    <3> QED BY <1>1, <2>1, <3>1, DisturbFacts
  <2>6. TypeOK'
    <3>1. payable' \in [Sale -> Nat]
      BY <1>1, <2>1 DEF TypeOK, RequestState
    <3> QED BY <1>1, <2>1, <2>4, <2>5, <3>1 DEF TypeOK
  <2>7. ASSUME NEW s \in Sale
        PROVE  /\ status[s] # "none" => status'[s] # "none"
               /\ isDraft'[s] => isDraft[s] \/ status[s] = "none"
               /\ Exists(s)' /\ ~isDraft'[s] => Exists(s) /\ ~isDraft[s]
               /\ status'[s] = "cancelled" => status[s] = "cancelled"
               /\ disturbed[s] => disturbed'[s]
               /\ lines'[s] # lines[s] /\ ~isDraft[s] => disturbed'[s]
    BY <2>1, <2>5 DEF Exists
  <2> QED BY <2>1, <2>4, <2>6, <2>7, QuietKeeps
<1> QED BY <1>2, <1>3

\* A step that opens, parks, demotes or deletes drafts.
LEMMA DraftKeeps ==
    ASSUME SaleInv, NEW r \in Request, NEW new \in RequestState,
           request' = [request EXCEPT ![r] = new],
           new.step \in SaleSteps => new.sale \in Sale, new.step # "return",
           UNCHANGED <<lines, discount, payable, stock, return, history, disturbed>>,
           status' \in [Sale -> Status], isDraft' \in [Sale -> BOOLEAN],
           \A s \in Sale :
               /\ status[s] # "none" => status'[s] # "none"
               /\ isDraft'[s] => isDraft[s] \/ status[s] = "none"
               /\ Exists(s)' /\ ~isDraft'[s] => Exists(s) /\ ~isDraft[s]
               /\ status'[s] = "cancelled" => status[s] = "cancelled"
    PROVE  SaleInv'
<1>1. UNCHANGED <<lines, discount, payable, stock, return, settled, taken, restored,
                  posted, reversed, disturbed>>
  BY DEF history
<1>2. /\ request' \in [Request -> RequestState]
      /\ \A q \in Request : request'[q] = request[q]
            \/ (request'[q].step # "return"
                  /\ (request'[q].step \in SaleSteps => request'[q].sale \in Sale))
  BY RequestKeeps
<1>3. TypeOK'
  BY <1>1, <1>2 DEF SaleInv, TypeOK
<1>4. ASSUME NEW s \in Sale
      PROVE  /\ disturbed[s] => disturbed'[s]
             /\ lines'[s] # lines[s] /\ ~isDraft[s] => disturbed'[s]
  BY <1>1
<1> QED BY <1>1, <1>2, <1>3, <1>4, QuietKeeps

LEMMA RequestStepType ==
    ASSUME SaleInv, NEW r \in Request, NEW step \in Steps
    PROVE  /\ [request[r] EXCEPT !.step = step] \in RequestState
           /\ [request[r] EXCEPT !.step = step].step = step
           /\ [request[r] EXCEPT !.step = step].sale = request[r].sale
<1>1. request[r] \in RequestState
  BY DEF SaleInv, TypeOK
<1> QED BY <1>1 DEF RequestState

LEMMA SweepKeeps ==
    ASSUME SaleInv, NEW r \in Request,
           Sweep(r) \/ Purge(r) \/ Demote(r) \/ Resume(r)
    PROVE  SaleInv'
<1>1. request[r] \in RequestState /\ TypeOK
  BY DEF SaleInv, TypeOK
<1>2. CASE Sweep(r)
  <2>1. PICK doomed \in SUBSET Sale, demoted \in SUBSET Sale :
            request' = [request EXCEPT ![r] =
              [request[r] EXCEPT !.step = "purge", !.doomed = doomed, !.demoted = demoted]]
    BY <1>1, <1>2 DEF Sweep, OpenSales
  <2> DEFINE new == [request[r] EXCEPT !.step = "purge", !.doomed = doomed,
                                       !.demoted = demoted]
  <2>2. new \in RequestState /\ new.step = "purge"
    BY <1>1 DEF RequestState, Steps
  <2>3. request' = [request EXCEPT ![r] = new]
    BY <2>1
  <2>4. UNCHANGED <<status, isDraft, lines, discount, payable, stock, return, history,
                    disturbed>>
    BY <1>2 DEF Sweep, saleVars
  <2> HIDE DEF new
  <2>5. new.step \notin SaleSteps /\ new.step # "return"
    BY <2>2 DEF SaleSteps
  <2>6. status' \in [Sale -> Status] /\ isDraft' \in [Sale -> BOOLEAN]
    BY <1>1, <2>4 DEF TypeOK
  <2>7. ASSUME NEW s \in Sale
        PROVE  /\ status[s] # "none" => status'[s] # "none"
               /\ isDraft'[s] => isDraft[s] \/ status[s] = "none"
               /\ Exists(s)' /\ ~isDraft'[s] => Exists(s) /\ ~isDraft[s]
               /\ status'[s] = "cancelled" => status[s] = "cancelled"
    BY <2>4 DEF Exists
  <2> QED BY <2>2, <2>3, <2>4, <2>5, <2>6, <2>7, DraftKeeps
<1>3. CASE Purge(r)
  <2> DEFINE new == [request[r] EXCEPT !.step = "demote", !.doomed = {}]
  <2>1. new \in RequestState /\ new.step = "demote"
    BY <1>1 DEF RequestState, Steps
  <2>2. /\ request' = [request EXCEPT ![r] = new]
        /\ status' = [s \in Sale |-> IF s \in request[r].doomed THEN "deleted" ELSE status[s]]
        /\ isDraft' = [s \in Sale |-> isDraft[s] /\ s \notin request[r].doomed]
        /\ UNCHANGED <<lines, discount, payable, stock, return, history, disturbed>>
    BY <1>3 DEF Purge
  <2> HIDE DEF new
  <2>3. new.step \notin SaleSteps /\ new.step # "return"
    BY <2>1 DEF SaleSteps
  <2>4. status' \in [Sale -> Status] /\ isDraft' \in [Sale -> BOOLEAN]
    BY <1>1, <2>2 DEF TypeOK, Status
  <2>5. ASSUME NEW s \in Sale
        PROVE  /\ status[s] # "none" => status'[s] # "none"
               /\ isDraft'[s] => isDraft[s] \/ status[s] = "none"
               /\ Exists(s)' /\ ~isDraft'[s] => Exists(s) /\ ~isDraft[s]
               /\ status'[s] = "cancelled" => status[s] = "cancelled"
    BY <2>2 DEF Exists
  <2> QED BY <2>1, <2>2, <2>3, <2>4, <2>5, DraftKeeps
<1>4. CASE Demote(r)
  <2> DEFINE step == IF request[r].keep = NoSale THEN "find" ELSE "resume"
             new == [request[r] EXCEPT !.step = step, !.demoted = {}]
  <2>1. /\ request' = [request EXCEPT ![r] = new]
        /\ status' = [s \in Sale |->
              IF s \in request[r].demoted /\ Exists(s) THEN "draft" ELSE status[s]]
        /\ isDraft' = isDraft
        /\ UNCHANGED <<lines, discount, payable, stock, return, history, disturbed>>
    BY <1>4 DEF Demote
  <2>2. step \in {"find", "resume"}
    OBVIOUS
  <2> HIDE DEF step
  <2>3. new \in RequestState /\ new.step = step
    BY <1>1, <2>2 DEF RequestState, Steps
  <2> HIDE DEF new
  <2>4. new.step \notin SaleSteps /\ new.step # "return"
    BY <2>2, <2>3 DEF SaleSteps
  <2>5. status' \in [Sale -> Status] /\ isDraft' \in [Sale -> BOOLEAN]
    BY <1>1, <2>1 DEF TypeOK, Status
  <2>6. ASSUME NEW s \in Sale
        PROVE  /\ status[s] # "none" => status'[s] # "none"
               /\ isDraft'[s] => isDraft[s] \/ status[s] = "none"
               /\ Exists(s)' /\ ~isDraft'[s] => Exists(s) /\ ~isDraft[s]
               /\ status'[s] = "cancelled" => status[s] = "cancelled"
    BY <2>1 DEF Exists
  <2> QED BY <2>1, <2>3, <2>4, <2>5, <2>6, DraftKeeps
<1>5. CASE Resume(r)
  <2>1. /\ request' = [request EXCEPT ![r] = Idle] /\ Exists(request[r].keep)
        /\ status' = [status EXCEPT ![request[r].keep] = "open"]
        /\ isDraft' = isDraft
        /\ UNCHANGED <<lines, discount, payable, stock, return, history, disturbed>>
    BY <1>5 DEF Resume, Done
  <2>2. status' \in [Sale -> Status] /\ isDraft' \in [Sale -> BOOLEAN]
    BY <1>1, <2>1 DEF TypeOK, Status
  <2>3. ASSUME NEW s \in Sale
        PROVE  /\ status[s] # "none" => status'[s] # "none"
               /\ isDraft'[s] => isDraft[s] \/ status[s] = "none"
               /\ Exists(s)' /\ ~isDraft'[s] => Exists(s) /\ ~isDraft[s]
               /\ status'[s] = "cancelled" => status[s] = "cancelled"
    BY <1>1, <2>1 DEF Exists, TypeOK
  <2> QED BY <2>1, <2>2, <2>3, IdleFacts, DraftKeeps
<1> QED BY <1>2, <1>3, <1>4, <1>5

LEMMA FindOpenKeeps ==
    ASSUME SaleInv, NEW r \in Request, FindOpen(r) PROVE SaleInv'
<1>1. request[r] \in RequestState /\ TypeOK
  BY DEF SaleInv, TypeOK
<1>2. /\ UNCHANGED <<lines, discount, payable, stock, return, history, disturbed>>
      /\ UNCHANGED <<status, isDraft>>
  BY DEF FindOpen, saleVars
<1>3. /\ status' \in [Sale -> Status] /\ isDraft' \in [Sale -> BOOLEAN]
      /\ \A s \in Sale :
            /\ status[s] # "none" => status'[s] # "none"
            /\ isDraft'[s] => isDraft[s] \/ status[s] = "none"
            /\ Exists(s)' /\ ~isDraft'[s] => Exists(s) /\ ~isDraft[s]
            /\ status'[s] = "cancelled" => status[s] = "cancelled"
  BY <1>1, <1>2 DEF TypeOK, Exists
<1>4. CASE request' = [request EXCEPT ![r].step = "create"]
  <2> DEFINE new == [request[r] EXCEPT !.step = "create"]
  <2>1. new \in RequestState /\ new.step = "create"
    BY RequestStepType DEF Steps
  <2>2. request' = [request EXCEPT ![r] = new]
    BY <1>4
  <2> HIDE DEF new
  <2> QED BY <1>2, <1>3, <2>1, <2>2, DraftKeeps DEF SaleSteps
<1>5. CASE request' = [request EXCEPT ![r] = Idle]
  BY <1>2, <1>3, <1>5, IdleFacts, DraftKeeps
<1>6. ASSUME NEW t \in Sale,
             request' = [request EXCEPT ![r] =
                [request[r] EXCEPT !.step = "drop", !.sale = t]]
      PROVE  SaleInv'
  <2> DEFINE new == [request[r] EXCEPT !.step = "drop", !.sale = t]
  <2>1. new \in RequestState /\ new.step = "drop" /\ new.sale = t
    BY <1>1 DEF RequestState, Steps
  <2>2. request' = [request EXCEPT ![r] = new]
    BY <1>6
  <2> HIDE DEF new
  <2> QED BY <1>2, <1>3, <2>1, <2>2, DraftKeeps
<1>7. \/ request' = [request EXCEPT ![r].step = "create"]
      \/ request' = [request EXCEPT ![r] = Idle]
      \/ \E t \in Sale : request' = [request EXCEPT ![r] =
                             [request[r] EXCEPT !.step = "drop", !.sale = t]]
  <2>1. \/ request' = [request EXCEPT ![r].step = "create"]
        \/ \E t \in OpenSales : request' = [request EXCEPT ![r] =
                IF lines[t] # NoLines THEN Idle
                                      ELSE [request[r] EXCEPT !.step = "drop", !.sale = t]]
    BY DEF FindOpen
  <2> QED BY <2>1 DEF OpenSales
<1> QED BY <1>4, <1>5, <1>6, <1>7

LEMMA RowKeeps ==
    ASSUME SaleInv, NEW r \in Request,
           \/ \E s \in Sale : CreateSale(r, s)
           \/ \E parked \in {"draft", "parked"} : Park(r, parked)
           \/ Delete(r) \/ Reject(r)
    PROVE  SaleInv'
<1>1. request[r] \in RequestState /\ TypeOK
  BY DEF SaleInv, TypeOK
<1>2. ASSUME NEW t \in Sale, CreateSale(r, t) PROVE SaleInv'
  <2>1. /\ request' = [request EXCEPT ![r] = Idle] /\ status[t] = "none"
        /\ status' = [status EXCEPT ![t] = "open"]
        /\ isDraft' = [isDraft EXCEPT ![t] = TRUE]
        /\ UNCHANGED <<lines, discount, payable, stock, return, history, disturbed>>
    BY <1>2 DEF CreateSale, Done
  <2>2. status' \in [Sale -> Status] /\ isDraft' \in [Sale -> BOOLEAN]
    BY <1>1, <2>1 DEF TypeOK, Status
  <2>3. ASSUME NEW s \in Sale
        PROVE  /\ status[s] # "none" => status'[s] # "none"
               /\ isDraft'[s] => isDraft[s] \/ status[s] = "none"
               /\ Exists(s)' /\ ~isDraft'[s] => Exists(s) /\ ~isDraft[s]
               /\ status'[s] = "cancelled" => status[s] = "cancelled"
    BY <1>1, <2>1 DEF Exists, TypeOK
  <2> QED BY <2>1, <2>2, <2>3, IdleFacts, DraftKeeps
<1>3. ASSUME NEW parked \in {"draft", "parked"}, Park(r, parked) PROVE SaleInv'
  <2> DEFINE sweep == [Idle EXCEPT !.step = "sweep"]
             new == IF request[r].existed THEN sweep ELSE Idle
             t == request[r].sale
  <2>1. /\ request' = [request EXCEPT ![r] = new] /\ Exists(t)
        /\ status' = [status EXCEPT ![t] = parked]
        /\ isDraft' = isDraft
        /\ UNCHANGED <<lines, discount, payable, stock, return, history, disturbed>>
    BY <1>3 DEF Park
  <2>2. sweep \in RequestState /\ sweep.step = "sweep"
    BY IdleFacts DEF RequestState, Steps
  <2> HIDE DEF sweep
  <2>3. new \in RequestState /\ new.step \notin SaleSteps /\ new.step # "return"
    BY <2>2, IdleFacts DEF SaleSteps
  <2> HIDE DEF new
  <2>4. status' \in [Sale -> Status] /\ isDraft' \in [Sale -> BOOLEAN]
    BY <1>1, <2>1 DEF TypeOK, Status
  <2>5. ASSUME NEW s \in Sale
        PROVE  /\ status[s] # "none" => status'[s] # "none"
               /\ isDraft'[s] => isDraft[s] \/ status[s] = "none"
               /\ Exists(s)' /\ ~isDraft'[s] => Exists(s) /\ ~isDraft[s]
               /\ status'[s] = "cancelled" => status[s] = "cancelled"
    BY <1>1, <2>1 DEF Exists, TypeOK
  <2> QED BY <2>1, <2>3, <2>4, <2>5, DraftKeeps
<1>4. CASE Delete(r)
  <2> DEFINE create == [Idle EXCEPT !.step = "create"]
             new == IF At(r, "drop") THEN create ELSE Idle
             t == request[r].sale
  <2>1. /\ request' = [request EXCEPT ![r] = new] /\ Exists(t)
        /\ status' = [status EXCEPT ![t] = "deleted"]
        /\ isDraft' = [isDraft EXCEPT ![t] = FALSE]
        /\ UNCHANGED <<lines, discount, payable, stock, return, history, disturbed>>
    BY <1>4 DEF Delete
  <2>2. create \in RequestState /\ create.step = "create"
    BY IdleFacts DEF RequestState, Steps
  <2> HIDE DEF create
  <2>3. new \in RequestState /\ new.step \notin SaleSteps /\ new.step # "return"
    BY <2>2, IdleFacts DEF SaleSteps
  <2> HIDE DEF new
  <2>4. status' \in [Sale -> Status] /\ isDraft' \in [Sale -> BOOLEAN]
    BY <1>1, <2>1 DEF TypeOK, Status
  <2>5. ASSUME NEW s \in Sale
        PROVE  /\ status[s] # "none" => status'[s] # "none"
               /\ isDraft'[s] => isDraft[s] \/ status[s] = "none"
               /\ Exists(s)' /\ ~isDraft'[s] => Exists(s) /\ ~isDraft[s]
               /\ status'[s] = "cancelled" => status[s] = "cancelled"
    BY <1>1, <2>1 DEF Exists, TypeOK
  <2> QED BY <2>1, <2>3, <2>4, <2>5, DraftKeeps
<1>5. CASE Reject(r)
  <2>1. /\ request' = [request EXCEPT ![r] = Idle]
        /\ UNCHANGED <<status, isDraft>>
        /\ UNCHANGED <<lines, discount, payable, stock, return, history, disturbed>>
    BY <1>5 DEF Reject, Done, saleVars
  <2>2. status' \in [Sale -> Status] /\ isDraft' \in [Sale -> BOOLEAN]
    BY <1>1, <2>1 DEF TypeOK
  <2>3. ASSUME NEW s \in Sale
        PROVE  /\ status[s] # "none" => status'[s] # "none"
               /\ isDraft'[s] => isDraft[s] \/ status[s] = "none"
               /\ Exists(s)' /\ ~isDraft'[s] => Exists(s) /\ ~isDraft[s]
               /\ status'[s] = "cancelled" => status[s] = "cancelled"
    BY <2>1 DEF Exists
  <2> QED BY <2>1, <2>2, <2>3, IdleFacts, DraftKeeps
<1> QED BY <1>2, <1>3, <1>4, <1>5

-----------------------------------------------------------------------------
(* The transactions: payment, cancel, return and the cancel of a return.   *)

\* The payment claims a draft: it was not posted, so nothing of it has come back.
LEMMA PayKeeps == ASSUME SaleInv, NEW r \in Request, Pay(r) PROVE SaleInv'
<1> DEFINE t == request[r].sale
<1>1. /\ request[r] \in RequestState /\ t \in Sale /\ TypeOK
  BY DEF SaleInv, TypeOK, Pay, At, RequestHolds, SaleSteps
<1>2. /\ isDraft[t] /\ \A i \in Item : stock[i] >= lines[t][i]
      /\ status' = [status EXCEPT ![t] = "paid"]
      /\ isDraft' = [isDraft EXCEPT ![t] = FALSE]
      /\ stock' = [i \in Item |-> stock[i] - lines[t][i]]
      /\ settled' = [settled EXCEPT ![t] = request[r].due]
      /\ taken' = [taken EXCEPT ![t] = lines[t]]
      /\ posted' = [posted EXCEPT ![t] = posted[t] + 1]
      /\ request' = [request EXCEPT ![r] = Idle]
      /\ UNCHANGED <<lines, discount, payable, return, restored, reversed, disturbed>>
  BY DEF Pay, PayClaimed, InStock, Done
<1>3. posted[t] = 0
  BY <1>1, <1>2 DEF SaleInv, PostedIsNoDraft
<1>4. lines[t] \in Lines /\ lines[t] \in Units /\ \A i \in Item : lines[t][i] \in Nat
  BY <1>1, LineUnits DEF TypeOK, Units
<1>5. TypeOK'
  <2>1. stock' \in Units
    BY <1>1, <1>2, <1>4 DEF TypeOK, Units
  <2>2. /\ status' \in [Sale -> Status] /\ isDraft' \in [Sale -> BOOLEAN]
        /\ settled' \in [Sale -> Nat] /\ taken' \in [Sale -> Units]
        /\ posted' \in [Sale -> Nat] /\ request' \in [Request -> RequestState]
    BY <1>1, <1>2, <1>3, <1>4, IdleFacts DEF TypeOK, RequestState, Status
  <2> QED BY <1>1, <1>2, <2>1, <2>2 DEF TypeOK
<1>6. /\ posted'[t] = 1 /\ taken'[t] = lines[t] /\ status'[t] = "paid" /\ ~isDraft'[t]
      /\ \A s \in Sale : s # t => /\ posted'[s] = posted[s] /\ taken'[s] = taken[s]
                                 /\ status'[s] = status[s] /\ isDraft'[s] = isDraft[s]
  BY <1>1, <1>2, <1>3 DEF TypeOK
<1>7. ASSUME NEW s \in Sale PROVE PostedIsNoDraft(s)' /\ LinesKept(s)'
  BY <1>2, <1>6 DEF SaleInv, PostedIsNoDraft, LinesKept, Exists
<1>8. ASSUME NEW q \in Request PROVE RequestHolds(request[q])'
  <2>1. CASE q = r
    <3>1. request'[q] = Idle
      BY <1>1, <1>2, <2>1 DEF TypeOK
    <3> QED BY <3>1, IdleFacts DEF RequestHolds, SaleSteps
  <2>2. CASE q # r
    <3>1. request'[q] = request[q] /\ RequestHolds(request[q])
      BY <1>2, <2>2 DEF SaleInv
    <3> QED BY <1>2, <1>3, <1>6, <3>1 DEF RequestHolds, SaleSteps
  <2> QED BY <2>1, <2>2
<1>9. ASSUME NEW x \in Return PROVE ReturnHolds(x)'
  BY <1>2, <1>3, <1>6 DEF SaleInv, ReturnHolds
<1>10. ASSUME NEW s \in Sale, NEW i \in Item
       PROVE  /\ posted'[s] = 1 /\ ~disturbed'[s] => Back(s, i)' <= taken'[s][i]
              /\ status'[s] = "cancelled" => LiveReturns(s)' = {}
  <2>1. Back(s, i)' = Back(s, i) /\ LiveReturns(s)' = LiveReturns(s)
    BY <1>2 DEF Back, QuantityBack, ReturnedOf, LiveReturns
  <2>2. CASE s = t
    <3>1. ReturnedOf(t, i) = {}
      BY <1>3 DEF SaleInv, ReturnHolds, ReturnedOf, LiveReturns
    <3>2. Back(t, i) = 0
      BY <3>1, SumEmpty DEF Back
    <3>3. taken'[t][i] \in Nat
      BY <1>4, <1>6
    <3> QED BY <1>6, <2>1, <2>2, <3>2, <3>3
  <2>3. CASE s # t
    BY <1>2, <1>6, <2>1, <2>3 DEF SaleInv
  <2> QED BY <2>2, <2>3
<1> QED BY <1>5, <1>7, <1>8, <1>9, <1>10 DEF SaleInv

LEMMA CancelKeeps == ASSUME SaleInv, NEW r \in Request, Cancel(r) PROVE SaleInv'
<1> DEFINE t == request[r].sale
           seen == request[r].seen
<1>1. /\ request[r] \in RequestState /\ t \in Sale /\ TypeOK
  BY DEF SaleInv, TypeOK, Cancel, At, RequestHolds, SaleSteps
<1>2. /\ Exists(t) /\ LiveReturns(t) = {} /\ ~isDraft[t]
      /\ status' = [status EXCEPT ![t] = "cancelled"]
      /\ stock' = [i \in Item |-> stock[i] + seen[i]]
      /\ restored' = [restored EXCEPT ![t] = [i \in Item |-> restored[t][i] + seen[i]]]
      /\ reversed' = [reversed EXCEPT ![t] = reversed[t] + 1]
      /\ request' = [request EXCEPT ![r] = Idle]
      /\ UNCHANGED <<isDraft, lines, discount, payable, return, settled, taken, posted,
                     disturbed>>
  BY DEF Cancel, CancelClaimed, Done
<1>3. \A i \in Item : seen[i] \in Nat
  <2>1. seen \in Units
    BY <1>1, LineUnits DEF RequestState
  <2> QED BY <2>1 DEF Units
<1>4. TypeOK'
  <2>1. stock' \in Units
    BY <1>1, <1>2, <1>3 DEF TypeOK, Units
  <2>2. [i \in Item |-> restored[t][i] + seen[i]] \in Units
    BY <1>1, <1>3 DEF TypeOK, Units
  <2>3. /\ status' \in [Sale -> Status] /\ restored' \in [Sale -> Units]
        /\ reversed' \in [Sale -> Nat] /\ request' \in [Request -> RequestState]
    BY <1>1, <1>2, <2>2, IdleFacts DEF TypeOK, Status
  <2> QED BY <1>1, <1>2, <2>1, <2>3 DEF TypeOK
<1>5. /\ status'[t] = "cancelled" /\ \A s \in Sale : s # t => status'[s] = status[s]
  BY <1>1, <1>2 DEF TypeOK
<1>6. ASSUME NEW s \in Sale PROVE PostedIsNoDraft(s)' /\ LinesKept(s)'
  BY <1>2, <1>5 DEF SaleInv, PostedIsNoDraft, LinesKept, Exists
<1>7. ASSUME NEW q \in Request PROVE RequestHolds(request[q])'
  <2>1. request'[q] = IF q = r THEN Idle ELSE request[q]
    BY <1>1, <1>2 DEF TypeOK
  <2> QED BY <1>2, <2>1, IdleFacts DEF SaleInv, RequestHolds, SaleSteps
<1>8. ASSUME NEW x \in Return PROVE ReturnHolds(x)'
  BY <1>2 DEF SaleInv, ReturnHolds
<1>9. ASSUME NEW s \in Sale, NEW i \in Item
      PROVE  /\ posted'[s] = 1 /\ ~disturbed'[s] => Back(s, i)' <= taken'[s][i]
             /\ status'[s] = "cancelled" => LiveReturns(s)' = {}
  <2>1. Back(s, i)' = Back(s, i) /\ LiveReturns(s)' = LiveReturns(s)
    BY <1>2 DEF Back, QuantityBack, ReturnedOf, LiveReturns
  <2> QED BY <1>2, <1>5, <2>1 DEF SaleInv
<1> QED BY <1>4, <1>6, <1>7, <1>8, <1>9 DEF SaleInv

\* The refreshed status of a sale that is there and not cancelled is such a one.
LEMMA RefreshFacts ==
    ASSUME SaleInv, NEW t \in Sale, RefreshStatus(t), status[t] # "cancelled"
    PROVE  /\ status' \in [Sale -> Status]
           /\ \A s \in Sale : /\ status'[s] = "cancelled" => status[s] = "cancelled"
                              /\ status'[s] \notin Absent => status[s] \notin Absent
                              /\ status[s] # "none" => status'[s] # "none"
<1>1. status \in [Sale -> Status]
  BY DEF SaleInv, TypeOK
<1>2. CASE ~Exists(t)
  BY <1>1, <1>2 DEF RefreshStatus, Exists, Absent
<1>3. CASE Exists(t)
  <2> DEFINE new == Refreshed(t, return')
  <2>1. status' = [status EXCEPT ![t] = new]
    BY <1>3 DEF RefreshStatus
  <2>2. new \in {"paid", "returned", "partially_returned", status[t]}
    BY DEF Refreshed
  <2> HIDE DEF new
  <2> QED BY <1>1, <1>3, <2>1, <2>2 DEF Exists, Absent, Status
<1> QED BY <1>2, <1>3

\* A return that is made adds its units to what has come back of its line.
LEMMA BackAfterReturn ==
    ASSUME TypeOK, TypeOK', NEW x \in Return, NEW t \in Sale, NEW i \in Item,
           NEW q \in Quantities, return[x].state = "none",
           return' = [return EXCEPT ![x] =
               [state |-> "live", sale |-> t, item |-> i, quantity |-> q]]
    PROVE  /\ Back(t, i)' = Back(t, i) + q
           /\ \A s \in Sale, j \in Item : s # t \/ j # i => Back(s, j)' = Back(s, j)
           /\ \A s \in Sale : s # t => LiveReturns(s)' = LiveReturns(s)
<1>1. /\ return'[x].state = "live" /\ return'[x].sale = t /\ return'[x].item = i
      /\ return'[x].quantity = q /\ \A y \in Return : y # x => return'[y] = return[y]
  BY DEF TypeOK
<1>2. \A y \in Return : QuantityBack[y] \in Nat /\ QuantityBack'[y] \in Nat
  BY SalesAssumption DEF TypeOK, ReturnDocument, QuantityBack, Quantities
<1>3. \A y \in Return : y # x => QuantityBack'[y] = QuantityBack[y]
  BY <1>1 DEF QuantityBack
<1>4. QuantityBack'[x] = q
  BY <1>1 DEF QuantityBack
<1>5. ASSUME NEW s \in Sale, NEW j \in Item, s # t \/ j # i
      PROVE  Back(s, j)' = Back(s, j)
  <2>1. ReturnedOf(s, j)' = ReturnedOf(s, j) /\ x \notin ReturnedOf(s, j)
    BY <1>1, <1>5 DEF ReturnedOf, LiveReturns
  <2>2. \A y \in ReturnedOf(s, j) : QuantityBack'[y] = QuantityBack[y]
    BY <1>3, <2>1 DEF ReturnedOf, LiveReturns
  <2> QED BY <2>1, <2>2, SumCongruence DEF Back
<1>6. Back(t, i)' = Back(t, i) + q
  <2> DEFINE S == ReturnedOf(t, i)
  <2>1. ReturnedOf(t, i)' = S \cup {x} /\ x \notin S /\ S \subseteq Return
    BY <1>1 DEF ReturnedOf, LiveReturns
  <2>2. IsFiniteSet(S \cup {x})
    BY BackType, FS_AddElement
  <2>3. \A y \in S \cup {x} : QuantityBack'[y] \in Nat
    BY <1>2, <2>1
  <2>4. SumOver(QuantityBack', S \cup {x}) = SumOver(QuantityBack', (S \cup {x}) \ {x}) + QuantityBack'[x]
    BY <2>2, <2>3, SumSplit
  <2>5. (S \cup {x}) \ {x} = S
    BY <2>1
  <2>6. SumOver(QuantityBack', S) = SumOver(QuantityBack, S)
    BY <1>3, <2>1, SumCongruence
  <2> HIDE DEF S
  <2>7. SumOver(QuantityBack', S \cup {x}) = SumOver(QuantityBack, S) + q
    BY <1>4, <2>4, <2>5, <2>6
  <2> QED BY <2>1, <2>7 DEF Back, S
<1>7. ASSUME NEW s \in Sale, s # t PROVE LiveReturns(s)' = LiveReturns(s)
  BY <1>1, <1>7 DEF LiveReturns
<1> QED BY <1>5, <1>6, <1>7

\* A return that ceases to be live takes its units away.
LEMMA BackAfterUndo ==
    ASSUME TypeOK, NEW x \in Return, return' \in [Return -> ReturnDocument],
           return'[x].state # "live", \A y \in Return : y # x => return'[y] = return[y]
    PROVE  \A s \in Sale : /\ LiveReturns(s)' \subseteq LiveReturns(s)
                         /\ \A i \in Item : Back(s, i)' \in Nat /\ Back(s, i)' <= Back(s, i)
<1>2. \A y \in Return : QuantityBack[y] \in Nat
  BY SalesAssumption DEF TypeOK, ReturnDocument, QuantityBack, Quantities
<1>3. ASSUME NEW s \in Sale PROVE LiveReturns(s)' = LiveReturns(s) \ {x}
  BY DEF LiveReturns
<1>4. ASSUME NEW s \in Sale, NEW i \in Item
      PROVE  Back(s, i)' \in Nat /\ Back(s, i)' <= Back(s, i)
  <2> DEFINE S == ReturnedOf(s, i)
  <2>1. ReturnedOf(s, i)' = S \ {x} /\ S \subseteq Return
    BY <1>3 DEF ReturnedOf, LiveReturns
  <2>2. IsFiniteSet(S) /\ IsFiniteSet(S \ {x})
    BY BackType, FS_Subset
  <2>3. SumOver(QuantityBack, S \ {x}) \in Nat
    <3>1. \A y \in S \ {x} : QuantityBack[y] \in Int
      BY <1>2, <2>1
    <3> QED BY <2>2, <3>1, SumType
  <2>4. SumOver(QuantityBack, S \ {x}) <= SumOver(QuantityBack, S)
    <3>1. CASE x \in S
      <4>1. \A y \in S : QuantityBack[y] \in Nat
        BY <1>2, <2>1
      <4>2. SumOver(QuantityBack, S) = SumOver(QuantityBack, S \ {x}) + QuantityBack[x]
        BY <2>2, <3>1, <4>1, SumSplit
      <4> HIDE DEF S
      <4>3. QuantityBack[x] \in Nat
        BY <1>2
      <4> QED BY <2>3, <4>2, <4>3
    <3>2. CASE x \notin S
      <4>1. S \ {x} = S
        BY <3>2
      <4> HIDE DEF S
      <4> QED BY <2>3, <4>1
    <3> QED BY <3>1, <3>2
  <2>5. Back(s, i)' = SumOver(QuantityBack, S \ {x})
    <3>1. \A y \in S \ {x} : QuantityBack'[y] = QuantityBack[y]
      BY <2>1 DEF QuantityBack
    <3>2. SumOver(QuantityBack', S \ {x}) = SumOver(QuantityBack, S \ {x})
      BY <3>1, SumCongruence
    <3> HIDE DEF S
    <3> QED BY <2>1, <3>2 DEF Back
  <2> QED BY <2>3, <2>4, <2>5 DEF Back
<1> QED BY <1>3, <1>4

LEMMA MakeReturnKeeps ==
    ASSUME SaleInv, NEW r \in Request, NEW x \in Return, MakeReturn(r, x) PROVE SaleInv'
<1>1. /\ request[r] \in RequestState /\ request[r].sale \in Sale /\ TypeOK
      /\ RequestHolds(request[r]) /\ request[r].step = "return"
  BY DEF SaleInv, TypeOK, MakeReturn, At, RequestHolds, SaleSteps
<1>2. PICK t \in Sale, i \in Item, q \in Quantities :
          t = request[r].sale /\ i = request[r].item /\ q = request[r].quantity
  BY <1>1 DEF RequestState
<1>3. /\ Exists(t) /\ status[t] # "cancelled" /\ return[x].state = "none"
      /\ request[r].seen[i] >= Back(t, i) + q
      /\ return' = [return EXCEPT ![x] =
            [state |-> "live", sale |-> t, item |-> i, quantity |-> q]]
      /\ stock' = [stock EXCEPT ![i] = stock[i] + q]
      /\ RefreshStatus(t)
      /\ request' = [request EXCEPT ![r] = Idle]
      /\ UNCHANGED <<isDraft, lines, discount, payable, settled, taken, restored, posted,
                     reversed, disturbed>>
  BY <1>2 DEF MakeReturn, ReturnClaimed, Returnable, Done, history, Back, QuantityBack,
              ReturnedOf
<1>4. posted[t] = 1 /\ (~disturbed[t] => request[r].seen = taken[t])
  BY <1>1, <1>2 DEF RequestHolds
<1>5. /\ status' \in [Sale -> Status]
      /\ \A s \in Sale : /\ status'[s] = "cancelled" => status[s] = "cancelled"
                         /\ status'[s] \notin Absent => status[s] \notin Absent
                         /\ status[s] # "none" => status'[s] # "none"
  BY <1>3, RefreshFacts
<1>6. TypeOK'
  <2>1. return' \in [Return -> ReturnDocument]
    BY <1>1, <1>3 DEF TypeOK, ReturnDocument
  <2>2. stock' \in Units
    BY <1>1, <1>3, SalesAssumption DEF TypeOK, Units, Quantities
  <2>3. request' \in [Request -> RequestState]
    BY <1>1, <1>3, IdleFacts DEF TypeOK
  <2> QED BY <1>1, <1>3, <1>5, <2>1, <2>2, <2>3 DEF TypeOK
<1>7. /\ Back(t, i)' = Back(t, i) + q
      /\ \A s \in Sale, j \in Item : s # t \/ j # i => Back(s, j)' = Back(s, j)
      /\ \A s \in Sale : s # t => LiveReturns(s)' = LiveReturns(s)
  BY <1>1, <1>3, <1>6, BackAfterReturn
<1>8. ASSUME NEW s \in Sale PROVE PostedIsNoDraft(s)' /\ LinesKept(s)'
  <2>1. PostedIsNoDraft(s) /\ LinesKept(s)
    BY DEF SaleInv
  <2>2. /\ status'[s] \notin Absent => status[s] \notin Absent
        /\ status[s] # "none" => status'[s] # "none"
    BY <1>5
  <2>3. UNCHANGED <<posted, isDraft, lines, taken, disturbed>>
    BY <1>3
  <2>4. PostedIsNoDraft(s)'
    BY <2>1, <2>2, <2>3 DEF PostedIsNoDraft, Exists, Absent
  <2>5. LinesKept(s)'
    BY <2>1, <2>3 DEF LinesKept
  <2> QED BY <2>4, <2>5
<1>9. ASSUME NEW p \in Request PROVE RequestHolds(request[p])'
  <2>1. request'[p] = IF p = r THEN Idle ELSE request[p]
    BY <1>1, <1>3 DEF TypeOK
  <2> QED BY <1>3, <2>1, IdleFacts DEF SaleInv, RequestHolds, SaleSteps
<1>10. ASSUME NEW y \in Return PROVE ReturnHolds(y)'
  <2>1. CASE y = x
    <3>1. return'[y].sale = t
      BY <1>1, <1>3, <2>1 DEF TypeOK
    <3> QED BY <1>3, <1>4, <3>1 DEF ReturnHolds
  <2>2. CASE y # x
    <3>1. return'[y] = return[y]
      BY <1>3, <2>2
    <3> QED BY <1>3, <3>1 DEF SaleInv, ReturnHolds
  <2> QED BY <2>1, <2>2
<1>11. ASSUME NEW s \in Sale, NEW j \in Item
       PROVE  /\ posted'[s] = 1 /\ ~disturbed'[s] => Back(s, j)' <= taken'[s][j]
              /\ status'[s] = "cancelled" => LiveReturns(s)' = {}
  <2>1. status'[s] = "cancelled" => LiveReturns(s)' = {}
    <3>1. status[s] = "cancelled" => LiveReturns(s) = {} /\ s # t
      BY <1>3 DEF SaleInv
    <3>2. status'[s] = "cancelled" => status[s] = "cancelled"
      BY <1>5
    <3>3. s # t => LiveReturns(s)' = LiveReturns(s)
      BY <1>7
    <3> QED BY <3>1, <3>2, <3>3
  <2>2. CASE s = t /\ j = i
    <3>1. request[r].seen[i] \in Nat /\ Back(t, i) \in Nat /\ q \in Nat
      BY <1>1, BackType, SalesAssumption DEF RequestState, Lines, Quantities
    <3>2. Back(t, i)' <= request[r].seen[i]
      BY <1>3, <1>7, <3>1
    <3> QED BY <1>3, <1>4, <2>1, <2>2, <3>2
  <2>3. CASE s # t \/ j # i
    BY <1>3, <1>7, <2>1, <2>3 DEF SaleInv
  <2> QED BY <2>2, <2>3
<1> QED BY <1>6, <1>8, <1>9, <1>10, <1>11 DEF SaleInv

\* What the two ways of cancelling a return have in common, and its removal.
LEMMA UndoKeeps ==
    ASSUME SaleInv, NEW r \in Request, NEW x \in Return,
           return' \in [Return -> ReturnDocument], return'[x].state # "live",
           \A y \in Return : y # x => return'[y] = return[y],
           stock' \in Units, status' \in [Sale -> Status],
           \A s \in Sale : /\ status'[s] = "cancelled" => status[s] = "cancelled"
                           /\ status'[s] \notin Absent => status[s] \notin Absent
                           /\ status[s] # "none" => status'[s] # "none",
           request' = [request EXCEPT ![r] = Idle],
           UNCHANGED <<isDraft, lines, discount, payable, settled, taken, restored, posted,
                       reversed, disturbed>>
    PROVE  SaleInv'
<1>1. TypeOK /\ request[r] \in RequestState
  BY DEF SaleInv, TypeOK
<1>3. TypeOK'
  <2>2. request' \in [Request -> RequestState]
    BY <1>1, IdleFacts DEF TypeOK
  <2> QED BY <1>1, <2>2 DEF TypeOK
<1>4. ASSUME NEW s \in Sale PROVE PostedIsNoDraft(s)' /\ LinesKept(s)'
  <2>1. PostedIsNoDraft(s) /\ LinesKept(s)
    BY DEF SaleInv
  <2>2. /\ status'[s] \notin Absent => status[s] \notin Absent
        /\ status[s] # "none" => status'[s] # "none"
    OBVIOUS
  <2>3. PostedIsNoDraft(s)'
    BY <2>1, <2>2 DEF PostedIsNoDraft, Exists, Absent
  <2>4. LinesKept(s)'
    BY <2>1 DEF LinesKept
  <2> QED BY <2>3, <2>4
<1>5. ASSUME NEW p \in Request PROVE RequestHolds(request[p])'
  <2>1. request'[p] = IF p = r THEN Idle ELSE request[p]
    BY <1>1 DEF TypeOK
  <2> QED BY <2>1, IdleFacts DEF SaleInv, RequestHolds, SaleSteps
<1>6. ASSUME NEW y \in Return PROVE ReturnHolds(y)'
  BY DEF SaleInv, ReturnHolds
<1>7. ASSUME NEW s \in Sale, NEW i \in Item
      PROVE  /\ posted'[s] = 1 /\ ~disturbed'[s] => Back(s, i)' <= taken'[s][i]
             /\ status'[s] = "cancelled" => LiveReturns(s)' = {}
  <2>1. /\ LiveReturns(s)' \subseteq LiveReturns(s)
        /\ Back(s, i)' \in Nat /\ Back(s, i)' <= Back(s, i)
    BY <1>1, BackAfterUndo
  <2>2. status'[s] = "cancelled" => LiveReturns(s)' = {}
    <3>1. status[s] = "cancelled" => LiveReturns(s) = {}
      BY DEF SaleInv
    <3>2. status'[s] = "cancelled" => status[s] = "cancelled"
      OBVIOUS
    <3> QED BY <2>1, <3>1, <3>2
  <2>3. ASSUME posted[s] = 1, ~disturbed[s] PROVE Back(s, i)' <= taken[s][i]
    <3>1. Back(s, i) <= taken[s][i]
      BY <2>3 DEF SaleInv
    <3>2. Back(s, i) \in Nat /\ taken[s][i] \in Nat
      BY <1>1, BackType DEF TypeOK, Units
    <3> QED BY <2>1, <3>1, <3>2
  <2> QED BY <2>2, <2>3
<1> QED BY <1>3, <1>4, <1>5, <1>6, <1>7 DEF SaleInv

LEMMA CancelReturnKeeps ==
    ASSUME SaleInv, NEW r \in Request, CancelReturn(r) PROVE SaleInv'
<1>1. TypeOK /\ request[r] \in RequestState
  BY DEF SaleInv, TypeOK
<1>2. PICK x \in Return : x = request[r].target
  BY <1>1 DEF RequestState
<1>3. PICK t \in Sale : t = return[x].sale
  BY <1>2 DEF CancelReturn, SaleInv, ReturnHolds
<1>4. /\ return[x].state = "live" /\ stock[return[x].item] >= return[x].quantity
      /\ return' = [return EXCEPT ![x].state = "cancelled"]
      /\ stock' = [stock EXCEPT ![return[x].item] = stock[return[x].item] - return[x].quantity]
      /\ RefreshStatus(t)
      /\ request' = [request EXCEPT ![r] = Idle]
      /\ UNCHANGED <<isDraft, lines, discount, payable, settled, taken, restored, posted,
                     reversed, disturbed>>
  BY <1>2, <1>3 DEF CancelReturn, Done, history
<1>5. status[t] # "cancelled"
  <2>1. x \in LiveReturns(t)
    BY <1>3, <1>4 DEF LiveReturns
  <2>2. PICK i \in Item : TRUE
    BY SalesAssumption
  <2> QED BY <2>1, <2>2 DEF SaleInv
<1>6. stock' \in Units
  BY <1>1, <1>4, SalesAssumption DEF TypeOK, Units, ReturnDocument, Quantities
<1>7. /\ return' \in [Return -> ReturnDocument] /\ return'[x].state # "live"
      /\ \A y \in Return : y # x => return'[y] = return[y]
  BY <1>1, <1>4 DEF TypeOK, ReturnDocument
<1> QED BY <1>4, <1>5, <1>6, <1>7, RefreshFacts, UndoKeeps

LEMMA CancelOrphanKeeps ==
    ASSUME SaleInv, NEW r \in Request, CancelOrphan(r) PROVE SaleInv'
<1>1. TypeOK /\ request[r] \in RequestState
  BY DEF SaleInv, TypeOK
<1>2. PICK x \in Return : x = request[r].target
  BY <1>1 DEF RequestState
<1>3. /\ return[x].state = "live"
      /\ return' = [return EXCEPT ![x].state = "cancelled"]
      /\ stock' = [stock EXCEPT ![return[x].item] = stock[return[x].item] + return[x].quantity]
      /\ request' = [request EXCEPT ![r] = Idle]
      /\ UNCHANGED <<status, isDraft, lines, discount, payable, settled, taken, restored,
                     posted, reversed, disturbed>>
  BY <1>2 DEF CancelOrphan, Done, saleVars, history
<1>4. stock' \in Units /\ status' \in [Sale -> Status]
  BY <1>1, <1>3, SalesAssumption DEF TypeOK, Units, ReturnDocument, Quantities
<1>5. /\ return' \in [Return -> ReturnDocument] /\ return'[x].state # "live"
      /\ \A y \in Return : y # x => return'[y] = return[y]
  BY <1>1, <1>3 DEF TypeOK, ReturnDocument
<1> QED BY <1>3, <1>4, <1>5, UndoKeeps DEF Absent

LEMMA DeleteReturnKeeps ==
    ASSUME SaleInv, NEW r \in Request, DeleteReturn(r) PROVE SaleInv'
<1>1. TypeOK /\ request[r] \in RequestState
  BY DEF SaleInv, TypeOK
<1>2. PICK x \in Return : x = request[r].target
  BY <1>1 DEF RequestState
<1>3. /\ return' = [return EXCEPT ![x] = [NoReturn EXCEPT !.state = "deleted"]]
      /\ request' = [request EXCEPT ![r] = Idle]
      /\ UNCHANGED <<status, isDraft, lines, discount, payable, stock, settled, taken,
                     restored, posted, reversed, disturbed>>
  BY <1>2 DEF DeleteReturn, Done, saleVars, history
<1>4. stock' \in Units /\ status' \in [Sale -> Status]
  BY <1>1, <1>3 DEF TypeOK
<1>5. /\ return' \in [Return -> ReturnDocument] /\ return'[x].state # "live"
      /\ \A y \in Return : y # x => return'[y] = return[y]
  <2>1. /\ [NoReturn EXCEPT !.state = "deleted"] \in ReturnDocument
        /\ [NoReturn EXCEPT !.state = "deleted"].state = "deleted"
    BY NoReturnFacts DEF ReturnDocument
  <2> QED BY <1>1, <1>3, <2>1 DEF TypeOK
<1> QED BY <1>3, <1>4, <1>5, UndoKeeps DEF Absent

-----------------------------------------------------------------------------
LEMMA SaleStep == SaleInv /\ [Next]_vars => SaleInv'
<1> SUFFICES ASSUME SaleInv, [Next]_vars PROVE SaleInv'
  OBVIOUS
<1>1. CASE UNCHANGED vars
  <2>1. /\ UNCHANGED <<status, isDraft, lines, discount, payable, stock, return, settled>>
        /\ UNCHANGED <<request, taken, restored, posted, reversed, disturbed>>
    BY <1>1 DEF vars, saleVars, history
  <2>2. TypeOK' /\ \A q \in Request : RequestHolds(request[q])'
    BY <2>1 DEF SaleInv, TypeOK, RequestHolds
  <2>3. ASSUME NEW s \in Sale PROVE PostedIsNoDraft(s)' /\ LinesKept(s)'
    BY <2>1 DEF SaleInv, PostedIsNoDraft, LinesKept, Exists
  <2>4. ASSUME NEW x \in Return PROVE ReturnHolds(x)'
    BY <2>1 DEF SaleInv, ReturnHolds
  <2>5. ASSUME NEW s \in Sale, NEW i \in Item
        PROVE  Back(s, i)' = Back(s, i) /\ LiveReturns(s)' = LiveReturns(s)
    BY <2>1 DEF Back, QuantityBack, ReturnedOf, LiveReturns
  <2> QED BY <2>1, <2>2, <2>3, <2>4, <2>5 DEF SaleInv
<1>2. ASSUME NEW r \in Request, BeginStep(r) PROVE SaleInv'
  BY <1>2, BeginKeeps, BeginReturnKeeps DEF BeginStep
<1>3. ASSUME NEW r \in Request, DraftStep(r) PROVE SaleInv'
  BY <1>3, WriteLineKeeps, WriteDiscountKeeps, TotalsKeep, SweepKeeps, FindOpenKeeps,
     RowKeeps DEF DraftStep
<1>4. ASSUME NEW r \in Request, PostingStep(r) PROVE SaleInv'
  BY <1>4, PayKeeps, CancelKeeps, MakeReturnKeeps, CancelReturnKeeps, CancelOrphanKeeps,
     DeleteReturnKeeps DEF PostingStep
<1> QED BY <1>1, <1>2, <1>3, <1>4 DEF Next

\* A posted sale is no draft, its lines are kept, and what a request has read holds.
THEOREM SaleInvariant == Spec => []SaleInv
<1> QED BY SaleBegins, SaleStep, PTL DEF Spec

\* Every column of the till keeps its type; the shop never owes goods.
THEOREM SaleTypes == Spec => []TypeOK
<1>1. SaleInv => TypeOK
  BY DEF SaleInv
<1> QED BY <1>1, SaleInvariant, PTL

\* Whatever is paid, parked, resumed, swept or deleted at once, the stock of a sale
\* is written off at most once (the claim of pay, sales.service.ts:2093).
THEOREM SalesPostedAtMostOnce == Spec => []PostedAtMostOnce
<1>1. SaleInv => PostedAtMostOnce
  BY DEF SaleInv, TypeOK, PostedIsNoDraft, PostedAtMostOnce
<1> QED BY <1>1, SaleInvariant, PTL

\* Over all its returns a customer never brings back more than the payment took, and
\* nothing of a cancelled sale.
THEOREM ReturnsStayWithinSale == Spec => []ReturnsWithinSale
<1>1. SaleInv => ReturnsWithinSale
  <2> SUFFICES ASSUME SaleInv, NEW s \in Sale, NEW i \in Item
               PROVE  /\ posted[s] > 0 /\ ~disturbed[s] => Back(s, i) <= taken[s][i]
                      /\ status[s] = "cancelled" => LiveReturns(s) = {}
    BY DEF ReturnsWithinSale, Back, QuantityBack, ReturnedOf
  <2>1. posted[s] = 0 \/ posted[s] = 1
    BY DEF SaleInv, PostedIsNoDraft
  <2> QED BY <2>1 DEF SaleInv
<1> QED BY <1>1, SaleInvariant, PTL

-----------------------------------------------------------------------------
(* What is charged is what is written off.  A payment in flight holds the   *)
(* total of the sale as it stands, unless a write has marked the sale.      *)

Due(q) == q.paying /\ q.step \in {"store", "pay"}

DueHolds(q) ==
    /\ q.step = "pay" => q.paying
    /\ Due(q) /\ ~disturbed[q.sale] =>
          /\ q.due = TotalOf(q.sale)
          /\ q.step = "pay" => payable[q.sale] = q.due

Charged(s) ==
    posted[s] = 1 /\ ~disturbed[s] => settled[s] = payable[s] /\ settled[s] = TotalOf(s)

ChargeInv ==
    /\ SaleInv
    /\ \A s \in Sale : Charged(s)
    /\ \A r \in Request : DueHolds(request[r])

LEMMA ChargeQuiet ==
    ASSUME ChargeInv, SaleInv', NEW r \in Request, NEW new,
           request' = [request EXCEPT ![r] = new], new.step \notin {"store", "pay"},
           UNCHANGED <<lines, discount, payable, settled, posted, disturbed>>
    PROVE  ChargeInv'
<1>1. ASSUME NEW s \in Sale PROVE Charged(s)'
  BY DEF ChargeInv, Charged, TotalOf, Payable
<1>2. ASSUME NEW q \in Request PROVE DueHolds(request[q])'
  <2>1. request'[q] = IF q = r THEN new ELSE request[q]
    BY DEF ChargeInv, SaleInv, TypeOK
  <2>2. CASE q = r
    BY <2>1, <2>2 DEF DueHolds, Due
  <2>3. CASE q # r
    BY <2>1, <2>3 DEF ChargeInv, DueHolds, Due, TotalOf, Payable
  <2> QED BY <2>2, <2>3
<1> QED BY <1>1, <1>2 DEF ChargeInv

LEMMA ChargeStart ==
    ASSUME ChargeInv, SaleInv', NEW r \in Request, NEW kind, NEW new,
           Start(r, kind, new), new.step \notin {"store", "pay"}
    PROVE  ChargeInv'
<1>1. /\ request' = [request EXCEPT ![r] = new]
      /\ UNCHANGED <<lines, discount, payable, settled, posted, disturbed>>
  BY DEF Start, saleVars, history
<1> QED BY <1>1, ChargeQuiet

\* A cancel starts from the lines of a sale that is no draft.
CancelReads(new) ==
    /\ new.sale \in Sale /\ new.seen = lines[new.sale]
    /\ Exists(new.sale) /\ ~isDraft[new.sale]

\* What a request does first, and what it has read when that is a cancel.
LEMMA BeginNames ==
    ASSUME NEW r \in Request, BeginStep(r)
    PROVE  \E kind, new :
              /\ Start(r, kind, new) /\ new.step \notin {"store", "pay"}
              /\ new.step = "cancel" => CancelReads(new)
<1> DEFINE Named == \E kind, new :
              /\ Start(r, kind, new) /\ new.step \notin {"store", "pay"}
              /\ new.step = "cancel" => CancelReads(new)
<1>1. ASSUME BeginOpen(r) PROVE Named
  <2> DEFINE new == [Idle EXCEPT !.step = "sweep"]
  <2>1. Start(r, "open", new)
    BY <1>1 DEF BeginOpen
  <2>2. new.step = "sweep"
    BY DEF Idle
  <2> HIDE DEF new
  <2> QED BY <2>1, <2>2
<1>2. ASSUME NEW s \in Sale, NEW i \in Item, NEW q \in Quantities,
             BeginEdit(r, s, i, q) PROVE Named
  <2> DEFINE new == [Idle EXCEPT !.step = "line", !.sale = s, !.item = i,
                                 !.quantity = q, !.existed = lines[s][i] > 0]
  <2>1. Start(r, "edit", new)
    BY <1>2 DEF BeginEdit
  <2>2. new.step = "line"
    BY DEF Idle
  <2> HIDE DEF new
  <2> QED BY <2>1, <2>2
<1>3. ASSUME NEW s \in Sale, NEW d \in 0 .. MaxDiscount, BeginDiscount(r, s, d) PROVE Named
  <2> DEFINE new == [Idle EXCEPT !.step = "discount", !.sale = s, !.due = d]
  <2>1. Start(r, "discount", new)
    BY <1>3 DEF BeginDiscount
  <2>2. new.step = "discount"
    BY DEF Idle
  <2> HIDE DEF new
  <2> QED BY <2>1, <2>2
<1>4. ASSUME NEW s \in Sale, BeginPay(r, s) PROVE Named
  <2> DEFINE new == [Idle EXCEPT !.step = "recalc", !.sale = s, !.paying = TRUE]
  <2>1. Start(r, "pay", new)
    BY <1>4 DEF BeginPay
  <2>2. new.step = "recalc"
    BY DEF Idle
  <2> HIDE DEF new
  <2> QED BY <2>1, <2>2
<1>5. ASSUME NEW s \in Sale, BeginResume(r, s) PROVE Named
  <2> DEFINE new == [Idle EXCEPT !.step = "sweep", !.keep = s]
  <2>1. Start(r, "resume", new)
    BY <1>5 DEF BeginResume
  <2>2. new.step = "sweep"
    BY DEF Idle
  <2> HIDE DEF new
  <2> QED BY <2>1, <2>2
<1>6. ASSUME NEW s \in Sale, NEW newDraft \in BOOLEAN, BeginPark(r, s, newDraft) PROVE Named
  <2> DEFINE new == [Idle EXCEPT !.step = IF lines[s] = NoLines THEN "delete" ELSE "park",
                                 !.sale = s,
                                 !.existed = newDraft /\ lines[s] # NoLines]
  <2>1. Start(r, "park", new)
    BY <1>6 DEF BeginPark
  <2>2. new.step \in {"delete", "park"}
    BY DEF Idle
  <2> HIDE DEF new
  <2> QED BY <2>1, <2>2
<1>7. ASSUME NEW s \in Sale, BeginRemove(r, s) PROVE Named
  <2> DEFINE new == [Idle EXCEPT !.step = "delete", !.sale = s]
  <2>1. Start(r, "delete", new)
    BY <1>7 DEF BeginRemove
  <2>2. new.step = "delete"
    BY DEF Idle
  <2> HIDE DEF new
  <2> QED BY <2>1, <2>2
<1>8. ASSUME NEW s \in Sale, BeginCancel(r, s) PROVE Named
  <2> DEFINE new == [Idle EXCEPT !.step = IF isDraft[s] THEN "delete" ELSE "cancel",
                                 !.sale = s, !.seen = lines[s]]
  <2>1. Start(r, "cancel", new)
    BY <1>8 DEF BeginCancel
  <2>2. new.step = IF isDraft[s] THEN "delete" ELSE "cancel"
    BY DEF Idle
  <2>3. new.sale = s /\ new.seen = lines[s]
    BY DEF Idle
  <2>4. Exists(s)
    BY <1>8 DEF BeginCancel
  <2> HIDE DEF new
  <2> QED BY <2>1, <2>2, <2>3, <2>4 DEF CancelReads
<1>9. ASSUME NEW s \in Sale, NEW i \in Item, NEW q \in Quantities \ {0},
             BeginReturn(r, s, i, q) PROVE Named
  <2> DEFINE new == [Idle EXCEPT !.step = "return", !.sale = s, !.item = i,
                                 !.quantity = q, !.seen = lines[s]]
  <2>1. Start(r, "return", new)
    BY <1>9 DEF BeginReturn
  <2>2. new.step = "return"
    BY DEF Idle
  <2> HIDE DEF new
  <2> QED BY <2>1, <2>2
<1>10. ASSUME NEW x \in Return, BeginCancelReturn(r, x) PROVE Named
  <2> DEFINE new == [Idle EXCEPT !.step = IF Exists(return[x].sale) THEN "unreturn" ELSE "orphan",
                                 !.target = x]
  <2>1. Start(r, "unreturn", new)
    BY <1>10 DEF BeginCancelReturn
  <2>2. new.step \in {"unreturn", "orphan"}
    BY DEF Idle
  <2> HIDE DEF new
  <2> QED BY <2>1, <2>2
<1>11. ASSUME NEW x \in Return, BeginRemoveReturn(r, x) PROVE Named
  <2> DEFINE new == [Idle EXCEPT !.step = "strike", !.target = x]
  <2>1. Start(r, "delete", new)
    BY <1>11 DEF BeginRemoveReturn
  <2>2. new.step = "strike"
    BY DEF Idle
  <2> HIDE DEF new
  <2> QED BY <2>1, <2>2
<1> QED BY <1>1, <1>2, <1>3, <1>4, <1>5, <1>6, <1>7, <1>8, <1>9, <1>10, <1>11 DEF BeginStep

LEMMA ChargeBegin ==
    ASSUME ChargeInv, SaleInv', NEW r \in Request, BeginStep(r) PROVE ChargeInv'
BY BeginNames, ChargeStart

\* Steps that leave lines, discount and totals alone.
LEMMA OtherSteps ==
    ASSUME SaleInv, NEW r \in Request,
           \/ Sweep(r) \/ Purge(r) \/ Demote(r) \/ Resume(r) \/ FindOpen(r)
           \/ \E s \in Sale : CreateSale(r, s)
           \/ \E parked \in {"draft", "parked"} : Park(r, parked)
           \/ Delete(r) \/ Reject(r)
           \/ Cancel(r) \/ CancelReturn(r) \/ CancelOrphan(r) \/ DeleteReturn(r)
           \/ \E x \in Return : MakeReturn(r, x)
    PROVE  /\ UNCHANGED <<lines, discount, payable, settled, posted, disturbed>>
           /\ \E new : /\ request' = [request EXCEPT ![r] = new]
                       /\ new.step \notin {"store", "pay", "cancel"}
<1>1. request[r] \in RequestState /\ Idle \in RequestState /\ Idle.step = "idle"
  BY IdleFacts DEF SaleInv, TypeOK
<1>2. CASE Sweep(r)
  <2>1. PICK doomed, demoted : request' = [request EXCEPT ![r] =
            [request[r] EXCEPT !.step = "purge", !.doomed = doomed, !.demoted = demoted]]
    BY <1>2 DEF Sweep
  <2>2. [request[r] EXCEPT !.step = "purge", !.doomed = doomed, !.demoted = demoted].step
           = "purge"
    BY <1>1 DEF RequestState
  <2> QED BY <1>2, <2>1, <2>2 DEF Sweep, saleVars, history
<1>3. CASE Purge(r)
  <2>1. [request[r] EXCEPT !.step = "demote", !.doomed = {}].step = "demote"
    BY <1>1 DEF RequestState
  <2> QED BY <1>3, <2>1 DEF Purge, history
<1>4. CASE Demote(r)
  <2> DEFINE step == IF request[r].keep = NoSale THEN "find" ELSE "resume"
  <2>1. request' = [request EXCEPT ![r] =
            [request[r] EXCEPT !.step = step, !.demoted = {}]]
    BY <1>4 DEF Demote
  <2>2. step \in {"find", "resume"}
    OBVIOUS
  <2> HIDE DEF step
  <2>3. [request[r] EXCEPT !.step = step, !.demoted = {}].step = step
    BY <1>1 DEF RequestState
  <2> QED BY <1>4, <2>1, <2>2, <2>3 DEF Demote, history
<1>5. CASE FindOpen(r)
  <2>1. PICK t : \/ request' = [request EXCEPT ![r] = [request[r] EXCEPT !.step = "create"]]
                 \/ request' = [request EXCEPT ![r] = Idle]
                 \/ request' = [request EXCEPT ![r] =
                                   [request[r] EXCEPT !.step = "drop", !.sale = t]]
    BY <1>5 DEF FindOpen
  <2>2. /\ [request[r] EXCEPT !.step = "create"].step = "create"
        /\ [request[r] EXCEPT !.step = "drop", !.sale = t].step = "drop"
    BY <1>1 DEF RequestState
  <2> QED BY <1>1, <1>5, <2>1, <2>2 DEF FindOpen, saleVars, history
<1>6. CASE \E parked \in {"draft", "parked"} : Park(r, parked)
  <2>1. [Idle EXCEPT !.step = "sweep"].step = "sweep"
    BY <1>1 DEF RequestState
  <2>2. request' = [request EXCEPT ![r] =
           IF request[r].existed THEN [Idle EXCEPT !.step = "sweep"] ELSE Idle]
    BY <1>6 DEF Park
  <2> QED BY <1>1, <1>6, <2>1, <2>2 DEF Park, history
<1>7. CASE Delete(r)
  <2>1. [Idle EXCEPT !.step = "create"].step = "create"
    BY <1>1 DEF RequestState
  <2>2. request' = [request EXCEPT ![r] =
           IF At(r, "drop") THEN [Idle EXCEPT !.step = "create"] ELSE Idle]
    BY <1>7 DEF Delete
  <2> QED BY <1>1, <1>7, <2>1, <2>2 DEF Delete, history
<1>8. CASE \/ Resume(r) \/ Reject(r) \/ Cancel(r) \/ CancelReturn(r) \/ CancelOrphan(r)
           \/ DeleteReturn(r)
           \/ \E s \in Sale : CreateSale(r, s)
           \/ \E x \in Return : MakeReturn(r, x)
  <2>1. request' = [request EXCEPT ![r] = Idle]
    BY <1>8 DEF Resume, Reject, Cancel, CancelReturn, CancelOrphan, DeleteReturn,
                CreateSale, MakeReturn, Done
  <2>2. UNCHANGED <<lines, discount, payable, settled, posted, disturbed>>
    BY <1>8 DEF Resume, Reject, Cancel, CancelReturn, CancelOrphan, DeleteReturn,
                CreateSale, MakeReturn, saleVars, history
  <2> QED BY <1>1, <2>1, <2>2
<1> QED BY <1>2, <1>3, <1>4, <1>5, <1>6, <1>7, <1>8

LEMMA ChargeDraft ==
    ASSUME ChargeInv, SaleInv', NEW r \in Request,
           \/ Sweep(r) \/ Purge(r) \/ Demote(r) \/ Resume(r) \/ FindOpen(r)
           \/ \E s \in Sale : CreateSale(r, s)
           \/ \E parked \in {"draft", "parked"} : Park(r, parked)
           \/ Delete(r) \/ Reject(r)
           \/ Cancel(r) \/ CancelReturn(r) \/ CancelOrphan(r) \/ DeleteReturn(r)
           \/ \E x \in Return : MakeReturn(r, x)
    PROVE  ChargeInv'
<1>1. SaleInv
  BY DEF ChargeInv
<1> QED BY <1>1, OtherSteps, ChargeQuiet

\* A write that changes what a payment in flight, or made, has charged marks the sale.
LEMMA ChargeWrite ==
    ASSUME ChargeInv, SaleInv', NEW r \in Request, NEW t \in Sale,
           NEW new, request' = [request EXCEPT ![r] = new],
           new.step \notin {"store", "pay"},
           UNCHANGED <<isDraft, payable, settled, posted>>,
           \A s \in Sale : disturbed[s] => disturbed'[s],
           \A s \in Sale : lines'[s] # lines[s] \/ discount'[s] # discount[s] =>
               s = t /\ (~isDraft[t] \/ PaymentInFlight(t) => disturbed'[t])
    PROVE  ChargeInv'
<1>1. ASSUME NEW s \in Sale PROVE Charged(s)'
  <2>1. Charged(s) /\ (posted[s] = 1 => ~isDraft[s])
    BY DEF ChargeInv, SaleInv, PostedIsNoDraft
  <2> QED BY <2>1 DEF Charged, TotalOf
<1>2. ASSUME NEW q \in Request PROVE DueHolds(request[q])'
  <2>1. request'[q] = IF q = r THEN new ELSE request[q]
    BY DEF ChargeInv, SaleInv, TypeOK
  <2>2. CASE q = r
    BY <2>1, <2>2 DEF DueHolds, Due
  <2>3. CASE q # r
    <3>1. request'[q] = request[q] /\ DueHolds(request[q])
      BY <2>1, <2>3 DEF ChargeInv
    <3>2. Due(request[q]) => request[q].sale \in Sale
      BY DEF ChargeInv, SaleInv, RequestHolds, SaleSteps, Due
    <3>3. Due(request[q]) => PaymentInFlight(request[q].sale)
      BY DEF Due, PaymentInFlight
    <3> QED BY <3>1, <3>2, <3>3 DEF DueHolds, Due, TotalOf
  <2> QED BY <2>2, <2>3
<1> QED BY <1>1, <1>2 DEF ChargeInv

LEMMA ChargeWrites ==
    ASSUME ChargeInv, SaleInv', NEW r \in Request, WriteLine(r) \/ WriteDiscount(r)
    PROVE  ChargeInv'
<1> DEFINE t == request[r].sale
           new == [Idle EXCEPT !.step = "recalc", !.sale = t]
<1>1. t \in Sale /\ TypeOK /\ SaleInv
  BY DEF ChargeInv, SaleInv, WriteLine, WriteDiscount, At, RequestHolds, SaleSteps
<1>2. new.step = "recalc"
  BY DEF Idle
<1>3. CASE WriteLine(r)
  <2>1. /\ lines' = [lines EXCEPT ![t][request[r].item] = request[r].quantity]
        /\ Disturb(t, lines' # lines) /\ request' = [request EXCEPT ![r] = new]
        /\ UNCHANGED <<isDraft, discount, payable, settled, posted>>
    BY <1>3 DEF WriteLine, history
  <2>2. /\ \A s \in Sale : disturbed[s] => disturbed'[s]
        /\ lines' # lines /\ (~isDraft[t] \/ PaymentInFlight(t)) => disturbed'[t]
    BY <1>1, <2>1, DisturbFacts
  <2>3. \A s \in Sale : lines'[s] # lines[s] => s = t /\ lines' # lines
    BY <1>1, <2>1 DEF TypeOK
  <2> HIDE DEF new
  <2> QED BY <1>1, <1>2, <2>1, <2>2, <2>3, ChargeWrite
<1>4. CASE WriteDiscount(r)
  <2>1. /\ discount' = [discount EXCEPT ![t] = request[r].due]
        /\ Disturb(t, discount' # discount) /\ request' = [request EXCEPT ![r] = new]
        /\ UNCHANGED <<isDraft, lines, payable, settled, posted>>
    BY <1>4 DEF WriteDiscount, history
  <2>2. /\ \A s \in Sale : disturbed[s] => disturbed'[s]
        /\ discount' # discount /\ (~isDraft[t] \/ PaymentInFlight(t)) => disturbed'[t]
    BY <1>1, <2>1, DisturbFacts
  <2>3. \A s \in Sale : discount'[s] # discount[s] => s = t /\ discount' # discount
    BY <1>1, <2>1 DEF TypeOK
  <2> HIDE DEF new
  <2> QED BY <1>1, <1>2, <2>1, <2>2, <2>3, ChargeWrite
<1> QED BY <1>3, <1>4

LEMMA ChargeTotals ==
    ASSUME ChargeInv, SaleInv', NEW r \in Request, ReadTotals(r) PROVE ChargeInv'
<1> DEFINE t == request[r].sale
           new == [request[r] EXCEPT !.step = "store", !.due = TotalOf(t)]
<1>1. /\ request' = [request EXCEPT ![r] = new]
      /\ UNCHANGED <<lines, discount, payable, settled, posted, disturbed>>
  BY DEF ReadTotals, saleVars, history
<1>2. request[r] \in RequestState /\ request \in [Request -> RequestState]
  BY DEF ChargeInv, SaleInv, TypeOK
<1>3. /\ new.step = "store" /\ new.due = TotalOf(t) /\ new.sale = t
      /\ new.paying = request[r].paying
  BY <1>2 DEF RequestState
<1> HIDE DEF new
<1>4. ASSUME NEW s PROVE TotalOf(s)' = TotalOf(s)
  BY <1>1 DEF TotalOf, Payable
<1>5. ASSUME NEW s \in Sale PROVE Charged(s)'
  BY <1>1, <1>4 DEF ChargeInv, Charged
<1>6. ASSUME NEW q \in Request PROVE DueHolds(request[q])'
  <2>1. request'[q] = IF q = r THEN new ELSE request[q]
    BY <1>1, <1>2
  <2>2. lines' = lines /\ discount' = discount
    BY <1>1
  <2>3. CASE q = r
    <3>1. request'[q].step # "pay"
      BY <1>3, <2>1, <2>3
    <3>2. request'[q].due = TotalOf(request'[q].sale)
      BY <1>3, <2>1, <2>3
    <3> QED BY <1>1, <2>2, <3>1, <3>2 DEF DueHolds, Due, TotalOf
  <2>4. CASE q # r
    BY <1>1, <2>1, <2>2, <2>4 DEF ChargeInv, DueHolds, Due, TotalOf
  <2> QED BY <2>3, <2>4
<1> QED BY <1>5, <1>6 DEF ChargeInv

\* A payment stores the total it holds; any other request that changes it marks.
LEMMA ChargeStore ==
    ASSUME ChargeInv, SaleInv', NEW r \in Request, StoreTotals(r) PROVE ChargeInv'
<1> DEFINE t == request[r].sale
           next == [request[r] EXCEPT !.step = "pay"]
           new == IF request[r].paying THEN next ELSE Idle
<1>1. /\ request[r].step = "store"
      /\ payable' = [payable EXCEPT ![t] = request[r].due]
      /\ Disturb(t, payable' # payable /\ ~request[r].paying)
      /\ request' = [request EXCEPT ![r] = new]
      /\ UNCHANGED <<isDraft, lines, discount, settled, posted>>
  BY DEF StoreTotals, At, history
<1>2. /\ t \in Sale /\ SaleInv /\ TypeOK /\ request[r] \in RequestState
  BY <1>1 DEF ChargeInv, SaleInv, TypeOK, RequestHolds, SaleSteps
<1>3. /\ next.step = "pay" /\ next.sale = t /\ next.due = request[r].due
      /\ next.paying = request[r].paying
  BY <1>2 DEF RequestState
<1> HIDE DEF next
<1>4. /\ \A s \in Sale : disturbed[s] => disturbed'[s]
      /\ payable' # payable /\ ~request[r].paying
            /\ (~isDraft[t] \/ PaymentInFlight(t)) => disturbed'[t]
  <2>1. (payable' # payable /\ ~request[r].paying) \in BOOLEAN
    OBVIOUS
  <2> QED BY <1>1, <1>2, <2>1, DisturbFacts
<1>5. payable'[t] = request[r].due /\ \A s \in Sale : s # t => payable'[s] = payable[s]
  BY <1>1, <1>2 DEF TypeOK
<1>6. request[r].paying /\ ~disturbed[t] => request[r].due = TotalOf(t)
  BY <1>1 DEF ChargeInv, DueHolds, Due
<1>7. ASSUME NEW s \in Sale PROVE Charged(s)'
  <2>1. TotalOf(s)' = TotalOf(s)
    BY <1>1 DEF TotalOf, Payable
  <2>2. Charged(s) /\ (posted[s] = 1 => ~isDraft[s])
    BY DEF ChargeInv, SaleInv, PostedIsNoDraft
  <2>3. CASE s # t \/ payable' = payable
    BY <1>1, <1>4, <1>5, <2>1, <2>2, <2>3 DEF Charged
  <2>4. CASE s = t /\ payable' # payable
    BY <1>1, <1>4, <1>5, <1>6, <2>1, <2>2, <2>4 DEF Charged
  <2> QED BY <2>3, <2>4
<1>8. ASSUME NEW q \in Request PROVE DueHolds(request[q])'
  <2>1. request'[q] = IF q = r THEN new ELSE request[q]
    BY <1>1, <1>2 DEF TypeOK
  <2>2. lines' = lines /\ discount' = discount
    BY <1>1
  <2>3. CASE q = r /\ request[r].paying
    <3>1. request'[q] = next
      BY <2>1, <2>3
    <3> QED BY <1>2, <1>3, <1>4, <1>5, <1>6, <2>2, <2>3, <3>1 DEF DueHolds, Due, TotalOf
  <2>4. CASE q = r /\ ~request[r].paying
    <3>1. request'[q] = Idle
      BY <2>1, <2>4
    <3> QED BY <3>1, IdleFacts DEF DueHolds, Due
  <2>5. CASE q # r
    <3>1. request'[q] = request[q] /\ DueHolds(request[q])
      BY <2>1, <2>5 DEF ChargeInv
    <3>2. Due(request[q]) => request[q].sale \in Sale /\ PaymentInFlight(request[q].sale)
      BY DEF ChargeInv, SaleInv, RequestHolds, SaleSteps, Due, PaymentInFlight
    <3>3. CASE request[q].sale # t \/ payable' = payable
      BY <1>4, <1>5, <2>2, <3>1, <3>2, <3>3 DEF DueHolds, Due, TotalOf
    <3>4. CASE request[q].sale = t /\ payable' # payable
      BY <1>2, <1>4, <1>5, <1>6, <2>2, <3>1, <3>2, <3>4 DEF DueHolds, Due, TotalOf
    <3> QED BY <3>3, <3>4
  <2> QED BY <2>3, <2>4, <2>5
<1> QED BY <1>7, <1>8 DEF ChargeInv

LEMMA ChargePay ==
    ASSUME ChargeInv, SaleInv', NEW r \in Request, Pay(r) PROVE ChargeInv'
<1> DEFINE t == request[r].sale
<1>1. /\ request[r].step = "pay" /\ isDraft[t]
      /\ settled' = [settled EXCEPT ![t] = request[r].due]
      /\ posted' = [posted EXCEPT ![t] = posted[t] + 1]
      /\ request' = [request EXCEPT ![r] = Idle]
      /\ UNCHANGED <<lines, discount, payable, disturbed>>
  BY DEF Pay, PayClaimed, At, Done
<1>2. t \in Sale /\ SaleInv /\ TypeOK
  BY <1>1 DEF ChargeInv, SaleInv, RequestHolds, SaleSteps
<1>3. /\ settled'[t] = request[r].due
      /\ \A s \in Sale : s # t => settled'[s] = settled[s] /\ posted'[s] = posted[s]
  BY <1>1, <1>2 DEF TypeOK
<1>4. ~disturbed[t] => request[r].due = TotalOf(t) /\ payable[t] = request[r].due
  BY <1>1 DEF ChargeInv, DueHolds, Due
<1>5. ASSUME NEW s \in Sale PROVE Charged(s)'
  <2>1. TotalOf(s)' = TotalOf(s)
    BY <1>1 DEF TotalOf, Payable
  <2>2. CASE s = t
    BY <1>1, <1>3, <1>4, <2>1, <2>2 DEF Charged
  <2>3. CASE s # t
    BY <1>1, <1>3, <2>1, <2>3 DEF ChargeInv, Charged
  <2> QED BY <2>2, <2>3
<1>6. ASSUME NEW q \in Request PROVE DueHolds(request[q])'
  <2>1. request'[q] = IF q = r THEN Idle ELSE request[q]
    BY <1>1, <1>2 DEF TypeOK
  <2>2. lines' = lines /\ discount' = discount
    BY <1>1
  <2> QED BY <1>1, <2>1, <2>2, IdleFacts DEF ChargeInv, DueHolds, Due, TotalOf
<1> QED BY <1>5, <1>6 DEF ChargeInv

LEMMA ChargeStep == ChargeInv /\ [Next]_vars => ChargeInv'
<1> SUFFICES ASSUME ChargeInv, [Next]_vars PROVE ChargeInv'
  OBVIOUS
<1>1. SaleInv'
  BY SaleStep DEF ChargeInv
<1>2. CASE UNCHANGED vars
  <2>1. UNCHANGED <<lines, discount, payable, settled, posted, disturbed, request>>
    BY <1>2 DEF vars, saleVars, history
  <2>2. \A s \in Sale : Charged(s)'
    BY <2>1 DEF ChargeInv, Charged, TotalOf, Payable
  <2>3. \A q \in Request : DueHolds(request[q])'
    BY <2>1 DEF ChargeInv, DueHolds, Due, TotalOf, Payable
  <2> QED BY <1>1, <2>2, <2>3 DEF ChargeInv
<1>3. ASSUME NEW r \in Request, BeginStep(r) \/ DraftStep(r) \/ PostingStep(r)
      PROVE  ChargeInv'
  BY <1>1, <1>3, ChargeBegin, ChargeDraft, ChargeWrites, ChargeTotals, ChargeStore, ChargePay
  DEF DraftStep, PostingStep
<1> QED BY <1>2, <1>3 DEF Next

\* What a payment took in money, debt and loyalty is the total of what it wrote off
\* less the discount, and what the sale shows, unless an unchecked write touched the
\* sale during the payment or after it.
THEOREM SalesSettled == Spec => []SettledUnlessDisturbed
<1>1. Init => ChargeInv
  <2> SUFFICES ASSUME Init PROVE ChargeInv
    OBVIOUS
  <2>1. SaleInv
    BY SaleBegins
  <2>2. \A s \in Sale : Charged(s)
    BY DEF Init, Charged
  <2>3. \A q \in Request : DueHolds(request[q])
    BY IdleFacts DEF Init, DueHolds, Due
  <2> QED BY <2>1, <2>2, <2>3 DEF ChargeInv
<1>2. ChargeInv => SettledUnlessDisturbed
  <2> SUFFICES ASSUME ChargeInv, NEW s \in Sale, posted[s] > 0, ~disturbed[s]
               PROVE  settled[s] = payable[s] /\ settled[s] = Payable(taken[s], discount[s])
    BY DEF SettledUnlessDisturbed
  <2>1. posted[s] = 1
    BY DEF ChargeInv, SaleInv, PostedIsNoDraft
  <2>2. lines[s] = taken[s]
    BY <2>1 DEF ChargeInv, SaleInv, LinesKept
  <2>3. settled[s] = payable[s] /\ settled[s] = TotalOf(s)
    BY <2>1 DEF ChargeInv, Charged
  <2> QED BY <2>2, <2>3 DEF TotalOf
<1> QED BY <1>1, <1>2, ChargeStep, PTL DEF Spec

-----------------------------------------------------------------------------
(* Cancels, and the sale as a stock document.  Both are of DocumentsSpec:   *)
(* a cancelled sale that is opened again by its id can be cancelled again.  *)

Undeleted == {"open", "draft", "parked", "paid", "partially_returned", "returned"}

\* What a status says of the cancel.
CancelHolds(s) ==
    /\ reversed[s] \in {0, 1}
    /\ reversed[s] = 0 => restored[s] = NoLines
    /\ status[s] \notin {"cancelled", "deleted"} => reversed[s] = 0
    /\ status[s] = "cancelled" =>
          /\ posted[s] = 1 /\ reversed[s] = 1
          /\ ~disturbed[s] => restored[s] = taken[s]
    /\ isDraft[s] => Exists(s)

\* A cancel under way is of a posted sale and holds the lines that were taken.
CancelRead(q) ==
    q.step = "cancel" =>
        /\ q.sale \in Sale /\ posted[q.sale] = 1
        /\ ~disturbed[q.sale] => q.seen = taken[q.sale]

CancelInv ==
    /\ SaleInv
    /\ \A s \in Sale : CancelHolds(s)
    /\ \A r \in Request : CancelRead(request[r])

\* What a step that posts and reverses nothing does to the row of a sale: nothing,
\* delete it, write a status of a sale that is not cancelled, or create it.
RowMoves(s) ==
    \/ status'[s] = status[s] /\ isDraft'[s] = isDraft[s]
    \/ status'[s] = "deleted" /\ ~isDraft'[s]
    \/ /\ Exists(s) /\ status[s] # "cancelled"
       /\ status'[s] \in Undeleted /\ isDraft'[s] = isDraft[s]
    \/ status[s] = "none" /\ status'[s] = "open" /\ isDraft'[s]

Quiet ==
    /\ UNCHANGED <<taken, restored, posted, reversed>>
    /\ \A s \in Sale : RowMoves(s) /\ (disturbed[s] => disturbed'[s])

LEMMA RowsStand ==
    ASSUME UNCHANGED <<status, isDraft>> PROVE \A s \in Sale : RowMoves(s)
BY DEF RowMoves

\* The statements of drafts: each writes the rows it names and posts nothing.
LEMMA DraftIsQuiet ==
    ASSUME SaleInv, ~Reopens, NEW r \in Request,
           \/ Sweep(r) \/ Purge(r) \/ Demote(r) \/ Resume(r) \/ FindOpen(r)
           \/ \E s \in Sale : CreateSale(r, s)
           \/ \E parked \in {"draft", "parked"} : Park(r, parked)
           \/ Delete(r) \/ Reject(r)
    PROVE  Quiet
<1>1. TypeOK
  BY DEF SaleInv
<1>2. ASSUME UNCHANGED <<history, disturbed>>, \A s \in Sale : RowMoves(s) PROVE Quiet
  BY <1>2 DEF Quiet, history
<1>3. CASE Sweep(r) \/ FindOpen(r) \/ Reject(r)
  <2>1. UNCHANGED <<status, isDraft, history, disturbed>>
    BY <1>3 DEF Sweep, FindOpen, Reject, saleVars
  <2> QED BY <1>2, <2>1, RowsStand
<1>4. CASE Purge(r)
  <2>1. /\ status' = [s \in Sale |-> IF s \in request[r].doomed THEN "deleted" ELSE status[s]]
        /\ isDraft' = [s \in Sale |-> isDraft[s] /\ s \notin request[r].doomed]
        /\ UNCHANGED <<history, disturbed>>
    BY <1>4 DEF Purge
  <2>2. ASSUME NEW s \in Sale PROVE RowMoves(s)
    <3>1. isDraft[s] \in BOOLEAN
      BY <1>1 DEF TypeOK
    <3>2. CASE s \in request[r].doomed
      BY <2>1, <3>2 DEF RowMoves
    <3>3. CASE s \notin request[r].doomed
      BY <2>1, <3>1, <3>3 DEF RowMoves
    <3> QED BY <3>2, <3>3
  <2> QED BY <1>2, <2>1, <2>2
<1>5. CASE Demote(r)
  <2>1. /\ status' = [s \in Sale |->
             IF s \in request[r].demoted /\ Exists(s) THEN "draft" ELSE status[s]]
        /\ UNCHANGED <<isDraft, history, disturbed>>
    BY <1>5 DEF Demote
  <2>2. ASSUME NEW s \in Sale PROVE RowMoves(s)
    <3>1. CASE s \in request[r].demoted /\ Exists(s)
      <4>1. status'[s] = "draft"
        BY <2>1, <3>1
      <4>2. status[s] # "cancelled"
        BY <4>1 DEF Reopens
      <4> QED BY <2>1, <3>1, <4>1, <4>2 DEF RowMoves, Undeleted
    <3>2. CASE ~(s \in request[r].demoted /\ Exists(s))
      BY <2>1, <3>2 DEF RowMoves
    <3> QED BY <3>1, <3>2
  <2> QED BY <1>2, <2>1, <2>2
<1>6. ASSUME NEW t, NEW new \in {"open", "draft", "parked"}, Exists(t),
             status' = [status EXCEPT ![t] = new],
             UNCHANGED <<isDraft, history, disturbed>>
      PROVE  Quiet
  <2>1. ASSUME NEW s \in Sale PROVE RowMoves(s)
    <3>1. CASE s = t
      <4>1. status'[s] = new
        BY <1>1, <1>6, <3>1 DEF TypeOK
      <4>2. status[s] # "cancelled"
        BY <4>1 DEF Reopens
      <4> QED BY <1>6, <3>1, <4>1, <4>2 DEF RowMoves, Undeleted
    <3>2. CASE s # t
      BY <1>1, <1>6, <3>2 DEF RowMoves, TypeOK
    <3> QED BY <3>1, <3>2
  <2> QED BY <1>2, <1>6, <2>1
<1>7. CASE Resume(r)
  BY <1>6, <1>7 DEF Resume
<1>8. CASE \E parked \in {"draft", "parked"} : Park(r, parked)
  BY <1>6, <1>8 DEF Park
<1>9. CASE \E s \in Sale : CreateSale(r, s)
  <2>1. PICK t \in Sale : CreateSale(r, t)
    BY <1>9
  <2>2. \A s \in Sale : RowMoves(s)
    BY <1>1, <2>1 DEF CreateSale, RowMoves, TypeOK
  <2> QED BY <1>2, <2>1, <2>2 DEF CreateSale
<1>10. CASE Delete(r)
  <2>1. \A s \in Sale : RowMoves(s)
    BY <1>1, <1>10 DEF Delete, RowMoves, TypeOK
  <2> QED BY <1>2, <1>10, <2>1 DEF Delete
<1> QED BY <1>3, <1>4, <1>5, <1>7, <1>8, <1>9, <1>10

\* Reads and unchecked writes leave the status alone.
LEMMA WriteIsQuiet ==
    ASSUME SaleInv, NEW r \in Request,
           WriteLine(r) \/ WriteDiscount(r) \/ ReadTotals(r) \/ StoreTotals(r)
    PROVE  Quiet
<1>1. request[r].sale \in Sale
  BY DEF SaleInv, RequestHolds, SaleSteps, WriteLine, WriteDiscount, ReadTotals,
         StoreTotals, At
<1>2. UNCHANGED <<status, isDraft, taken, restored, posted, reversed>>
  BY DEF WriteLine, WriteDiscount, ReadTotals, StoreTotals, saleVars, history
<1>3. \A s \in Sale : disturbed[s] => disturbed'[s]
  <2>1. PICK changes \in BOOLEAN :
           Disturb(request[r].sale, changes) \/ UNCHANGED disturbed
    BY DEF WriteLine, WriteDiscount, ReadTotals, StoreTotals
  <2> QED BY <1>1, <2>1, DisturbFacts
<1> QED BY <1>2, <1>3, RowsStand DEF Quiet

\* A return, its cancel and its removal only write what the returns say of a live sale.
LEMMA ReturnIsQuiet ==
    ASSUME SaleInv, NEW r \in Request,
           CancelReturn(r) \/ CancelOrphan(r) \/ DeleteReturn(r) \/ \E x \in Return : MakeReturn(r, x)
    PROVE  Quiet
<1>1. TypeOK
  BY DEF SaleInv
<1>2. ASSUME NEW t \in Sale, RefreshStatus(t), status[t] # "cancelled",
             UNCHANGED <<isDraft, history, disturbed>>
      PROVE  Quiet
  <2>1. ASSUME NEW s \in Sale PROVE RowMoves(s)
    <3>1. CASE ~Exists(t)
      BY <1>2, <3>1 DEF RefreshStatus, RowMoves
    <3>2. CASE Exists(t)
      <4> DEFINE new == Refreshed(t, return')
      <4>1. status' = [status EXCEPT ![t] = new]
        BY <1>2, <3>2 DEF RefreshStatus
      <4>2. new \in {"paid", "returned", "partially_returned", status[t]}
        BY DEF Refreshed
      <4>3. status[t] \in Undeleted
        BY <1>1, <1>2, <3>2 DEF TypeOK, Status, Exists, Undeleted
      <4>4. new \in Undeleted
        BY <4>2, <4>3 DEF Undeleted
      <4> HIDE DEF new
      <4> QED BY <1>1, <1>2, <3>2, <4>1, <4>4 DEF RowMoves, TypeOK
    <3> QED BY <3>1, <3>2
  <2> QED BY <1>2, <2>1 DEF Quiet, history
<1>3. CASE CancelReturn(r)
  <2> DEFINE x == request[r].target
             t == return[x].sale
  <2>1. x \in Return /\ return[x].state = "live"
    BY <1>1, <1>3 DEF CancelReturn, TypeOK, RequestState
  <2>2. t \in Sale
    BY <2>1 DEF SaleInv, ReturnHolds
  <2>3. x \in LiveReturns(t)
    BY <2>1 DEF LiveReturns
  <2>4. status[t] # "cancelled"
    <3>1. PICK i \in Item : TRUE
      BY SalesAssumption
    <3> QED BY <2>2, <2>3, <3>1 DEF SaleInv
  <2>5. RefreshStatus(t) /\ UNCHANGED <<isDraft, history, disturbed>>
    BY <1>3 DEF CancelReturn
  <2> HIDE DEF t
  <2> QED BY <1>2, <2>2, <2>4, <2>5
<1>4. CASE CancelOrphan(r) \/ DeleteReturn(r)
  <2>1. UNCHANGED <<status, isDraft, history, disturbed>>
    BY <1>4 DEF CancelOrphan, DeleteReturn, saleVars
  <2> QED BY <2>1, RowsStand DEF Quiet, history
<1>5. CASE \E x \in Return : MakeReturn(r, x)
  <2> DEFINE t == request[r].sale
  <2>1. t \in Sale
    BY <1>5 DEF SaleInv, RequestHolds, SaleSteps, MakeReturn, At
  <2>2. RefreshStatus(t) /\ status[t] # "cancelled" /\ UNCHANGED <<isDraft, history, disturbed>>
    BY <1>5 DEF MakeReturn, ReturnClaimed
  <2> HIDE DEF t
  <2> QED BY <1>2, <2>1, <2>2
<1> QED BY <1>3, <1>4, <1>5

\* What a step does to the requests: at most one goes on, and if it goes on to a
\* cancel it has read the lines of a sale that is no draft.
ReadsOn ==
    \A q \in Request :
        request'[q] = request[q] \/ (request'[q].step = "cancel" => CancelReads(request'[q]))

\* A step that is quiet keeps what the statuses and the cancels under way tell.
LEMMA QuietKeepsCancels ==
    ASSUME CancelInv, SaleInv', Quiet, ReadsOn PROVE CancelInv'
<1>1. ASSUME NEW s \in Sale PROVE CancelHolds(s)'
  <2>1. CancelHolds(s) /\ RowMoves(s)
    BY DEF CancelInv, Quiet
  <2> QED BY <2>1 DEF CancelHolds, RowMoves, Quiet, Exists, Undeleted
<1>2. ASSUME NEW q \in Request PROVE CancelRead(request[q])'
  <2>1. CASE request'[q] = request[q]
    BY <2>1 DEF CancelInv, CancelRead, Quiet
  <2>2. CASE request'[q].step = "cancel" => CancelReads(request'[q])
    <3> SUFFICES ASSUME request'[q].step = "cancel" PROVE CancelRead(request[q])'
      BY DEF CancelRead
    <3> DEFINE t == request'[q].sale
    <3>1. t \in Sale /\ request'[q].seen = lines[t] /\ Exists(t) /\ ~isDraft[t]
      BY <2>2 DEF CancelReads
    <3>2. posted[t] = 1
      BY <3>1 DEF CancelInv, SaleInv, PostedIsNoDraft
    <3>3. ~disturbed[t] => lines[t] = taken[t]
      BY <3>1, <3>2 DEF CancelInv, SaleInv, LinesKept
    <3> QED BY <3>1, <3>2, <3>3 DEF CancelRead, Quiet
  <2> QED BY <2>1, <2>2 DEF ReadsOn
<1> QED BY <1>1, <1>2 DEF CancelInv

\* What a payment does to the documents: a draft is posted, and no cancel was
\* under way for it.
PaySteps(t) ==
    /\ t \in Sale /\ isDraft[t] /\ Exists(t) /\ status[t] # "cancelled"
    /\ posted[t] = 0 /\ reversed[t] = 0
    /\ status' = [status EXCEPT ![t] = "paid"]
    /\ isDraft' = [isDraft EXCEPT ![t] = FALSE]
    /\ taken' = [taken EXCEPT ![t] = lines[t]]
    /\ posted' = [posted EXCEPT ![t] = posted[t] + 1]
    /\ UNCHANGED <<restored, reversed, disturbed>>

LEMMA PayFacts ==
    ASSUME CancelInv, NEW r \in Request, Pay(r)
    PROVE  PaySteps(request[r].sale) /\ request' = [request EXCEPT ![r] = Idle]
<1> DEFINE t == request[r].sale
<1>1. t \in Sale /\ isDraft[t]
  BY DEF CancelInv, SaleInv, RequestHolds, SaleSteps, Pay, At, PayClaimed
<1>2. CancelHolds(t) /\ PostedIsNoDraft(t)
  BY <1>1 DEF CancelInv, SaleInv
<1>3. Exists(t) /\ status[t] # "cancelled" /\ posted[t] = 0 /\ reversed[t] = 0
  BY <1>1, <1>2 DEF CancelHolds, PostedIsNoDraft, Exists
<1> QED BY <1>1, <1>3 DEF Pay, Done, PaySteps

LEMMA PayKeepsCancels ==
    ASSUME CancelInv, SaleInv', NEW r \in Request, Pay(r) PROVE CancelInv'
<1> DEFINE t == request[r].sale
<1>1. PaySteps(t) /\ request' = [request EXCEPT ![r] = Idle]
  BY PayFacts
<1>2. TypeOK
  BY DEF CancelInv, SaleInv
<1>3. ASSUME NEW s \in Sale PROVE CancelHolds(s)'
  <2>1. CancelHolds(s)
    BY DEF CancelInv
  <2>2. CASE s = t
    BY <1>1, <1>2, <2>1, <2>2 DEF PaySteps, CancelHolds, TypeOK, Exists
  <2>3. CASE s # t
    <3>1. /\ status'[s] = status[s] /\ isDraft'[s] = isDraft[s] /\ taken'[s] = taken[s]
          /\ posted'[s] = posted[s]
      BY <1>1, <1>2, <2>3 DEF PaySteps, TypeOK
    <3> QED BY <1>1, <2>1, <3>1 DEF PaySteps, CancelHolds, Exists
  <2> QED BY <2>2, <2>3
<1>4. ASSUME NEW q \in Request PROVE CancelRead(request[q])'
  <2>1. request'[q] = IF q = r THEN Idle ELSE request[q]
    BY <1>1, <1>2 DEF TypeOK
  <2>2. CASE q = r
    BY <2>1, <2>2, IdleFacts DEF CancelRead
  <2>3. CASE q # r
    <3>1. CancelRead(request[q])
      BY DEF CancelInv
    <3>2. request[q].step = "cancel" => request[q].sale # t
      BY <1>1, <3>1 DEF CancelRead, PaySteps
    <3> QED BY <1>1, <1>2, <2>1, <2>3, <3>1, <3>2 DEF CancelRead, PaySteps, TypeOK
  <2> QED BY <2>2, <2>3
<1> QED BY <1>3, <1>4 DEF CancelInv

\* What a cancel does: a posted sale that was never reversed gets back what it took.
CancelSteps(t) ==
    /\ t \in Sale /\ ~isDraft[t] /\ Exists(t) /\ status[t] # "cancelled"
    /\ posted[t] = 1 /\ reversed[t] = 0
    /\ status' = [status EXCEPT ![t] = "cancelled"]
    /\ reversed' = [reversed EXCEPT ![t] = reversed[t] + 1]
    /\ ~disturbed[t] => restored'[t] = taken[t]
    /\ \A s \in Sale : s # t => restored'[s] = restored[s]
    /\ UNCHANGED <<isDraft, taken, posted, disturbed>>

LEMMA CancelFacts ==
    ASSUME CancelInv, NEW r \in Request, Cancel(r)
    PROVE  CancelSteps(request[r].sale) /\ request' = [request EXCEPT ![r] = Idle]
<1> DEFINE t == request[r].sale
           back == [i \in Item |-> restored[t][i] + request[r].seen[i]]
<1>1. /\ request[r].step = "cancel" /\ Exists(t) /\ ~isDraft[t] /\ status[t] # "cancelled"
      /\ status' = [status EXCEPT ![t] = "cancelled"]
      /\ restored' = [restored EXCEPT ![t] = back]
      /\ reversed' = [reversed EXCEPT ![t] = reversed[t] + 1]
      /\ request' = [request EXCEPT ![r] = Idle]
      /\ UNCHANGED <<isDraft, taken, posted, disturbed>>
  BY DEF Cancel, CancelClaimed, At, Done
<1>2. TypeOK /\ request[r] \in RequestState
  BY DEF CancelInv, SaleInv, TypeOK
<1>3. /\ t \in Sale /\ posted[t] = 1
      /\ ~disturbed[t] => request[r].seen = taken[t]
  BY <1>1 DEF CancelInv, CancelRead
<1>4. reversed[t] = 0 /\ restored[t] = NoLines
  BY <1>1, <1>3 DEF CancelInv, CancelHolds, Exists
<1>5. back = request[r].seen
  <2>1. request[r].seen \in [Item -> Nat]
    BY <1>2, LineUnits DEF RequestState, Units
  <2>2. back = [i \in Item |-> request[r].seen[i]]
    BY <1>4, <2>1 DEF NoLines
  <2> QED BY <2>1, <2>2
<1> HIDE DEF back
<1>6. restored'[t] = request[r].seen /\ \A s \in Sale : s # t => restored'[s] = restored[s]
  BY <1>1, <1>2, <1>3, <1>5 DEF TypeOK
<1> QED BY <1>1, <1>3, <1>4, <1>6 DEF CancelSteps

LEMMA CancelKeepsCancels ==
    ASSUME CancelInv, SaleInv', NEW r \in Request, Cancel(r) PROVE CancelInv'
<1> DEFINE t == request[r].sale
<1>1. CancelSteps(t) /\ request' = [request EXCEPT ![r] = Idle]
  BY CancelFacts
<1>2. TypeOK
  BY DEF CancelInv, SaleInv
<1>3. ASSUME NEW s \in Sale PROVE CancelHolds(s)'
  <2>1. CancelHolds(s)
    BY DEF CancelInv
  <2>2. CASE s = t
    BY <1>1, <1>2, <2>1, <2>2 DEF CancelSteps, CancelHolds, TypeOK, Exists
  <2>3. CASE s # t
    <3>1. status'[s] = status[s] /\ reversed'[s] = reversed[s] /\ restored'[s] = restored[s]
      BY <1>1, <1>2, <2>3 DEF CancelSteps, TypeOK
    <3> QED BY <1>1, <2>1, <3>1 DEF CancelSteps, CancelHolds, Exists
  <2> QED BY <2>2, <2>3
<1>4. ASSUME NEW q \in Request PROVE CancelRead(request[q])'
  <2>1. request'[q] = IF q = r THEN Idle ELSE request[q]
    BY <1>1, <1>2 DEF TypeOK
  <2> QED BY <1>1, <2>1, IdleFacts DEF CancelInv, CancelRead, CancelSteps
<1> QED BY <1>3, <1>4 DEF CancelInv

\* Every step is a payment, a cancel, or quiet.
LEMMA StepKinds ==
    ASSUME CancelInv, ~Reopens, NEW r \in Request,
           BeginStep(r) \/ DraftStep(r) \/ PostingStep(r)
    PROVE  Pay(r) \/ Cancel(r) \/ (Quiet /\ ReadsOn)
<1>1. SaleInv /\ request \in [Request -> RequestState]
  BY DEF CancelInv, SaleInv, TypeOK
<1>2. ASSUME NEW new, request' = [request EXCEPT ![r] = new],
             new.step = "cancel" => CancelReads(new)
      PROVE  ReadsOn
  <2>1. \A q \in Request : request'[q] = IF q = r THEN new ELSE request[q]
    BY <1>1, <1>2
  <2> QED BY <1>2, <2>1 DEF ReadsOn
<1>3. CASE BeginStep(r)
  <2>1. PICK kind, new : Start(r, kind, new) /\ (new.step = "cancel" => CancelReads(new))
    BY <1>3, BeginNames
  <2>2. /\ request' = [request EXCEPT ![r] = new]
        /\ UNCHANGED <<status, isDraft, taken, restored, posted, reversed, disturbed>>
    BY <2>1 DEF Start, saleVars, history
  <2>3. Quiet
    BY <2>2, RowsStand DEF Quiet
  <2> QED BY <1>2, <2>1, <2>2, <2>3
<1>4. CASE \/ Sweep(r) \/ Purge(r) \/ Demote(r) \/ Resume(r) \/ FindOpen(r)
           \/ \E s \in Sale : CreateSale(r, s)
           \/ \E parked \in {"draft", "parked"} : Park(r, parked)
           \/ Delete(r) \/ Reject(r)
  <2>1. PICK new : request' = [request EXCEPT ![r] = new] /\ new.step # "cancel"
    BY <1>1, <1>4, OtherSteps
  <2> QED BY <1>1, <1>2, <1>4, <2>1, DraftIsQuiet
<1>5. CASE CancelReturn(r) \/ CancelOrphan(r) \/ DeleteReturn(r) \/ \E x \in Return : MakeReturn(r, x)
  <2>1. PICK new : request' = [request EXCEPT ![r] = new] /\ new.step # "cancel"
    BY <1>1, <1>5, OtherSteps
  <2> QED BY <1>1, <1>2, <1>5, <2>1, ReturnIsQuiet
<1>6. CASE WriteLine(r) \/ WriteDiscount(r) \/ ReadTotals(r) \/ StoreTotals(r)
  <2>1. PICK new : request' = [request EXCEPT ![r] = new] /\ new.step # "cancel"
    <3>1. \A step \in Steps : [request[r] EXCEPT !.step = step].step = step
      BY <1>1, RequestStepType
    <3>2. CASE WriteLine(r) \/ WriteDiscount(r)
      <4>1. [Idle EXCEPT !.step = "recalc", !.sale = request[r].sale].step = "recalc"
        BY DEF Idle
      <4> QED BY <3>2, <4>1 DEF WriteLine, WriteDiscount
    <3>3. CASE ReadTotals(r)
      <4> DEFINE new == [request[r] EXCEPT !.step = "store",
                                           !.due = TotalOf(request[r].sale)]
      <4>1. request[r] \in RequestState
        BY <1>1
      <4>2. new.step = "store"
        BY <4>1 DEF RequestState
      <4>3. request' = [request EXCEPT ![r] = new]
        BY <3>3 DEF ReadTotals
      <4> HIDE DEF new
      <4> QED BY <4>2, <4>3
    <3>4. CASE StoreTotals(r)
      <4> DEFINE next == [request[r] EXCEPT !.step = "pay"]
                 new == IF request[r].paying THEN next ELSE Idle
      <4>1. next.step = "pay"
        BY <3>1 DEF Steps
      <4>2. request' = [request EXCEPT ![r] = new]
        BY <3>4 DEF StoreTotals
      <4> HIDE DEF next
      <4>3. new.step # "cancel"
        BY <4>1, IdleFacts
      <4> HIDE DEF new
      <4> QED BY <4>2, <4>3
    <3> QED BY <1>6, <3>2, <3>3, <3>4
  <2> QED BY <1>1, <1>2, <1>6, <2>1, WriteIsQuiet
<1> QED BY <1>3, <1>4, <1>5, <1>6 DEF DraftStep, PostingStep

LEMMA CancelStep == CancelInv /\ [DocumentsNext]_vars => CancelInv'
<1> SUFFICES ASSUME CancelInv, [DocumentsNext]_vars PROVE CancelInv'
  OBVIOUS
<1>1. SaleInv'
  BY SaleStep DEF CancelInv, DocumentsNext
<1>2. CASE UNCHANGED vars
  <2>1. UNCHANGED <<request, status, isDraft, taken, restored, posted, reversed, disturbed>>
    BY <1>2 DEF vars, saleVars, history
  <2>2. Quiet /\ ReadsOn
    BY <2>1, RowsStand DEF Quiet, ReadsOn
  <2> QED BY <1>1, <2>2, QuietKeepsCancels
<1>3. ASSUME NEW r \in Request, BeginStep(r) \/ DraftStep(r) \/ PostingStep(r), ~Reopens
      PROVE  CancelInv'
  BY <1>1, <1>3, StepKinds, QuietKeepsCancels, PayKeepsCancels, CancelKeepsCancels
<1> QED BY <1>2, <1>3 DEF DocumentsNext, Next

LEMMA CancelBegins == Init => CancelInv
<1> SUFFICES ASSUME Init PROVE CancelInv
  OBVIOUS
<1>1. \A s \in Sale : CancelHolds(s)
  BY DEF Init, CancelHolds, Exists
<1>2. \A q \in Request : CancelRead(request[q])
  BY IdleFacts DEF Init, CancelRead
<1> QED BY <1>1, <1>2, SaleBegins DEF CancelInv

THEOREM CancelInvariant == DocumentsSpec => []CancelInv
<1> QED BY CancelBegins, CancelStep, PTL DEF DocumentsSpec

\* A cancelled sale has put back exactly what its payment took, whatever was
\* returned, parked, swept or edited around it, unless an unchecked write touched it
\* after its payment had read it.
THEOREM CancelsRestore == DocumentsSpec => []CancelRestoresWhatWasTaken
<1>1. CancelInv => CancelRestoresWhatWasTaken
  BY DEF CancelInv, CancelHolds, CancelRestoresWhatWasTaken
<1> QED BY <1>1, CancelInvariant, PTL

\* As long as nobody reopens a cancelled sale by its id, its stock comes back at most
\* once; SalesPos_recancel shows that this condition is needed.
THEOREM SalesReversedAtMostOnce == DocumentsSpec => []ReversedAtMostOnce
<1>1. CancelInv => ReversedAtMostOnce
  BY DEF CancelInv, CancelHolds, ReversedAtMostOnce
<1> QED BY <1>1, CancelInvariant, PTL

Phase == [s \in Sale |-> PhaseOf(s)]

\* Where the documents are after a step that moves one of them.
LEMMA PhaseAfter ==
    ASSUME NEW t \in Sale, NEW phase, PhaseOf(t)' = phase,
           \A s \in Sale : s # t => PhaseOf(s)' = PhaseOf(s)
    PROVE  Phase' = [Phase EXCEPT ![t] = phase]
BY DEF Phase

\* The phase of a sale follows its status, draft flag and nothing else.
LEMMA PhaseFacts ==
    ASSUME NEW s
    PROVE  /\ Exists(s) /\ isDraft[s] /\ status[s] # "cancelled" => PhaseOf(s) = "open"
           /\ Exists(s) /\ ~isDraft[s] /\ status[s] # "cancelled" => PhaseOf(s) = "posted"
           /\ status'[s] = "deleted" => PhaseOf(s)' = "closed"
           /\ status'[s] = "paid" /\ ~isDraft'[s] => PhaseOf(s)' = "posted"
           /\ status'[s] = "cancelled" /\ ~isDraft'[s] => PhaseOf(s)' = "reversed"
           /\ status'[s] = status[s] /\ isDraft'[s] = isDraft[s] => PhaseOf(s)' = PhaseOf(s)
<1>1. Exists(s) /\ isDraft[s] /\ status[s] # "cancelled" => PhaseOf(s) = "open"
  BY DEF PhaseOf, Exists
<1>2. Exists(s) /\ ~isDraft[s] /\ status[s] # "cancelled" => PhaseOf(s) = "posted"
  BY DEF PhaseOf, Exists
<1>3. status'[s] = "deleted" => PhaseOf(s)' = "closed"
  BY DEF PhaseOf, Exists
<1>4. status'[s] = "paid" /\ ~isDraft'[s] => PhaseOf(s)' = "posted"
  BY DEF PhaseOf, Exists
<1>5. status'[s] = "cancelled" /\ ~isDraft'[s] => PhaseOf(s)' = "reversed"
  BY DEF PhaseOf, Exists
<1>6. status'[s] = status[s] /\ isDraft'[s] = isDraft[s] => PhaseOf(s)' = PhaseOf(s)
  BY DEF PhaseOf, Exists
<1> QED BY <1>1, <1>2, <1>3, <1>4, <1>5, <1>6

LEMMA SaleDocumentStep ==
    CancelInv /\ [DocumentsNext]_vars => [Document!Next]_<<Phase, posted, reversed>>
<1> SUFFICES ASSUME CancelInv, [DocumentsNext]_vars
             PROVE  [Document!Next]_<<Phase, posted, reversed>>
  OBVIOUS
<1>1. TypeOK
  BY DEF CancelInv, SaleInv
<1>2. ASSUME Quiet PROVE Document!Next
  <2> DEFINE D == {s \in Sale : PhaseOf(s)' # PhaseOf(s)}
  <2>1. ASSUME NEW s \in D PROVE PhaseOf(s)' = "closed" /\ PhaseOf(s) # "closed"
    <3>1. s \in Sale /\ PhaseOf(s)' # PhaseOf(s)
      OBVIOUS
    <3>2. RowMoves(s) /\ CancelHolds(s)
      BY <1>2, <3>1 DEF Quiet, CancelInv
    <3>3. status'[s] = "deleted" \/ PhaseOf(s)' = PhaseOf(s)
      BY <3>2 DEF RowMoves, CancelHolds, PhaseOf, Exists, Undeleted
    <3>4. PhaseOf(s)' = "closed"
      BY <3>1, <3>3, PhaseFacts
    <3> QED BY <3>1, <3>4
  <2>2. Phase' = [s \in Sale |-> IF s \in D THEN "closed" ELSE Phase[s]]
    <3>1. \A s \in Sale : PhaseOf(s)' = IF s \in D THEN "closed" ELSE PhaseOf(s)
      BY <2>1
    <3> HIDE DEF D
    <3> QED BY <3>1 DEF Phase
  <2>3. \A s \in D : Phase[s] # "closed"
    BY <2>1 DEF Phase
  <2>4. D \in SUBSET Sale
    OBVIOUS
  <2> HIDE DEF D
  <2>5. Document!Close(D)
    BY <1>2, <2>2, <2>3 DEF Document!Close, Phase, Quiet
  <2> QED BY <2>4, <2>5 DEF Document!Next
<1>3. ASSUME NEW r \in Request, Pay(r) PROVE Document!Next
  <2>1. PICK t \in Sale : PaySteps(t)
    BY <1>3, PayFacts DEF PaySteps
  <2>2. /\ t \in Sale /\ Exists(t) /\ isDraft[t] /\ status[t] # "cancelled"
        /\ status'[t] = "paid" /\ ~isDraft'[t]
        /\ \A s \in Sale : s # t => status'[s] = status[s] /\ isDraft'[s] = isDraft[s]
    BY <1>1, <2>1 DEF PaySteps, TypeOK
  <2>3. PhaseOf(t)' = "posted" /\ \A s \in Sale : s # t => PhaseOf(s)' = PhaseOf(s)
    BY <2>2, PhaseFacts
  <2>4. Phase[t] = "open"
    BY <2>2, PhaseFacts DEF Phase
  <2>5. Phase' = [Phase EXCEPT ![t] = "posted"]
    BY <2>2, <2>3, PhaseAfter
  <2>6. Document!Post(t)
    BY <2>1, <2>4, <2>5 DEF Document!Post, Phase, PaySteps
  <2> QED BY <2>2, <2>6 DEF Document!Next
<1>4. ASSUME NEW r \in Request, Cancel(r) PROVE Document!Next
  <2>1. PICK t \in Sale : CancelSteps(t)
    BY <1>4, CancelFacts DEF CancelSteps
  <2>2. /\ t \in Sale /\ Exists(t) /\ ~isDraft[t] /\ status[t] # "cancelled"
        /\ status'[t] = "cancelled" /\ ~isDraft'[t]
        /\ \A s \in Sale : s # t => status'[s] = status[s] /\ isDraft'[s] = isDraft[s]
    BY <1>1, <2>1 DEF CancelSteps, TypeOK
  <2>3. PhaseOf(t)' = "reversed" /\ \A s \in Sale : s # t => PhaseOf(s)' = PhaseOf(s)
    BY <2>2, PhaseFacts
  <2>4. Phase[t] = "posted"
    BY <2>2, PhaseFacts DEF Phase
  <2>5. Phase' = [Phase EXCEPT ![t] = "reversed"]
    BY <2>2, <2>3, PhaseAfter
  <2>6. Document!Reverse(t)
    BY <2>1, <2>4, <2>5 DEF Document!Reverse, Phase, CancelSteps
  <2> QED BY <2>2, <2>6 DEF Document!Next
<1>5. CASE UNCHANGED vars
  BY <1>5 DEF vars, saleVars, history, Phase, PhaseOf, Exists
<1>6. ASSUME NEW r \in Request, BeginStep(r) \/ DraftStep(r) \/ PostingStep(r), ~Reopens
      PROVE  Document!Next
  BY <1>2, <1>3, <1>4, <1>6, StepKinds
<1> QED BY <1>5, <1>6 DEF DocumentsNext, Next

\* A sale is posted at most once, reversed at most once and only when posted, with
\* all its drafts, parks, resumes and sweeps: it implements the document of
\* docs/architecture.md as long as no cancelled sale is reopened by its id.
THEOREM SaleIsStockDocument == DocumentsSpec => IsStockDocument
<1>1. Init => Document!Init
  BY DEF Init, Document!Init, PhaseOf, Exists
<1>2. CancelInv /\ [DocumentsNext]_vars => [Document!Next]_Document!docVars
  BY SaleDocumentStep DEF Phase, Document!docVars
<1> QED BY <1>1, <1>2, CancelInvariant, PTL DEF DocumentsSpec, IsStockDocument, Document!Spec

=============================================================================
