---------------------------- MODULE DocumentsProofs ----------------------------
(***************************************************************************)
(* Transfers and orders, for any transfers, shops, items, products,        *)
(* clerks and requests in flight.                                          *)
(*                                                                         *)
(* A transfer moves stock out once and then in or back, it moves what its  *)
(* lines say unless they were edited late, and it implements the stock     *)
(* document.  OneEnding follows from what each status says of the counters *)
(* (StatusTells); ConservedUnlessEditedLate needs in addition that what a  *)
(* request has read to move is still what the lines say (ReadsHold).       *)
(*                                                                         *)
(* An order of the second till adds up and is completed once.  OrderAddsUp *)
(* rests on what the clerks hold: the sum one has computed is that of the  *)
(* lines as they will be, unless someone has committed since (SumHolds).   *)
(***************************************************************************)
EXTENDS MCDocuments, TotalsTheorems

Movers == {"send", "accept", "cancel"}

\* What the status of a transfer says of what it has moved.
StatusTells(t) ==
    /\ status[t] \in {"NONE", "DRAFT"} =>
          /\ posted[t] = 0 /\ reversed[t] = 0
          /\ sent[t] = NoLines /\ back[t] = NoLines /\ arrived[t] = NoLines
    /\ status[t] = "SENT" =>
          /\ posted[t] = 1 /\ reversed[t] = 0
          /\ back[t] = NoLines /\ arrived[t] = NoLines
    /\ status[t] = "ACCEPTED" => posted[t] = 1 /\ reversed[t] = 0 /\ back[t] = NoLines
    /\ status[t] = "CANCELLED" =>
          /\ posted[t] \in {0, 1} /\ reversed[t] = posted[t] /\ arrived[t] = NoLines

\* Unless its lines were edited late, requests hold the lines as they are, and
\* what left is what they said.
ReadsHold(t) ==
    ~editedLate[t] =>
        /\ status[t] = "SENT" => sent[t] = lines[t]
        /\ status[t] = "CANCELLED" => back[t] = sent[t]
        /\ \A x \in Place : arrived[t][x] + back[t][x] <= sent[t][x]
        /\ \A r \in Request : request[r].step \in Movers /\ request[r].transfer = t
              => request[r].seen = lines[t]

\* A cancel in flight has read a transfer that could be cancelled.
CancelsOpen ==
    \A r \in Request : request[r].step = "cancel" => request[r].seenStatus \in {"DRAFT", "SENT"}

TransferInv ==
    /\ TypeOK /\ CancelsOpen
    /\ \A t \in Transfer : StatusTells(t) /\ ReadsHold(t)

-----------------------------------------------------------------------------
LEMMA LinesFacts ==
    /\ NoLines \in Lines /\ NoLines \in [Place -> Nat]
    /\ \A f \in Lines : f \in [Place -> Nat]
    /\ \A f \in [Place -> Nat] : [x \in Place |-> NoLines[x] + f[x]] = f
    /\ \A f, g \in [Place -> Nat] : [x \in Place |-> f[x] + g[x]] \in [Place -> Nat]
    /\ Idle \in RequestState /\ Idle.step = "idle"
<1>1. 0 \in 0 .. MaxQuantity /\ 0 .. MaxQuantity \subseteq Nat
  BY TransferAssumption
<1>2. NoLines \in Lines /\ NoLines \in [Place -> Nat]
  BY <1>1 DEF NoLines, Lines, Quantities
<1>3. \A f \in Lines : f \in [Place -> Nat]
  BY <1>1 DEF Lines, Quantities
<1>4. ASSUME NEW f \in [Place -> Nat] PROVE [x \in Place |-> NoLines[x] + f[x]] = f
  <2>1. \A x \in Place : NoLines[x] + f[x] = f[x]
    BY DEF NoLines
  <2> QED BY <2>1
<1>5. \A f, g \in [Place -> Nat] : [x \in Place |-> f[x] + g[x]] \in [Place -> Nat]
  OBVIOUS
<1>6. Idle \in RequestState
  <2>1. (CHOOSE t \in Transfer : TRUE) \in Transfer /\ (CHOOSE w \in Place : TRUE) \in Place
    BY TransferAssumption
  <2> QED BY <1>1, <1>2, <2>1 DEF Idle, RequestState, Steps, Status, Quantities
<1> QED BY <1>2, <1>3, <1>4, <1>5, <1>6 DEF Idle

LEMMA TransfersBegin == Init => TransferInv
<1> SUFFICES ASSUME Init PROVE TransferInv
  OBVIOUS
<1>1. TypeOK
  <2>1. /\ \A s \in Shop : InitialStock \in Nat
        /\ status \in [Transfer -> Status] /\ editedLate \in [Transfer -> BOOLEAN]
        /\ stock \in [Item -> [Shop -> Nat]]
    BY TransferAssumption DEF Init, Status
  <2>2. /\ lines \in [Transfer -> Lines] /\ request \in [Request -> RequestState]
        /\ sent \in [Transfer -> [Place -> Nat]] /\ back \in [Transfer -> [Place -> Nat]]
        /\ arrived \in [Transfer -> [Place -> Nat]]
    BY LinesFacts DEF Init
  <2>3. 0 \in Nat
    OBVIOUS
  <2>4. posted \in [Transfer -> Nat] /\ reversed \in [Transfer -> Nat]
    BY <2>3 DEF Init
  <2> QED BY <2>1, <2>2, <2>4 DEF TypeOK
<1>2. CancelsOpen
  BY LinesFacts DEF Init, CancelsOpen
<1>3. ASSUME NEW t \in Transfer PROVE StatusTells(t) /\ ReadsHold(t)
  <2>1. StatusTells(t)
    BY DEF Init, StatusTells
  <2>2. \A x \in Place : arrived[t][x] + back[t][x] <= sent[t][x]
    BY DEF Init, NoLines
  <2> QED BY <2>1, <2>2, LinesFacts DEF Init, ReadsHold, Movers
<1> QED BY <1>1, <1>2, <1>3 DEF TransferInv

-----------------------------------------------------------------------------
(* Types.                                                                  *)

LEMMA ReadsTyped ==
    ASSUME TypeOK, NEW r \in Request, NEW t \in Transfer,
           \/ BeginSend(r, t) \/ BeginAccept(r, t) \/ BeginCancel(r, t)
           \/ \E w \in Place, q \in Quantities : BeginUpsert(r, t, w, q)
    PROVE  TypeOK'
<1>1. lines[t] \in Lines /\ status[t] \in Status
  BY DEF TypeOK
<1>2. ASSUME NEW step \in Steps, NEW statuses, Read(r, t, step, statuses) PROVE TypeOK'
  <2>1. [Idle EXCEPT !.step = step, !.transfer = t, !.seen = lines[t],
                     !.seenStatus = status[t]] \in RequestState
    BY <1>1, LinesFacts DEF RequestState
  <2> QED BY <1>2, <2>1 DEF Read, TypeOK, document, history
<1>3. ASSUME NEW w \in Place, NEW q \in Quantities, BeginUpsert(r, t, w, q) PROVE TypeOK'
  <2>1. [step |-> "upsert", transfer |-> t, place |-> w, quantity |-> q,
         seen |-> lines[t], seenStatus |-> status[t]] \in RequestState
    BY <1>1 DEF RequestState, Steps
  <2> QED BY <1>3, <2>1 DEF BeginUpsert, TypeOK, document, history
<1> QED BY <1>2, <1>3 DEF BeginSend, BeginAccept, BeginCancel, Steps

\* The units of an item that lines hold are a natural number.
LEMMA UnitsOfItemType ==
    ASSUME NEW f \in [Place -> Nat], NEW i \in Item
    PROVE  UnitsOfItem(f, i) \in Nat
<1> DEFINE W == {w \in Place : ItemOf[w] = i}
<1>1. IsFiniteSet(W) /\ \A x \in W : f[x] \in Int
  BY TransferAssumption, FS_Subset
<1> HIDE DEF W
<1>2. SumOver(f, W) \in Nat
  BY <1>1, SumType
<1> QED BY <1>2 DEF UnitsOfItem, W

LEMMA WritesTyped ==
    ASSUME TypeOK, NEW r \in Request,
           \/ UpdateLine(r) \/ CreateLine(r) \/ Send(r) \/ Cancel(r) \/ Reject(r)
           \/ \E quantity \in Lines : Accept(r, quantity)
    PROVE  TypeOK'
<1> DEFINE t == request[r].transfer
           seen == request[r].seen
<1>1. /\ request[r] \in RequestState /\ t \in Transfer /\ seen \in Lines
      /\ request[r].place \in Place /\ request[r].quantity \in Quantities
      /\ From[t] \in Shop /\ To[t] \in Shop
  BY TransferAssumption DEF TypeOK, RequestState
<1>2. Done(r) => request' \in [Request -> RequestState]
  BY LinesFacts DEF Done, TypeOK
<1>3. /\ stock \in [Item -> [Shop -> Nat]] /\ lines \in [Transfer -> Lines]
      /\ seen \in [Place -> Nat]
      /\ \A u \in Transfer : /\ sent[u] \in [Place -> Nat] /\ back[u] \in [Place -> Nat]
                             /\ arrived[u] \in [Place -> Nat]
                             /\ posted[u] \in Nat /\ reversed[u] \in Nat
  BY <1>1, LinesFacts DEF TypeOK
<1>4. CASE UpdateLine(r) \/ CreateLine(r)
  <2>1. PICK w \in Place : SetLine(r, t, w)
    BY <1>1, <1>4 DEF UpdateLine, CreateLine
  <2>2. lines' \in [Transfer -> Lines]
    <3>1. [lines[t] EXCEPT ![w] = request[r].quantity] \in Lines
      BY <1>1, <1>3 DEF Lines
    <3>2. [lines EXCEPT ![t][w] = request[r].quantity] \in [Transfer -> Lines]
      BY <1>1, <1>3, <3>1
    <3> QED BY <2>1, <3>2 DEF SetLine
  <2>3. editedLate' \in [Transfer -> BOOLEAN]
    BY <2>1 DEF SetLine, TypeOK
  <2>4. Done(r) /\ UNCHANGED <<status, stock, history>>
    BY <1>4 DEF UpdateLine, CreateLine
  <2> QED BY <1>2, <2>2, <2>3, <2>4 DEF TypeOK, history
<1>5. CASE Send(r)
  <2>1. stock' \in [Item -> [Shop -> Nat]]
    <3>1. \A i \in Item : stock[i][From[t]] - UnitsOfItem(seen, i) \in Nat
      <4> TAKE i \in Item
      <4>1. UnitsOfItem(seen, i) \in Nat
        BY <1>3, UnitsOfItemType
      <4>2. stock[i][From[t]] \in Nat /\ stock[i][From[t]] >= UnitsOfItem(seen, i)
        BY <1>1, <1>3, <1>5 DEF Send, InStock
      <4> HIDE DEF seen, t
      <4> QED BY <4>1, <4>2
    <3>2. \A i \in Item : [stock[i] EXCEPT ![From[t]] = @ - UnitsOfItem(seen, i)] \in [Shop -> Nat]
      BY <1>1, <1>3, <3>1
    <3> QED BY <1>5, <3>2 DEF Send
  <2>2. sent' \in [Transfer -> [Place -> Nat]]
    <3>1. [x \in Place |-> sent[t][x] + seen[x]] \in [Place -> Nat]
      BY <1>1, <1>3, LinesFacts
    <3> QED BY <1>1, <1>5, <3>1 DEF Send, TypeOK
  <2>3. posted' \in [Transfer -> Nat] /\ status' \in [Transfer -> Status]
    BY <1>1, <1>3, <1>5 DEF Send, TypeOK, Status
  <2> QED BY <1>2, <1>5, <2>1, <2>2, <2>3 DEF Send, TypeOK
<1>6. ASSUME NEW quantity \in Lines, Accept(r, quantity) PROVE TypeOK'
  <2>1. quantity \in [Place -> Nat]
    BY LinesFacts
  <2>2. stock' \in [Item -> [Shop -> Nat]]
    <3>1. \A i \in Item : stock[i][To[t]] + UnitsOfItem(quantity, i) \in Nat
      BY <1>1, <1>3, <2>1, UnitsOfItemType
    <3>2. \A i \in Item : [stock[i] EXCEPT ![To[t]] = @ + UnitsOfItem(quantity, i)] \in [Shop -> Nat]
      BY <1>1, <1>3, <3>1
    <3> QED BY <1>6, <3>2 DEF Accept
  <2>3. arrived' \in [Transfer -> [Place -> Nat]]
    <3>1. [x \in Place |-> arrived[t][x] + quantity[x]] \in [Place -> Nat]
      BY <1>1, <1>3, <2>1, LinesFacts
    <3> QED BY <1>1, <1>6, <3>1 DEF Accept, TypeOK
  <2>4. status' \in [Transfer -> Status]
    BY <1>1, <1>6 DEF Accept, TypeOK, Status
  <2> QED BY <1>2, <1>6, <2>2, <2>3, <2>4 DEF Accept, TypeOK
<1>7. CASE Cancel(r)
  <2> DEFINE restored == IF request[r].seenStatus = "SENT" THEN seen ELSE NoLines
  <2>1. restored \in [Place -> Nat]
    BY <1>3, LinesFacts
  <2>2. /\ stock' = [i \in Item |-> [stock[i] EXCEPT ![From[t]] = @ + UnitsOfItem(restored, i)]]
        /\ back' = [back EXCEPT ![t] = [x \in Place |-> @[x] + restored[x]]]
    BY <1>7 DEF Cancel
  <2> HIDE DEF restored
  <2>3. stock' \in [Item -> [Shop -> Nat]]
    <3>1. \A i \in Item : stock[i][From[t]] + UnitsOfItem(restored, i) \in Nat
      BY <1>1, <1>3, <2>1, UnitsOfItemType
    <3>2. \A i \in Item : [stock[i] EXCEPT ![From[t]] = @ + UnitsOfItem(restored, i)] \in [Shop -> Nat]
      BY <1>1, <1>3, <3>1
    <3> QED BY <2>2, <3>2
  <2>4. back' \in [Transfer -> [Place -> Nat]]
    <3>1. [x \in Place |-> back[t][x] + restored[x]] \in [Place -> Nat]
      BY <1>1, <1>3, <2>1, LinesFacts
    <3> QED BY <1>1, <2>2, <3>1 DEF TypeOK
  <2>5. reversed' \in [Transfer -> Nat] /\ status' \in [Transfer -> Status]
    BY <1>1, <1>3, <1>7 DEF Cancel, TypeOK, Status
  <2> QED BY <1>2, <1>7, <2>3, <2>4, <2>5 DEF Cancel, TypeOK
<1>8. CASE Reject(r)
  BY <1>2, <1>8 DEF Reject, TypeOK, document, history
<1> QED BY <1>4, <1>5, <1>6, <1>7, <1>8

LEMMA TransferTypesKept == TypeOK /\ [Next]_vars => TypeOK'
<1> SUFFICES ASSUME TypeOK, [Next]_vars PROVE TypeOK'
  OBVIOUS
<1>1. ASSUME NEW t \in Transfer, Create(t) PROVE TypeOK'
  BY <1>1 DEF Create, TypeOK, Status, history
<1>2. ASSUME NEW i \in Item, NEW s \in Shop, Sell(i, s) PROVE TypeOK'
  <2>1. stock[i] \in [Shop -> Nat] /\ stock[i][s] - 1 \in Nat
    BY <1>2 DEF Sell, TypeOK
  <2>2. [stock EXCEPT ![i][s] = @ - 1] \in [Item -> [Shop -> Nat]]
    BY <2>1 DEF TypeOK
  <2> QED BY <1>2, <2>2 DEF Sell, TypeOK, document, history
<1>3. CASE UNCHANGED vars
  BY <1>3 DEF vars, TypeOK, document, history
<1> QED BY <1>1, <1>2, <1>3, ReadsTyped, WritesTyped DEF Next

-----------------------------------------------------------------------------
(* What the status tells, and what the readers hold.                       *)

\* A step that only begins or ends requests: whoever begins to move has read the
\* lines as they are.
LEMMA ReadingKeeps ==
    ASSUME TransferInv, UNCHANGED <<document, history, editedLate>>,
           \A q \in Request :
              \/ request'[q] = request[q]
              \/ request'[q].step \notin Movers
              \/ /\ request'[q].seen = lines[request'[q].transfer]
                 /\ request'[q].step = "cancel" => request'[q].seenStatus \in {"DRAFT", "SENT"}
    PROVE  /\ CancelsOpen'
           /\ \A t \in Transfer : StatusTells(t)' /\ ReadsHold(t)'
<1>1. UNCHANGED <<status, lines, sent, back, arrived, posted, reversed, editedLate>>
  BY DEF document, history
<1>2. CancelsOpen'
  BY DEF TransferInv, CancelsOpen, Movers
<1>3. ASSUME NEW t \in Transfer PROVE StatusTells(t)' /\ ReadsHold(t)'
  <2>1. StatusTells(t) /\ ReadsHold(t)
    BY DEF TransferInv
  <2>2. StatusTells(t)'
    BY <1>1, <2>1 DEF StatusTells
  <2>3. ReadsHold(t)'
    BY <1>1, <2>1 DEF ReadsHold
  <2> QED BY <2>2, <2>3
<1> QED BY <1>2, <1>3

LEMMA BeginKeeps ==
    ASSUME TransferInv, NEW r \in Request, NEW t \in Transfer,
           \/ BeginSend(r, t) \/ BeginAccept(r, t) \/ BeginCancel(r, t)
           \/ \E w \in Place, q \in Quantities : BeginUpsert(r, t, w, q)
    PROVE  /\ CancelsOpen'
           /\ \A u \in Transfer : StatusTells(u)' /\ ReadsHold(u)'
<1>1. request \in [Request -> RequestState]
  BY DEF TransferInv, TypeOK
<1>2. ASSUME NEW step \in Steps, NEW statuses, Read(r, t, step, statuses),
             step = "cancel" => statuses = {"DRAFT", "SENT"}
      PROVE  /\ CancelsOpen'
             /\ \A u \in Transfer : StatusTells(u)' /\ ReadsHold(u)'
  <2> DEFINE new == [Idle EXCEPT !.step = step, !.transfer = t, !.seen = lines[t],
                                 !.seenStatus = status[t]]
  <2>1. /\ new.step = step /\ new.transfer = t /\ new.seen = lines[t]
        /\ new.seenStatus = status[t] /\ status[t] \in statuses
    BY <1>2 DEF Idle, Read
  <2>2. /\ request' = [request EXCEPT ![r] = new]
        /\ UNCHANGED <<document, history, editedLate>>
    BY <1>2 DEF Read
  <2> HIDE DEF new
  <2>3. \A q \in Request : request'[q] = IF q = r THEN new ELSE request[q]
    BY <1>1, <2>2
  <2> QED BY <1>2, <2>1, <2>2, <2>3, ReadingKeeps
<1>3. ASSUME NEW w \in Place, NEW q \in Quantities, BeginUpsert(r, t, w, q)
      PROVE  /\ CancelsOpen'
             /\ \A u \in Transfer : StatusTells(u)' /\ ReadsHold(u)'
  <2>1. \A o \in Request : request'[o] = request[o] \/ request'[o].step = "upsert"
    BY <1>1, <1>3 DEF BeginUpsert
  <2>2. UNCHANGED <<document, history, editedLate>>
    BY <1>3 DEF BeginUpsert
  <2> QED BY <2>1, <2>2, ReadingKeeps DEF Movers
<1> QED BY <1>2, <1>3 DEF BeginSend, BeginAccept, BeginCancel, Steps

\* What a request that ends leaves of the others.
LEMMA DoneFacts ==
    ASSUME TransferInv, NEW r \in Request, Done(r)
    PROVE  /\ \A q \in Request : request'[q] = IF q = r THEN Idle ELSE request[q]
           /\ \A q \in Request : request'[q].step \in Movers =>
                 q # r /\ request'[q] = request[q]
           /\ CancelsOpen'
<1>1. \A q \in Request : request'[q] = IF q = r THEN Idle ELSE request[q]
  BY DEF TransferInv, TypeOK, Done
<1>2. \A q \in Request : request'[q].step \in Movers => q # r /\ request'[q] = request[q]
  BY <1>1, LinesFacts DEF Movers
<1>3. CancelsOpen'
  BY <1>1, LinesFacts DEF TransferInv, CancelsOpen
<1> QED BY <1>1, <1>2, <1>3

LEMMA RejectKeeps ==
    ASSUME TransferInv, NEW r \in Request, Reject(r)
    PROVE  /\ CancelsOpen'
           /\ \A t \in Transfer : StatusTells(t)' /\ ReadsHold(t)'
<1>1. \A q \in Request : request'[q] = request[q] \/ request'[q].step \notin Movers
  BY DoneFacts, LinesFacts DEF Reject, Movers
<1> QED BY <1>1, ReadingKeeps DEF Reject

\* A line that is written while somebody has read it marks the transfer.
LEMMA WriteLineKeeps ==
    ASSUME TransferInv, NEW r \in Request, UpdateLine(r) \/ CreateLine(r)
    PROVE  /\ CancelsOpen'
           /\ \A t \in Transfer : StatusTells(t)' /\ ReadsHold(t)'
<1> DEFINE w == request[r].transfer
<1>1. Done(r) /\ UNCHANGED <<status, sent, back, arrived, posted, reversed>>
  BY DEF UpdateLine, CreateLine, history
<1>2. w \in Transfer /\ lines \in [Transfer -> Lines] /\ editedLate \in [Transfer -> BOOLEAN]
  BY DEF TransferInv, TypeOK, RequestState
<1>3. \A t \in Transfer : StatusTells(t)'
  <2>1. ASSUME NEW t \in Transfer, StatusTells(t) PROVE StatusTells(t)'
    BY <1>1, <2>1 DEF StatusTells
  <2> QED BY <2>1 DEF TransferInv
<1>4. \A t \in Transfer :
        /\ t # w => lines'[t] = lines[t] /\ editedLate'[t] = editedLate[t]
        /\ ~editedLate'[w] => ~editedLate[w]
        /\ ~editedLate'[w] =>
              lines' = lines \/ (~LinesInUse(w) /\ status[w] = "DRAFT")
  <2>1. PICK x \in Place : SetLine(r, w, x)
    BY DEF TransferInv, TypeOK, RequestState, UpdateLine, CreateLine
  <2> QED BY <1>2, <2>1 DEF SetLine
<1>5. ASSUME NEW t \in Transfer, ~editedLate'[t]
      PROVE  /\ status'[t] = "SENT" => sent'[t] = lines'[t]
             /\ status'[t] = "CANCELLED" => back'[t] = sent'[t]
             /\ \A x \in Place : arrived'[t][x] + back'[t][x] <= sent'[t][x]
             /\ \A q \in Request : request'[q].step \in Movers /\ request'[q].transfer = t
                   => request'[q].seen = lines'[t]
  <2>1. ~editedLate[t] /\ ReadsHold(t)
    BY <1>2, <1>4, <1>5 DEF TransferInv
  <2>2. CASE lines'[t] = lines[t]
    BY <1>1, <2>1, <2>2, DoneFacts DEF ReadsHold
  <2>3. CASE t = w /\ ~LinesInUse(w) /\ status[w] = "DRAFT"
    <3>1. \A q \in Request : ~(request'[q].step \in Movers /\ request'[q].transfer = t)
      BY <1>1, <2>3, DoneFacts DEF LinesInUse, Movers
    <3> QED BY <1>1, <2>1, <2>3, <3>1 DEF ReadsHold
  <2> QED BY <1>4, <1>5, <2>2, <2>3
<1>6. \A t \in Transfer : ReadsHold(t)'
  BY <1>5 DEF ReadsHold
<1> QED BY <1>1, <1>3, <1>6, DoneFacts

\* A step of one transfer leaves what holds of the others.
LEMMA OthersKeep ==
    ASSUME TransferInv, NEW r \in Request, Done(r), NEW t \in Transfer,
           UNCHANGED <<lines, editedLate>>,
           NEW u \in Transfer, u # t,
           UNCHANGED <<status[u], sent[u], back[u], arrived[u], posted[u], reversed[u]>>
    PROVE  StatusTells(u)' /\ ReadsHold(u)'
<1>1. StatusTells(u) /\ ReadsHold(u)
  BY DEF TransferInv
<1>2. StatusTells(u)'
  BY <1>1 DEF StatusTells
<1>3. ReadsHold(u)'
  BY <1>1, DoneFacts DEF ReadsHold
<1> QED BY <1>2, <1>3

LEMMA SendKeeps ==
    ASSUME TransferInv, NEW r \in Request, Send(r),
           NEW w \in Transfer, w = request[r].transfer
    PROVE  /\ CancelsOpen'
           /\ \A t \in Transfer : StatusTells(t)' /\ ReadsHold(t)'
<1> DEFINE seen == request[r].seen
<1>1. Done(r) /\ UNCHANGED <<lines, back, arrived, reversed, editedLate>>
  BY DEF Send
<1>2. /\ seen \in Lines /\ seen \in [Place -> Nat]
      /\ request[r].step = "send" /\ status[w] = "DRAFT"
  BY LinesFacts DEF TransferInv, TypeOK, RequestState, Send, Claimed
<1>3. StatusTells(w) /\ ReadsHold(w)
  BY <1>2 DEF TransferInv
<1>4. /\ status'[w] = "SENT" /\ posted'[w] = 1 /\ reversed'[w] = 0
      /\ back'[w] = NoLines /\ arrived'[w] = NoLines
  BY <1>1, <1>2, <1>3 DEF StatusTells, Send, TransferInv, TypeOK
<1>5. sent'[w] = seen
  <2>1. sent'[w] = [x \in Place |-> NoLines[x] + seen[x]]
    BY <1>2, <1>3 DEF StatusTells, Send, TransferInv, TypeOK
  <2> QED BY <1>2, <2>1, LinesFacts
<1>6. \A u \in Transfer : u # w => UNCHANGED <<status[u], sent[u], back[u], arrived[u],
                                               posted[u], reversed[u]>>
  BY <1>1, <1>2 DEF Send, TransferInv, TypeOK
<1>7. StatusTells(w)'
  BY <1>4 DEF StatusTells
<1>8. ReadsHold(w)'
  <2>1. ~editedLate[w] => seen = lines[w]
    BY <1>2, <1>3 DEF ReadsHold, Movers
  <2>2. \A x \in Place : arrived'[w][x] + back'[w][x] <= sent'[w][x]
    <3> TAKE x \in Place
    <3>1. arrived'[w][x] = 0 /\ back'[w][x] = 0 /\ sent'[w][x] \in Nat
      BY <1>2, <1>4, <1>5 DEF NoLines
    <3> QED BY <3>1
  <2> QED BY <1>1, <1>3, <1>4, <1>5, <2>1, <2>2, DoneFacts DEF ReadsHold
<1> QED BY <1>1, <1>2, <1>6, <1>7, <1>8, DoneFacts, OthersKeep

LEMMA AcceptKeeps ==
    ASSUME TransferInv, NEW r \in Request, NEW quantity \in Lines, Accept(r, quantity),
           NEW w \in Transfer, w = request[r].transfer
    PROVE  /\ CancelsOpen'
           /\ \A t \in Transfer : StatusTells(t)' /\ ReadsHold(t)'
<1> DEFINE seen == request[r].seen
<1>1. Done(r) /\ UNCHANGED <<lines, sent, back, posted, reversed, editedLate>>
  BY DEF Accept
<1>2. /\ seen \in [Place -> Nat] /\ quantity \in [Place -> Nat]
      /\ request[r].step = "accept" /\ status[w] = "SENT"
      /\ \A x \in Place : quantity[x] <= seen[x]
  BY LinesFacts DEF TransferInv, TypeOK, RequestState, Accept, Claimed, Arrivable
<1>3. StatusTells(w) /\ ReadsHold(w)
  BY <1>2 DEF TransferInv
<1>4. /\ status'[w] = "ACCEPTED" /\ posted'[w] = 1 /\ reversed'[w] = 0
      /\ back'[w] = NoLines
  BY <1>1, <1>2, <1>3 DEF StatusTells, Accept, TransferInv, TypeOK
<1>5. arrived'[w] = quantity
  <2>1. arrived'[w] = [x \in Place |-> NoLines[x] + quantity[x]]
    BY <1>2, <1>3 DEF StatusTells, Accept, TransferInv, TypeOK
  <2> QED BY <1>2, <2>1, LinesFacts
<1>6. \A u \in Transfer : u # w => UNCHANGED <<status[u], sent[u], back[u], arrived[u],
                                               posted[u], reversed[u]>>
  BY <1>1, <1>2 DEF Accept, TransferInv, TypeOK
<1>7. StatusTells(w)'
  BY <1>4 DEF StatusTells
<1>8. ReadsHold(w)'
  <2>1. ~editedLate[w] => seen = lines[w] /\ sent'[w] = lines[w]
    BY <1>1, <1>2, <1>3 DEF ReadsHold, Movers
  <2>2. ASSUME ~editedLate[w], NEW x \in Place
        PROVE  arrived'[w][x] + back'[w][x] <= sent'[w][x]
    <3>1. /\ arrived'[w][x] = quantity[x] /\ back'[w][x] = 0
          /\ sent'[w][x] = seen[x] /\ quantity[x] \in Nat
      BY <1>2, <1>4, <1>5, <2>1, <2>2 DEF NoLines
    <3> QED BY <1>2, <3>1
  <2> QED BY <1>1, <1>3, <1>4, <2>2, DoneFacts DEF ReadsHold
<1> QED BY <1>1, <1>2, <1>6, <1>7, <1>8, DoneFacts, OthersKeep

LEMMA CancelKeeps ==
    ASSUME TransferInv, NEW r \in Request, Cancel(r),
           NEW w \in Transfer, w = request[r].transfer
    PROVE  /\ CancelsOpen'
           /\ \A t \in Transfer : StatusTells(t)' /\ ReadsHold(t)'
<1> DEFINE seen == request[r].seen
           restored == IF request[r].seenStatus = "SENT" THEN seen ELSE NoLines
<1>1. Done(r) /\ UNCHANGED <<lines, sent, arrived, posted, editedLate>>
  BY DEF Cancel
<1>2. /\ seen \in [Place -> Nat] /\ request[r].step = "cancel"
      /\ status[w] = request[r].seenStatus /\ status[w] \in {"DRAFT", "SENT"}
  BY LinesFacts DEF TransferInv, TypeOK, RequestState, CancelsOpen, Cancel, CancelClaimed,
                    Claimed
<1>3. StatusTells(w) /\ ReadsHold(w)
  BY <1>2 DEF TransferInv
<1>4. /\ status'[w] = "CANCELLED" /\ arrived'[w] = NoLines
      /\ status[w] = "DRAFT" => posted'[w] = 0 /\ reversed'[w] = 0
      /\ status[w] = "SENT" => posted'[w] = 1 /\ reversed'[w] = 1
  BY <1>1, <1>2, <1>3 DEF StatusTells, Cancel, TransferInv, TypeOK
<1>5. back'[w] = restored
  <2>1. restored \in [Place -> Nat]
    BY <1>2, LinesFacts
  <2>2. back'[w] = [x \in Place |-> NoLines[x] + restored[x]]
    BY <1>2, <1>3 DEF StatusTells, Cancel, TransferInv, TypeOK
  <2> QED BY <2>1, <2>2, LinesFacts
<1>6. \A u \in Transfer : u # w => UNCHANGED <<status[u], sent[u], back[u], arrived[u],
                                               posted[u], reversed[u]>>
  BY <1>1, <1>2 DEF Cancel, TransferInv, TypeOK
<1>7. StatusTells(w)'
  BY <1>2, <1>4 DEF StatusTells
<1>8. ReadsHold(w)'
  <2>1. ~editedLate[w] => back'[w] = sent'[w]
    <3>1. CASE status[w] = "DRAFT"
      BY <1>1, <1>2, <1>3, <1>5, <3>1 DEF StatusTells
    <3>2. CASE status[w] = "SENT"
      BY <1>1, <1>2, <1>3, <1>5, <3>2 DEF ReadsHold, Movers
    <3> QED BY <1>2, <3>1, <3>2
  <2>2. ASSUME ~editedLate[w], NEW x \in Place
        PROVE  arrived'[w][x] + back'[w][x] <= sent'[w][x]
    <3>1. back'[w] \in [Place -> Nat]
      BY <1>2, <1>5, LinesFacts
    <3>2. arrived'[w][x] = 0 /\ back'[w][x] = sent'[w][x] /\ back'[w][x] \in Nat
      BY <1>4, <2>1, <2>2, <3>1 DEF NoLines
    <3> QED BY <3>2
  <2> QED BY <1>1, <1>3, <1>4, <2>1, <2>2, DoneFacts DEF ReadsHold
<1> QED BY <1>1, <1>2, <1>6, <1>7, <1>8, DoneFacts, OthersKeep

LEMMA CreateKeeps ==
    ASSUME TransferInv, NEW t \in Transfer, Create(t)
    PROVE  /\ CancelsOpen'
           /\ \A u \in Transfer : StatusTells(u)' /\ ReadsHold(u)'
<1>1. UNCHANGED <<lines, request, sent, back, arrived, posted, reversed, editedLate>>
  BY DEF Create, history
<1>2. \A u \in Transfer : status'[u] = status[u] \/ (status[u] = "NONE" /\ status'[u] = "DRAFT")
  BY DEF Create, TransferInv, TypeOK
<1>3. CancelsOpen'
  BY <1>1 DEF TransferInv, CancelsOpen
<1>4. ASSUME NEW u \in Transfer PROVE StatusTells(u)' /\ ReadsHold(u)'
  <2>1. StatusTells(u) /\ ReadsHold(u)
    BY DEF TransferInv
  <2>2. StatusTells(u)'
    BY <1>1, <1>2, <2>1 DEF StatusTells
  <2>3. ReadsHold(u)'
    BY <1>1, <1>2, <2>1 DEF ReadsHold
  <2> QED BY <2>2, <2>3
<1> QED BY <1>3, <1>4

LEMMA TransferStep == TransferInv /\ [Next]_vars => TransferInv'
<1> SUFFICES ASSUME TransferInv, [Next]_vars PROVE TransferInv'
  OBVIOUS
<1>1. TypeOK'
  BY TransferTypesKept DEF TransferInv
<1>2. ASSUME UNCHANGED <<document, request, history, editedLate>>
      PROVE  /\ CancelsOpen'
             /\ \A t \in Transfer : StatusTells(t)' /\ ReadsHold(t)'
  BY <1>2, ReadingKeeps
<1>3. ASSUME NEW i \in Item, NEW s \in Shop, Sell(i, s)
      PROVE  UNCHANGED <<document, request, history, editedLate>>
  BY <1>3 DEF Sell
<1>4. ASSUME NEW r \in Request,
             \/ UpdateLine(r) \/ CreateLine(r) \/ Send(r) \/ Cancel(r) \/ Reject(r)
             \/ \E quantity \in Lines : Accept(r, quantity)
      PROVE  /\ CancelsOpen'
             /\ \A t \in Transfer : StatusTells(t)' /\ ReadsHold(t)'
  <2>1. PICK w \in Transfer : w = request[r].transfer
    BY DEF TransferInv, TypeOK, RequestState
  <2> QED BY <1>4, <2>1, WriteLineKeeps, SendKeeps, CancelKeeps, RejectKeeps, AcceptKeeps
<1>5. CASE UNCHANGED vars
  BY <1>1, <1>2, <1>5 DEF vars, TransferInv
<1> QED BY <1>1, <1>2, <1>3, <1>4, <1>5, BeginKeeps, CreateKeeps DEF Next, TransferInv

LEMMA TransferInvariant == Spec => []TransferInv
BY TransfersBegin, TransferStep, PTL DEF Spec

-----------------------------------------------------------------------------
\* The states are of their types; no shop goes below zero.
THEOREM TransferTypes == Spec => []TypeOK
<1>1. TransferInv => TypeOK
  BY DEF TransferInv
<1> QED BY <1>1, TransferInvariant, PTL

\* Whatever requests race, the goods of a transfer leave once and then arrive or
\* come back, never both.
THEOREM TransfersEndOnce == Spec => []OneEnding
<1>1. ASSUME TransferInv, NEW t \in Transfer
      PROVE  /\ posted[t] <= 1 /\ reversed[t] <= posted[t]
             /\ arrived[t] # NoLines => status[t] = "ACCEPTED" /\ back[t] = NoLines
             /\ back[t] # NoLines => status[t] = "CANCELLED"
             /\ status[t] \in {"SENT", "ACCEPTED"} => posted[t] = 1 /\ reversed[t] = 0
  BY <1>1 DEF TransferInv, StatusTells, TypeOK, Status
<1>2. TransferInv => OneEnding
  BY <1>1 DEF OneEnding
<1> QED BY <1>2, TransferInvariant, PTL

\* A transfer whose lines were left alone once somebody had read them moves what
\* they say: no more comes out of it than went in, and a cancel returns it all.
THEOREM TransfersConserve == Spec => []ConservedUnlessEditedLate
<1>1. TransferInv => ConservedUnlessEditedLate
  <2> SUFFICES ASSUME TransferInv, NEW t \in Transfer, ~editedLate[t]
               PROVE  /\ \A x \in Place : arrived[t][x] + back[t][x] <= sent[t][x]
                      /\ status[t] = "CANCELLED" => back[t] = sent[t]
    BY DEF ConservedUnlessEditedLate
  <2> QED BY DEF TransferInv, ReadsHold
<1> QED BY <1>1, TransferInvariant, PTL

-----------------------------------------------------------------------------
(* The transfer implements the stock document.                             *)

Phase == [t \in Transfer |-> PhaseOf(t)]

\* A step of one transfer in the terms of the document.
LEMMA PhaseAfter ==
    ASSUME NEW w \in Transfer, NEW s \in Status, status \in [Transfer -> Status],
           status' = [status EXCEPT ![w] = s],
           posted \in [Transfer -> Nat], posted' \in [Transfer -> Nat],
           \A u \in Transfer : u # w => posted'[u] = posted[u]
    PROVE  Phase' = [Phase EXCEPT ![w] =
               CASE s \in {"NONE", "DRAFT"} -> "open"
                 [] s = "SENT" -> "posted"
                 [] s = "ACCEPTED" -> "closed"
                 [] s = "CANCELLED" -> IF posted'[w] > 0 THEN "reversed" ELSE "closed"]
<1>1. \A u \in Transfer : status'[u] = IF u = w THEN s ELSE status[u]
  OBVIOUS
<1>2. \A u \in Transfer : u # w => PhaseOf(u)' = PhaseOf(u)
  BY <1>1 DEF PhaseOf
<1>3. PhaseOf(w)' = CASE s \in {"NONE", "DRAFT"} -> "open"
                      [] s = "SENT" -> "posted"
                      [] s = "ACCEPTED" -> "closed"
                      [] s = "CANCELLED" -> IF posted'[w] > 0 THEN "reversed" ELSE "closed"
  BY <1>1 DEF PhaseOf
<1> QED BY <1>2, <1>3 DEF Phase

LEMMA DocumentStep ==
    TransferInv /\ TypeOK' /\ [Next]_vars => [Document!Next]_<<Phase, posted, reversed>>
<1> SUFFICES ASSUME TransferInv, TypeOK', [Next]_vars
             PROVE  [Document!Next]_<<Phase, posted, reversed>>
  OBVIOUS
<1>1. /\ status \in [Transfer -> Status] /\ posted \in [Transfer -> Nat]
      /\ posted' \in [Transfer -> Nat] /\ reversed \in [Transfer -> Nat]
  BY DEF TransferInv, TypeOK
<1>2. ASSUME UNCHANGED <<status, posted, reversed>>
      PROVE  UNCHANGED <<Phase, posted, reversed>>
  BY <1>2 DEF Phase, PhaseOf
<1>3. ASSUME NEW t \in Transfer, Create(t) PROVE UNCHANGED <<Phase, posted, reversed>>
  <2>1. \A u \in Transfer : PhaseOf(u)' = PhaseOf(u)
    BY <1>1, <1>3 DEF Create, PhaseOf, history
  <2> QED BY <1>3, <2>1 DEF Phase, Create, history
<1>4. ASSUME NEW r \in Request, Send(r) PROVE Document!Next
  <2>1. PICK w \in Transfer : w = request[r].transfer
    BY DEF TransferInv, TypeOK, RequestState
  <2>2. /\ status[w] = "DRAFT" /\ status' = [status EXCEPT ![w] = "SENT"]
        /\ posted' = [posted EXCEPT ![w] = @ + 1] /\ reversed' = reversed
    BY <1>4, <2>1 DEF Send, Claimed
  <2>3. Phase[w] = "open"
    BY <2>2 DEF Phase, PhaseOf
  <2>4. Phase' = [Phase EXCEPT ![w] = "posted"]
    BY <1>1, <2>2, PhaseAfter DEF Status
  <2>5. Document!Post(w)
    BY <2>2, <2>3, <2>4 DEF Document!Post, Phase
  <2> QED BY <2>5 DEF Document!Next
<1>5. ASSUME NEW r \in Request, NEW quantity \in Lines, Accept(r, quantity)
      PROVE  Document!Next
  <2>1. PICK w \in Transfer : w = request[r].transfer
    BY DEF TransferInv, TypeOK, RequestState
  <2>2. /\ status[w] = "SENT" /\ status' = [status EXCEPT ![w] = "ACCEPTED"]
        /\ posted' = posted /\ reversed' = reversed
    BY <1>5, <2>1 DEF Accept, Claimed
  <2>3. Phase[w] = "posted"
    BY <2>2 DEF Phase, PhaseOf
  <2>4. Phase' = [Phase EXCEPT ![w] = "closed"]
    BY <1>1, <2>2, PhaseAfter DEF Status
  <2>5. Document!Close({w})
    BY <2>2, <2>3, <2>4 DEF Document!Close, Phase
  <2> QED BY <2>5 DEF Document!Next
<1>6. ASSUME NEW r \in Request, Cancel(r) PROVE Document!Next
  <2>1. PICK w \in Transfer : w = request[r].transfer
    BY DEF TransferInv, TypeOK, RequestState
  <2>2. /\ status[w] = request[r].seenStatus /\ status[w] \in {"DRAFT", "SENT"}
        /\ status' = [status EXCEPT ![w] = "CANCELLED"] /\ posted' = posted
        /\ reversed' = [reversed EXCEPT ![w] = IF status[w] = "SENT" THEN @ + 1 ELSE @]
    BY <1>6, <2>1 DEF Cancel, CancelClaimed, Claimed, TransferInv, CancelsOpen
  <2>3. StatusTells(w)
    BY DEF TransferInv
  <2>4. Phase' = [Phase EXCEPT ![w] = IF posted[w] > 0 THEN "reversed" ELSE "closed"]
    BY <1>1, <2>2, PhaseAfter DEF Status
  <2>5. CASE status[w] = "DRAFT"
    <3>1. Phase[w] = "open" /\ Phase' = [Phase EXCEPT ![w] = "closed"]
      <4>1. posted[w] = 0 /\ ~(posted[w] > 0)
        BY <2>3, <2>5 DEF StatusTells
      <4>2. Phase[w] = "open"
        BY <2>5 DEF Phase, PhaseOf
      <4> QED BY <2>4, <4>1, <4>2
    <3>2. reversed' = reversed
      BY <1>1, <2>2, <2>5
    <3>3. Document!Close({w})
      BY <2>2, <3>1, <3>2 DEF Document!Close, Phase
    <3> QED BY <3>3 DEF Document!Next
  <2>6. CASE status[w] = "SENT"
    <3>1. Phase[w] = "posted" /\ Phase' = [Phase EXCEPT ![w] = "reversed"]
      <4>1. posted[w] = 1 /\ posted[w] > 0
        BY <2>3, <2>6 DEF StatusTells
      <4>2. Phase[w] = "posted"
        BY <2>6 DEF Phase, PhaseOf
      <4> QED BY <2>4, <4>1, <4>2
    <3>2. reversed' = [reversed EXCEPT ![w] = @ + 1]
      BY <2>2, <2>6
    <3>3. Document!Reverse(w)
      BY <2>2, <3>1, <3>2 DEF Document!Reverse, Phase
    <3> QED BY <3>3 DEF Document!Next
  <2> QED BY <2>2, <2>5, <2>6
<1>7. ASSUME NEW r \in Request, NEW t \in Transfer,
             \/ BeginSend(r, t) \/ BeginAccept(r, t) \/ BeginCancel(r, t)
             \/ \E w \in Place, q \in Quantities : BeginUpsert(r, t, w, q)
      PROVE  UNCHANGED <<Phase, posted, reversed>>
  BY <1>2, <1>7 DEF BeginSend, BeginAccept, BeginCancel, BeginUpsert, Read, document, history
<1>8. ASSUME NEW r \in Request, UpdateLine(r) \/ CreateLine(r) \/ Reject(r)
      PROVE  UNCHANGED <<Phase, posted, reversed>>
  BY <1>2, <1>8 DEF UpdateLine, CreateLine, SetLine, Reject, document, history
<1>9. ASSUME NEW i \in Item, NEW s \in Shop, Sell(i, s)
      PROVE  UNCHANGED <<Phase, posted, reversed>>
  BY <1>2, <1>9 DEF Sell, document, history
<1>10. CASE UNCHANGED vars
  BY <1>2, <1>10 DEF vars, document, history
<1> QED BY <1>3, <1>4, <1>5, <1>6, <1>7, <1>8, <1>9, <1>10 DEF Next

\* Every transfer is posted at most once and reversed at most once, and only when
\* it was posted: it implements the document of docs/architecture.md.
THEOREM TransferIsStockDocument == Spec => IsStockDocument
<1>1. Init => Document!Init
  BY DEF Init, Document!Init, PhaseOf
<1>2. TransferInv /\ TransferInv' /\ [Next]_vars => [Document!Next]_Document!docVars
  BY DocumentStep DEF TransferInv, Phase, Document!docVars
<1> QED BY <1>1, <1>2, TransferInvariant, PTL DEF Spec, IsStockDocument, Document!Spec

-----------------------------------------------------------------------------
SumOfLines == SumOver(orderLine, OrderProduct)
LinesWith(c) == [orderLine EXCEPT ![c.product] = c.value]

\* What a request will write is within the bounds, and a status it has read is one
\* it may change.
Fits(c) ==
    /\ c.op \in LineOps /\ c.step \in {"found", "wrote", "summed"} => c.value <= MaxLine
    /\ c.op \in PaymentOps /\ c.step # "idle" => c.value <= MaxPaid
    /\ c.op \in StatusOps /\ c.step # "idle" => c.seen \in {"DRAFT", "PARKED"}

\* The total a request will store is that of the lines and discount it will leave.
SumHolds(c) ==
    ~c.overtaken =>
        /\ c.op \in LineOps /\ c.step = "summed" =>
              c.sum + order.discount = SumOver(LinesWith(c), OrderProduct)
        /\ c.op = "discount" /\ c.step = "checked" => c.sum + c.value = SumOfLines

TotalHolds == ~stale => order.total + order.discount = SumOfLines

\* What has been completed, and how often.
CompletionsTell ==
    /\ completions <= overwrites + 1
    /\ order.status # "COMPLETED" => completions <= overwrites
    /\ completions = 0 => debt = 0 /\ \A p \in OrderProduct : taken[p] = 0
    /\ order.status = "COMPLETED" /\ completions = 1 /\ ~editedAfter =>
          /\ taken = orderLine
          /\ SumOver(orderPaid, OrderPayment) + debt >= order.total

OrderInv ==
    /\ OrderTypeOK /\ TotalHolds /\ CompletionsTell
    /\ \A r \in Clerk : Fits(clerk[r]) /\ SumHolds(clerk[r])

-----------------------------------------------------------------------------
LEMMA RestFacts ==
    /\ AtRest \in Clerks /\ Fits(AtRest) /\ SumHolds(AtRest)
    /\ AtRest.step = "idle" /\ AtRest.op = "customer" /\ AtRest.overtaken = FALSE
<1>1. /\ (CHOOSE p \in OrderProduct : TRUE) \in OrderProduct
      /\ (CHOOSE y \in OrderPayment : TRUE) \in OrderPayment
  BY OrderAssumption
<1>2. 0 \in Nat
  OBVIOUS
<1>3. AtRest \in Clerks
  BY <1>1, <1>2 DEF AtRest, Clerks, ClerkSteps, OrderOps, OrderStatus, LineOps, PaymentOps,
                    StatusOps
<1>4. AtRest.step = "idle" /\ AtRest.op = "customer" /\ AtRest.overtaken = FALSE
  BY DEF AtRest
<1> QED BY <1>3, <1>4 DEF Fits, SumHolds, LineOps

\* Columns of the order are summed to naturals.
LEMMA ColumnFacts ==
    ASSUME OrderTypeOK
    PROVE  /\ \A p \in OrderProduct : orderLine[p] \in Nat
           /\ \A y \in OrderPayment : orderPaid[y] \in Nat
           /\ SumOfLines \in Nat /\ SumOver(orderPaid, OrderPayment) \in Nat
           /\ \A c \in Clerks : /\ SumOver(LinesWith(c), OrderProduct) \in Nat
                                /\ SumOver([orderPaid EXCEPT ![c.payment] = c.value],
                                           OrderPayment) \in Nat
<1>1. 0 .. MaxLine \subseteq Nat /\ 0 .. MaxPaid \subseteq Nat
  BY OrderAssumption
<1>2. /\ orderLine \in [OrderProduct -> Nat]
      /\ orderPaid \in [OrderPayment -> Nat]
  BY <1>1 DEF OrderTypeOK
<1>3. SumOfLines \in Nat /\ SumOver(orderPaid, OrderPayment) \in Nat
  BY <1>2, SumType, OrderAssumption DEF SumOfLines
<1>4. ASSUME NEW c \in Clerks
      PROVE  /\ SumOver(LinesWith(c), OrderProduct) \in Nat
             /\ SumOver([orderPaid EXCEPT ![c.payment] = c.value], OrderPayment) \in Nat
  <2>1. c.value \in Nat
    BY DEF Clerks
  <2>2. \A p \in OrderProduct : LinesWith(c)[p] \in Int
    BY <1>2, <2>1 DEF LinesWith
  <2>3. \A y \in OrderPayment : [orderPaid EXCEPT ![c.payment] = c.value][y] \in Int
    BY <1>2, <2>1
  <2> QED BY <2>2, <2>3, SumType, OrderAssumption
<1> QED BY <1>2, <1>3, <1>4

LEMMA OrderBegins == OrderInit => OrderInv
<1> SUFFICES ASSUME OrderInit PROVE OrderInv
  OBVIOUS
<1>1. 0 \in Nat /\ 0 \in 0 .. MaxLine /\ 0 \in 0 .. MaxPaid /\ OrderStock \in 0 .. OrderStock
  BY OrderAssumption
<1>2. OrderTypeOK
  <2>1. order \in [status : OrderStatus, total : Nat, discount : Nat, paid : Nat,
                   customer : BOOLEAN]
    BY <1>1 DEF OrderInit, OrderStatus
  <2>2. orderLine \in [OrderProduct -> 0 .. MaxLine] /\ orderPaid \in [OrderPayment -> 0 .. MaxPaid]
    BY <1>1 DEF OrderInit
  <2>3. orderStock \in [OrderProduct -> 0 .. OrderStock] /\ taken \in [OrderProduct -> Nat]
    BY <1>1 DEF OrderInit
  <2>4. clerk \in [Clerk -> Clerks]
    BY RestFacts DEF OrderInit
  <2> QED BY <1>1, <2>1, <2>2, <2>3, <2>4 DEF OrderInit, OrderTypeOK
<1>3. SumOfLines = 0
  <2>1. \A p \in OrderProduct : orderLine[p] = 0
    BY DEF OrderInit
  <2>2. UnitsOf(orderLine, OrderProduct) = {}
    BY <2>1 DEF UnitsOf
  <2> QED BY <2>2, FS_EmptySet DEF SumOfLines, SumOver
<1>4. order.total = 0 /\ order.discount = 0 /\ order.status = "DRAFT"
  BY DEF OrderInit
<1>5. TotalHolds
  BY <1>3, <1>4 DEF TotalHolds
<1>6. CompletionsTell
  BY <1>4 DEF OrderInit, CompletionsTell
<1>7. \A r \in Clerk : Fits(clerk[r]) /\ SumHolds(clerk[r])
  BY RestFacts DEF OrderInit
<1> QED BY <1>2, <1>5, <1>6, <1>7 DEF OrderInv

-----------------------------------------------------------------------------
(* Steps of a request that write nothing yet.                              *)

LEMMA BecomeKeeps ==
    ASSUME OrderInv, NEW r \in Clerk, NEW new \in Clerks, Become(r, new),
           Fits(new), SumHolds(new)
    PROVE  OrderInv'
<1>1. /\ clerk' = [clerk EXCEPT ![r] = new] /\ clerk \in [Clerk -> Clerks]
      /\ UNCHANGED <<order, orderLine, orderPaid, orderStock, taken, debt, completions,
                     overwrites, stale, editedAfter>>
  BY DEF Become, rows, orderHistory, OrderInv, OrderTypeOK
<1>2. OrderTypeOK'
  BY <1>1 DEF OrderInv, OrderTypeOK
<1>3. TotalHolds' /\ CompletionsTell'
  BY <1>1 DEF OrderInv, TotalHolds, CompletionsTell, SumOfLines
<1>4. ASSUME NEW q \in Clerk PROVE Fits(clerk[q])' /\ SumHolds(clerk[q])'
  <2>1. clerk'[q] = IF q = r THEN new ELSE clerk[q]
    BY <1>1
  <2>2. Fits(clerk'[q]) /\ SumHolds(clerk'[q])
    BY <2>1 DEF OrderInv
  <2> QED BY <1>1, <2>2 DEF Fits, SumHolds, SumOfLines, LinesWith
<1> QED BY <1>2, <1>3, <1>4 DEF OrderInv

LEMMA GiveUpKeeps ==
    ASSUME OrderInv, NEW r \in Clerk, GiveUp(r) PROVE OrderInv'
BY RestFacts, BecomeKeeps DEF GiveUp

\* The first check of a request.
LEMMA AskKeeps ==
    ASSUME OrderInv, NEW r \in Clerk,
           \/ \E op \in LineOps, p \in OrderProduct, n \in 0 .. MaxLine : AskLine(r, op, p, n)
           \/ \E op \in PaymentOps, y \in OrderPayment, n \in 0 .. MaxPaid :
                 AskPayment(r, op, y, n)
           \/ \E d \in 0 .. MaxLine : AskDiscount(r, d)
           \/ AskCustomer(r)
           \/ \E op \in StatusOps : ReadStatus(r, op)
    PROVE  OrderInv'
<1> USE RestFacts
<1>1. ASSUME NEW op \in LineOps, NEW p \in OrderProduct, NEW n \in 0 .. MaxLine,
             AskLine(r, op, p, n)
      PROVE  OrderInv'
  <2> DEFINE new == [[AtRest EXCEPT !.op = op, !.product = p, !.value = n]
                        EXCEPT !.step = "checked"]
  <2>1. n \in Nat
    BY OrderAssumption
  <2>2. /\ new \in Clerks /\ new.step = "checked" /\ new.op = op
    BY <2>1 DEF Clerks, OrderOps, ClerkSteps
  <2>3. Become(r, new)
    BY <1>1 DEF AskLine, CheckEditable
  <2>4. Fits(new) /\ SumHolds(new)
    BY <2>2 DEF Fits, SumHolds, LineOps, PaymentOps, StatusOps
  <2> HIDE DEF new
  <2> QED BY <2>2, <2>3, <2>4, BecomeKeeps
<1>2. ASSUME NEW op \in PaymentOps, NEW y \in OrderPayment, NEW n \in 0 .. MaxPaid,
             AskPayment(r, op, y, n)
      PROVE  OrderInv'
  <2> DEFINE new == [[AtRest EXCEPT !.op = op, !.payment = y, !.value = n]
                        EXCEPT !.step = "checked"]
  <2>1. n \in Nat /\ n <= MaxPaid
    BY OrderAssumption
  <2>2. new \in Clerks /\ new.step = "checked" /\ new.op = op /\ new.value = n
    BY <2>1 DEF Clerks, OrderOps, ClerkSteps
  <2>3. Become(r, new)
    BY <1>2 DEF AskPayment, CheckEditable
  <2>4. Fits(new) /\ SumHolds(new)
    BY <2>1, <2>2 DEF Fits, SumHolds, LineOps, PaymentOps, StatusOps
  <2> HIDE DEF new
  <2> QED BY <2>2, <2>3, <2>4, BecomeKeeps
<1>3. ASSUME NEW d \in 0 .. MaxLine, AskDiscount(r, d) PROVE OrderInv'
  <2> DEFINE new == [[AtRest EXCEPT !.op = "discount", !.value = d, !.sum = SumOfLines - d]
                        EXCEPT !.step = "checked"]
  <2>1. d \in Nat /\ SumOfLines \in Nat /\ d <= SumOfLines
    <3>1. d \in Nat
      BY OrderAssumption
    <3>2. SumOfLines \in Nat
      BY ColumnFacts DEF OrderInv
    <3> QED BY <1>3, <3>1, <3>2 DEF AskDiscount, SumOfLines
  <2>2. SumOfLines - d \in Nat /\ (SumOfLines - d) + d = SumOfLines
    BY <2>1
  <2>3. /\ new \in Clerks /\ new.step = "checked" /\ new.op = "discount" /\ new.value = d
        /\ new.sum = SumOfLines - d
    BY <2>1, <2>2 DEF Clerks, OrderOps, ClerkSteps
  <2>4. Become(r, new)
    BY <1>3 DEF AskDiscount, CheckEditable, SumOfLines
  <2>5. Fits(new) /\ SumHolds(new)
    BY <2>2, <2>3 DEF Fits, SumHolds, LineOps, PaymentOps, StatusOps
  <2> HIDE DEF new
  <2> QED BY <2>3, <2>4, <2>5, BecomeKeeps
<1>4. CASE AskCustomer(r)
  <2> DEFINE new == [[AtRest EXCEPT !.op = "customer"] EXCEPT !.step = "checked"]
  <2>1. new \in Clerks /\ new.step = "checked" /\ new.op = "customer"
    BY DEF Clerks, OrderOps, ClerkSteps
  <2>2. Become(r, new)
    BY <1>4 DEF AskCustomer, CheckEditable
  <2>3. Fits(new) /\ SumHolds(new)
    BY <2>1 DEF Fits, SumHolds, LineOps, PaymentOps, StatusOps
  <2> HIDE DEF new
  <2> QED BY <2>1, <2>2, <2>3, BecomeKeeps
<1>5. ASSUME NEW op \in StatusOps, ReadStatus(r, op) PROVE OrderInv'
  <2> DEFINE new == [AtRest EXCEPT !.step = "checked", !.op = op, !.seen = order.status]
  <2>1. order.status \in OrderStatus /\ order.status \in {"DRAFT", "PARKED"}
    BY <1>5 DEF OrderInv, OrderTypeOK, ReadStatus, ReadableBy, StatusOps
  <2>2. /\ new \in Clerks /\ new.step = "checked" /\ new.op = op
        /\ new.seen = order.status
    BY <2>1 DEF Clerks, OrderOps, ClerkSteps
  <2>3. Become(r, new)
    BY <1>5 DEF ReadStatus
  <2>4. Fits(new) /\ SumHolds(new)
    BY <2>1, <2>2 DEF Fits, SumHolds, LineOps, PaymentOps, StatusOps
  <2> HIDE DEF new
  <2> QED BY <2>2, <2>3, <2>4, BecomeKeeps
<1> QED BY <1>1, <1>2, <1>3, <1>4, <1>5

\* The steps in between: look up, write, sum.
LEMMA WorkKeeps ==
    ASSUME OrderInv, NEW r \in Clerk,
           \/ FindLine(r) \/ WriteOrderLine(r) \/ SumLines(r)
           \/ WritePayment(r) \/ SumPaid(r)
    PROVE  OrderInv'
<1> DEFINE c == clerk[r]
<1>1. c \in Clerks /\ Fits(c) /\ SumHolds(c) /\ OrderTypeOK
  BY DEF OrderInv, OrderTypeOK
<1>2. CASE FindLine(r)
  <2> DEFINE n == IF c.op = "addItem" THEN orderLine[c.product] + c.value ELSE c.value
             there == orderLine[c.product] > 0
             new == [c EXCEPT !.step = "found", !.value = n, !.existed = there]
  <2>1. n \in Nat /\ n <= MaxLine /\ c.op \in LineOps
    <3>1. orderLine[c.product] \in Nat /\ c.value \in Nat
      BY <1>1, ColumnFacts DEF Clerks
    <3> QED BY <1>2, <3>1 DEF FindLine, StepOf
  <2>2. there \in BOOLEAN
    OBVIOUS
  <2>3. GiveUp(r) \/ Become(r, new)
    BY <1>2 DEF FindLine
  <2> HIDE DEF n, there
  <2>4. new \in Clerks /\ new.step = "found" /\ new.op = c.op /\ new.value = n
    BY <1>1, <2>1, <2>2 DEF Clerks, ClerkSteps
  <2>5. Fits(new) /\ SumHolds(new)
    BY <2>1, <2>4 DEF Fits, SumHolds, LineOps, PaymentOps, StatusOps
  <2> HIDE DEF new
  <2> QED BY <2>3, <2>4, <2>5, GiveUpKeeps, BecomeKeeps
<1>3. CASE WriteOrderLine(r)
  <2> DEFINE new == [c EXCEPT !.step = "wrote"]
  <2>1. c.op \in LineOps /\ c.step = "found"
    BY <1>3 DEF WriteOrderLine, StepOf
  <2>2. new \in Clerks /\ new.step = "wrote" /\ new.op = c.op /\ new.value = c.value
    BY <1>1 DEF Clerks, ClerkSteps
  <2>3. Fits(new) /\ SumHolds(new)
    BY <1>1, <2>1, <2>2 DEF Fits, SumHolds, LineOps, PaymentOps, StatusOps
  <2>4. GiveUp(r) \/ Become(r, new)
    BY <1>3 DEF WriteOrderLine
  <2> HIDE DEF new
  <2> QED BY <2>2, <2>3, <2>4, GiveUpKeeps, BecomeKeeps
<1>4. CASE SumLines(r)
  <2> DEFINE total == SumOver(LinesWith(c), OrderProduct)
             new == [c EXCEPT !.step = "summed", !.sum = total - order.discount]
  <2>1. c.op \in LineOps /\ c.step = "wrote"
    BY <1>4 DEF SumLines, StepOf
  <2>2. GiveUp(r) \/ (Become(r, new) /\ ~(order.discount > total))
    BY <1>4 DEF SumLines, LinesWith
  <2>3. total \in Nat /\ order.discount \in Nat
    BY <1>1, ColumnFacts DEF OrderTypeOK
  <2>4. ASSUME ~(order.discount > total), Become(r, new) PROVE OrderInv'
    <3>1. total - order.discount \in Nat /\ (total - order.discount) + order.discount = total
      BY <2>3, <2>4
    <3>2. /\ new \in Clerks /\ new.step = "summed" /\ new.op = c.op /\ new.value = c.value
          /\ new.sum = total - order.discount /\ new.product = c.product
      BY <1>1, <3>1 DEF Clerks, ClerkSteps
    <3>3. Fits(new)
      BY <1>1, <2>1, <3>2 DEF Fits, LineOps, PaymentOps, StatusOps
    <3>4. SumHolds(new)
      <4>1. SumOver(LinesWith(new), OrderProduct) = total
        BY <3>2 DEF LinesWith
      <4> QED BY <2>1, <3>1, <3>2, <4>1 DEF SumHolds
    <3> HIDE DEF new
    <3> QED BY <2>4, <3>2, <3>3, <3>4, BecomeKeeps
  <2> QED BY <2>2, <2>4, GiveUpKeeps
<1>5. CASE WritePayment(r)
  <2> DEFINE new == [c EXCEPT !.step = "wrote"]
  <2>1. c.op \in PaymentOps /\ c.step = "checked"
    BY <1>5 DEF WritePayment, StepOf
  <2>2. new \in Clerks /\ new.step = "wrote" /\ new.op = c.op /\ new.value = c.value
    BY <1>1 DEF Clerks, ClerkSteps
  <2>3. Fits(new) /\ SumHolds(new)
    BY <1>1, <2>1, <2>2 DEF Fits, SumHolds, LineOps, PaymentOps, StatusOps
  <2>4. GiveUp(r) \/ Become(r, new)
    BY <1>5 DEF WritePayment
  <2> HIDE DEF new
  <2> QED BY <2>2, <2>3, <2>4, GiveUpKeeps, BecomeKeeps
<1>6. CASE SumPaid(r)
  <2> DEFINE sum == SumOver([orderPaid EXCEPT ![c.payment] = c.value], OrderPayment)
             new == [c EXCEPT !.step = "summed", !.sum = sum]
  <2>1. c.op \in PaymentOps /\ c.step = "wrote" /\ Become(r, new)
    BY <1>6 DEF SumPaid, StepOf
  <2>2. sum \in Nat
    BY <1>1, ColumnFacts
  <2>3. new \in Clerks /\ new.step = "summed" /\ new.op = c.op /\ new.value = c.value
    BY <1>1, <2>2 DEF Clerks, ClerkSteps
  <2>4. Fits(new) /\ SumHolds(new)
    BY <1>1, <2>1, <2>3 DEF Fits, SumHolds, LineOps, PaymentOps, StatusOps
  <2> HIDE DEF new
  <2> QED BY <2>1, <2>3, <2>4, BecomeKeeps
<1> QED BY <1>2, <1>3, <1>4, <1>5, <1>6

-----------------------------------------------------------------------------
(* Steps that write the order.                                             *)

\* A commit: the others that have summed are overtaken.
LEMMA CommitFacts ==
    ASSUME OrderInv, NEW r \in Clerk, Commit(r)
    PROVE  /\ clerk' \in [Clerk -> Clerks]
           /\ \A q \in Clerk :
                /\ Fits(clerk'[q])
                /\ clerk'[q].op \in LineOps /\ clerk'[q].step = "summed" => clerk'[q].overtaken
                /\ clerk'[q].op = "discount" /\ clerk'[q].step = "checked" =>
                      clerk'[q].overtaken
<1> DEFINE late(q) == clerk[q].overtaken \/ clerk[q].step = "summed"
                        \/ (clerk[q].step = "checked" /\ clerk[q].op = "discount")
<1>1. \A q \in Clerk : clerk[q] \in Clerks /\ Fits(clerk[q])
  BY DEF OrderInv, OrderTypeOK
<1>2. \A q \in Clerk : clerk'[q] = IF q = r THEN AtRest
                                    ELSE [clerk[q] EXCEPT !.overtaken = late(q)]
  BY DEF Commit
<1>3. ASSUME NEW q \in Clerk, q # r
      PROVE  /\ clerk'[q] \in Clerks /\ clerk'[q].op = clerk[q].op
             /\ clerk'[q].step = clerk[q].step /\ clerk'[q].value = clerk[q].value
             /\ clerk'[q].seen = clerk[q].seen
             /\ clerk'[q].overtaken = late(q)
  <2>1. late(q) \in BOOLEAN
    BY <1>1 DEF Clerks
  <2>2. clerk'[q] = [clerk[q] EXCEPT !.overtaken = late(q)]
    BY <1>2, <1>3
  <2> HIDE DEF late
  <2> QED BY <1>1, <2>1, <2>2 DEF Clerks
<1>4. ASSUME NEW q \in Clerk
      PROVE  /\ clerk'[q] \in Clerks /\ Fits(clerk'[q])
             /\ clerk'[q].op \in LineOps /\ clerk'[q].step = "summed" => clerk'[q].overtaken
             /\ clerk'[q].op = "discount" /\ clerk'[q].step = "checked" =>
                   clerk'[q].overtaken
  <2>1. CASE q = r
    <3>1. clerk'[q] = AtRest
      BY <1>2, <2>1
    <3> QED BY <3>1, RestFacts
  <2>2. CASE q # r
    BY <1>1, <1>3, <2>2 DEF Fits
  <2> QED BY <2>1, <2>2
<1>5. clerk' = [q \in Clerk |-> clerk'[q]]
  BY DEF Commit
<1>6. clerk' \in [Clerk -> Clerks]
  BY <1>4, <1>5
<1> QED BY <1>4, <1>6

\* What is stored adds up when nothing has overtaken the request, and a completed
\* order that is written is marked.
LEMMA StoringKeeps ==
    ASSUME OrderInv, NEW r \in Clerk, Commit(r), Late, OrderTypeOK',
           UNCHANGED <<orderPaid, taken, debt, completions, overwrites>>,
           order'.status = order.status, stale' = clerk[r].overtaken,
           ~clerk[r].overtaken => order'.total + order'.discount = SumOfLines'
    PROVE  OrderInv'
<1>1. TotalHolds'
  BY DEF TotalHolds
<1>2. CompletionsTell'
  <2>1. editedAfter' = (editedAfter \/ order.status = "COMPLETED")
    BY DEF Late
  <2> QED BY <2>1 DEF OrderInv, CompletionsTell
<1>3. \A q \in Clerk : Fits(clerk[q])' /\ SumHolds(clerk[q])'
  BY CommitFacts DEF SumHolds, Fits
<1> QED BY <1>1, <1>2, <1>3 DEF OrderInv

LEMMA CommitLineKeeps == ASSUME OrderInv, NEW r \in Clerk, CommitLine(r) PROVE OrderInv'
<1> DEFINE c == clerk[r]
<1>1. /\ c \in Clerks /\ Fits(c) /\ SumHolds(c) /\ OrderTypeOK
      /\ c.op \in LineOps /\ c.step = "summed"
  BY DEF OrderInv, OrderTypeOK, CommitLine, StepOf
<1>2. /\ orderLine' = LinesWith(c) /\ order' = [order EXCEPT !.total = c.sum]
      /\ stale' = c.overtaken /\ Late /\ Commit(r)
      /\ UNCHANGED <<orderPaid, orderStock, taken, debt, completions, overwrites>>
  BY DEF CommitLine, LinesWith
<1>3. c.sum \in Nat /\ c.value \in 0 .. MaxLine /\ c.overtaken \in BOOLEAN
  BY <1>1, OrderAssumption DEF Clerks, Fits
<1>4. order' \in [status : OrderStatus, total : Nat, discount : Nat, paid : Nat,
                  customer : BOOLEAN]
      /\ order'.total = c.sum /\ order'.discount = order.discount
      /\ order'.status = order.status
  BY <1>1, <1>2, <1>3 DEF OrderTypeOK
<1>5. OrderTypeOK'
  <2>1. orderLine' \in [OrderProduct -> 0 .. MaxLine]
    BY <1>1, <1>2, <1>3 DEF OrderTypeOK, LinesWith
  <2>2. editedAfter' \in BOOLEAN
    BY <1>1, <1>2 DEF Late, OrderTypeOK
  <2> QED BY <1>1, <1>2, <1>3, <1>4, <2>1, <2>2, CommitFacts DEF OrderTypeOK
<1>6. ~c.overtaken => order'.total + order'.discount = SumOfLines'
  BY <1>1, <1>2, <1>4 DEF SumHolds, SumOfLines
<1> QED BY <1>2, <1>4, <1>5, <1>6, StoringKeeps

LEMMA CommitDiscountKeeps ==
    ASSUME OrderInv, NEW r \in Clerk, CommitDiscount(r) PROVE OrderInv'
<1> DEFINE c == clerk[r]
<1>1. /\ c \in Clerks /\ SumHolds(c) /\ OrderTypeOK
      /\ c.op = "discount" /\ c.step = "checked"
  BY DEF OrderInv, OrderTypeOK, CommitDiscount, StepOf
<1>2. /\ order' = [order EXCEPT !.discount = c.value, !.total = c.sum]
      /\ stale' = c.overtaken /\ Late /\ Commit(r)
      /\ UNCHANGED <<orderLine, orderPaid, orderStock, taken, debt, completions, overwrites>>
  BY DEF CommitDiscount
<1>3. c.sum \in Nat /\ c.value \in Nat /\ c.overtaken \in BOOLEAN
  BY <1>1 DEF Clerks
<1>4. order' \in [status : OrderStatus, total : Nat, discount : Nat, paid : Nat,
                  customer : BOOLEAN]
      /\ order'.total = c.sum /\ order'.discount = c.value
      /\ order'.status = order.status
  BY <1>1, <1>2, <1>3 DEF OrderTypeOK
<1>5. OrderTypeOK'
  <2>1. editedAfter' \in BOOLEAN
    BY <1>1, <1>2 DEF Late, OrderTypeOK
  <2> QED BY <1>1, <1>2, <1>3, <1>4, <2>1, CommitFacts DEF OrderTypeOK
<1>6. ~c.overtaken => order'.total + order'.discount = SumOfLines'
  BY <1>1, <1>2, <1>4 DEF SumHolds, SumOfLines
<1> QED BY <1>2, <1>4, <1>5, <1>6, StoringKeeps

\* A request that ends without storing a total leaves the sums of the others alone.
LEMMA RestingKeeps ==
    ASSUME OrderInv, NEW r \in Clerk, clerk' = [clerk EXCEPT ![r] = AtRest],
           UNCHANGED <<orderLine, stale>>,
           order'.total = order.total, order'.discount = order.discount
    PROVE  /\ clerk' \in [Clerk -> Clerks] /\ TotalHolds'
           /\ \A q \in Clerk : Fits(clerk[q])' /\ SumHolds(clerk[q])'
<1>1. clerk \in [Clerk -> Clerks]
  BY DEF OrderInv, OrderTypeOK
<1>2. clerk' \in [Clerk -> Clerks]
  BY <1>1, RestFacts
<1>3. TotalHolds'
  BY DEF OrderInv, TotalHolds, SumOfLines
<1>4. ASSUME NEW q \in Clerk PROVE Fits(clerk[q])' /\ SumHolds(clerk[q])'
  <2>1. clerk'[q] = IF q = r THEN AtRest ELSE clerk[q]
    BY <1>1
  <2>2. Fits(clerk'[q]) /\ SumHolds(clerk'[q])
    BY <2>1, RestFacts DEF OrderInv
  <2> QED BY <2>2 DEF Fits, SumHolds, SumOfLines, LinesWith
<1> QED BY <1>2, <1>3, <1>4

LEMMA CommitPaymentKeeps ==
    ASSUME OrderInv, NEW r \in Clerk, CommitPayment(r) PROVE OrderInv'
<1> DEFINE c == clerk[r]
<1>1. c \in Clerks /\ Fits(c) /\ OrderTypeOK /\ c.op \in PaymentOps /\ c.step = "summed"
  BY DEF OrderInv, OrderTypeOK, CommitPayment, StepOf
<1>2. /\ orderPaid' = [orderPaid EXCEPT ![c.payment] = c.value]
      /\ order' = [order EXCEPT !.paid = c.sum]
      /\ clerk' = [clerk EXCEPT ![r] = AtRest]
      /\ editedAfter' = (editedAfter \/ order.status = "COMPLETED")
      /\ UNCHANGED <<orderLine, orderStock, taken, debt, completions, overwrites, stale>>
  BY DEF CommitPayment, Late
<1>3. c.sum \in Nat /\ c.value \in 0 .. MaxPaid
  BY <1>1, OrderAssumption DEF Clerks, Fits
<1>4. /\ order' \in [status : OrderStatus, total : Nat, discount : Nat, paid : Nat,
                     customer : BOOLEAN]
      /\ order'.total = order.total /\ order'.discount = order.discount
      /\ order'.status = order.status
  BY <1>1, <1>2, <1>3 DEF OrderTypeOK
<1>5. OrderTypeOK'
  <2>1. orderPaid' \in [OrderPayment -> 0 .. MaxPaid]
    BY <1>1, <1>2, <1>3 DEF OrderTypeOK
  <2>2. editedAfter' \in BOOLEAN
    BY <1>1, <1>2 DEF OrderTypeOK
  <2> QED BY <1>1, <1>2, <1>4, <2>1, <2>2, RestingKeeps DEF OrderTypeOK
<1>6. CompletionsTell'
  BY <1>2, <1>4 DEF OrderInv, CompletionsTell
<1> QED BY <1>2, <1>4, <1>5, <1>6, RestingKeeps DEF OrderInv

LEMMA CommitCustomerKeeps ==
    ASSUME OrderInv, NEW r \in Clerk, CommitCustomer(r) PROVE OrderInv'
<1>1. OrderTypeOK
  BY DEF OrderInv
<1>2. /\ order' = [order EXCEPT !.customer = TRUE]
      /\ clerk' = [clerk EXCEPT ![r] = AtRest]
      /\ editedAfter' = (editedAfter \/ order.status = "COMPLETED")
      /\ UNCHANGED <<orderLine, orderPaid, orderStock, taken, debt, completions, overwrites,
                     stale>>
  BY DEF CommitCustomer, Late
<1>3. /\ order' \in [status : OrderStatus, total : Nat, discount : Nat, paid : Nat,
                     customer : BOOLEAN]
      /\ order'.total = order.total /\ order'.discount = order.discount
      /\ order'.status = order.status
  BY <1>1, <1>2 DEF OrderTypeOK
<1>4. OrderTypeOK'
  <2>1. editedAfter' \in BOOLEAN
    BY <1>1, <1>2 DEF OrderTypeOK
  <2> QED BY <1>1, <1>2, <1>3, <2>1, RestingKeeps DEF OrderTypeOK
<1>5. CompletionsTell'
  BY <1>2, <1>3 DEF OrderInv, CompletionsTell
<1> QED BY <1>2, <1>3, <1>4, <1>5, RestingKeeps DEF OrderInv

LEMMA OneMore == ASSUME NEW n \in Nat, NEW m \in Nat, n <= m PROVE n <= m + 1
OBVIOUS

\* A status that was not the one read is counted, so no completion is forgotten.
LEMMA WriteStatusKeeps ==
    ASSUME OrderInv, NEW r \in Clerk, WriteStatus(r) PROVE OrderInv'
<1> DEFINE c == clerk[r]
           new == StatusAfter(c.op)
<1>1. /\ c \in Clerks /\ OrderTypeOK /\ c.op \in StatusOps
      /\ c.seen \in {"DRAFT", "PARKED"}
  BY DEF OrderInv, OrderTypeOK, WriteStatus, StepOf, Fits
<1>2. /\ order' = [order EXCEPT !.status = new]
      /\ overwrites' = IF order.status # c.seen THEN overwrites + 1 ELSE overwrites
      /\ clerk' = [clerk EXCEPT ![r] = AtRest]
      /\ UNCHANGED <<orderLine, orderPaid, orderStock, taken, debt, completions, stale,
                     editedAfter>>
  BY DEF WriteStatus
<1>3. new \in OrderStatus /\ new # "COMPLETED"
  BY <1>1 DEF StatusOps, StatusAfter, OrderStatus
<1> HIDE DEF new
<1>4. /\ order' \in [status : OrderStatus, total : Nat, discount : Nat, paid : Nat,
                     customer : BOOLEAN]
      /\ order'.total = order.total /\ order'.discount = order.discount
      /\ order'.status = new
  BY <1>1, <1>2, <1>3 DEF OrderTypeOK
<1>5. overwrites' \in Nat
  BY <1>1, <1>2 DEF OrderTypeOK
<1>6. OrderTypeOK'
  BY <1>1, <1>2, <1>4, <1>5, RestingKeeps DEF OrderTypeOK
<1>7. CompletionsTell'
  <2>1. completions' <= overwrites'
    <3>1. completions \in Nat /\ overwrites \in Nat
      BY <1>1 DEF OrderTypeOK
    <3>2. /\ completions <= overwrites + 1
          /\ order.status # "COMPLETED" => completions <= overwrites
      BY DEF OrderInv, CompletionsTell
    <3>3. order.status = "COMPLETED" => overwrites' = overwrites + 1
      BY <1>1, <1>2
    <3> QED BY <1>2, <1>5, <3>1, <3>2, <3>3
  <2>2. order'.status # "COMPLETED"
    BY <1>3, <1>4
  <2>3. completions' = 0 => debt' = 0 /\ \A p \in OrderProduct : taken'[p] = 0
    BY <1>2 DEF OrderInv, CompletionsTell
  <2>4. completions' \in Nat /\ overwrites' \in Nat
    BY <1>2, <1>5, <1>1 DEF OrderTypeOK
  <2>5. completions' <= overwrites' + 1
    BY <2>1, <2>4, OneMore
  <2> QED BY <2>1, <2>2, <2>3, <2>5, Zenon DEF CompletionsTell
<1> QED BY <1>2, <1>4, <1>6, <1>7, RestingKeeps DEF OrderInv

\* The completion takes what the lines say and charges what is not paid.
LEMMA CompleteKeeps ==
    ASSUME OrderInv, NEW allowDebt \in BOOLEAN, Complete(allowDebt) PROVE OrderInv'
<1> DEFINE paid == SumOver(orderPaid, OrderPayment)
           owed == IF order.total > paid THEN order.total - paid ELSE 0
<1>1. /\ OrderTypeOK /\ paid \in Nat /\ order.total \in Nat
      /\ \A p \in OrderProduct : orderLine[p] \in Nat
  BY ColumnFacts DEF OrderInv, OrderTypeOK
<1>2. /\ order.status = "DRAFT" /\ InShop
      /\ orderStock' = [p \in OrderProduct |-> orderStock[p] - orderLine[p]]
      /\ order' = [order EXCEPT !.status = "COMPLETED", !.paid = paid]
      /\ taken' = [p \in OrderProduct |-> taken[p] + orderLine[p]]
      /\ debt' = debt + owed /\ completions' = completions + 1
      /\ UNCHANGED <<orderLine, orderPaid, clerk, overwrites, stale, editedAfter>>
  BY DEF Complete, CompleteFrom
<1>3. owed \in Nat /\ paid + owed >= order.total
  BY <1>1
<1> HIDE DEF paid, owed
<1>4. /\ order' \in [status : OrderStatus, total : Nat, discount : Nat, paid : Nat,
                     customer : BOOLEAN]
      /\ order'.total = order.total /\ order'.discount = order.discount
      /\ order'.status = "COMPLETED"
  BY <1>1, <1>2 DEF OrderTypeOK, OrderStatus
<1>5. OrderTypeOK'
  <2>1. orderStock' \in [OrderProduct -> 0 .. OrderStock]
    <3>1. ASSUME NEW p \in OrderProduct
          PROVE  orderStock[p] - orderLine[p] \in 0 .. OrderStock
      <4>1. orderStock[p] \in 0 .. OrderStock /\ orderLine[p] \in Nat
        BY <1>1 DEF OrderTypeOK
      <4>2. orderLine[p] <= orderStock[p]
        BY <1>2 DEF InShop
      <4> QED BY <4>1, <4>2, OrderAssumption
    <3> QED BY <1>2, <3>1
  <2>2. taken' \in [OrderProduct -> Nat]
    BY <1>1, <1>2 DEF OrderTypeOK
  <2>3. debt' \in Nat /\ completions' \in Nat
    BY <1>1, <1>2, <1>3 DEF OrderTypeOK
  <2> QED BY <1>1, <1>2, <1>4, <2>1, <2>2, <2>3 DEF OrderTypeOK
<1>6. TotalHolds'
  BY <1>2, <1>4 DEF OrderInv, TotalHolds, SumOfLines
<1>7. ASSUME NEW q \in Clerk PROVE Fits(clerk[q])' /\ SumHolds(clerk[q])'
  <2>1. Fits(clerk[q]) /\ SumHolds(clerk[q])
    BY DEF OrderInv
  <2> QED BY <1>2, <1>4, <2>1 DEF Fits, SumHolds, SumOfLines, LinesWith
<1>8. CompletionsTell'
  <2>1. completions \in Nat /\ overwrites \in Nat /\ completions <= overwrites
    BY <1>1, <1>2 DEF OrderInv, OrderTypeOK, CompletionsTell
  <2>2. completions' <= overwrites' + 1
    BY <1>2, <2>1
  <2>3. ASSUME completions' = 1
        PROVE  taken' = orderLine' /\ SumOver(orderPaid', OrderPayment) + debt' >= order'.total
    <3>1. debt = 0 /\ \A p \in OrderProduct : taken[p] = 0
      BY <1>2, <2>1, <2>3 DEF OrderInv, CompletionsTell
    <3>2. taken' = orderLine
      <4>1. \A p \in OrderProduct : taken[p] + orderLine[p] = orderLine[p]
        BY <1>1, <3>1
      <4>2. orderLine = [p \in OrderProduct |-> orderLine[p]]
        BY <1>1 DEF OrderTypeOK
      <4> QED BY <1>2, <4>1, <4>2
    <3>3. paid + debt' >= order.total
      BY <1>1, <1>2, <1>3, <3>1
    <3> QED BY <1>2, <1>4, <3>2, <3>3 DEF paid
  <2>4. completions' # 0
    BY <1>2, <2>1
  <2> QED BY <1>4, <2>2, <2>3, <2>4 DEF CompletionsTell
<1> QED BY <1>5, <1>6, <1>7, <1>8 DEF OrderInv

-----------------------------------------------------------------------------
LEMMA OrderStep == OrderInv /\ [OrderNext]_orderVars => OrderInv'
<1> SUFFICES ASSUME OrderInv, [OrderNext]_orderVars PROVE OrderInv'
  OBVIOUS
<1>1. CASE UNCHANGED orderVars
  BY <1>1 DEF orderVars, rows, orderHistory, OrderInv, OrderTypeOK, TotalHolds,
              CompletionsTell, Fits, SumHolds, SumOfLines, LinesWith
<1>2. CASE \E allowDebt \in BOOLEAN : Complete(allowDebt)
  BY <1>2, CompleteKeeps
<1>3. ASSUME NEW r \in Clerk,
             \/ \E op \in LineOps, p \in OrderProduct, n \in 0 .. MaxLine : AskLine(r, op, p, n)
             \/ \E op \in PaymentOps, y \in OrderPayment, n \in 0 .. MaxPaid :
                   AskPayment(r, op, y, n)
             \/ \E d \in 0 .. MaxLine : AskDiscount(r, d)
             \/ AskCustomer(r)
             \/ FindLine(r) \/ WriteOrderLine(r) \/ SumLines(r) \/ CommitLine(r)
             \/ WritePayment(r) \/ SumPaid(r) \/ CommitPayment(r)
             \/ CommitDiscount(r) \/ CommitCustomer(r)
             \/ \E op \in StatusOps : ReadStatus(r, op)
             \/ WriteStatus(r)
      PROVE  OrderInv'
  BY <1>3, AskKeeps, WorkKeeps, CommitLineKeeps, CommitPaymentKeeps, CommitDiscountKeeps,
     CommitCustomerKeeps, WriteStatusKeeps
<1> QED BY <1>1, <1>2, <1>3 DEF OrderNext

\* What the requests of the clerks hold stays true of the order, whatever they do.
THEOREM OrderInvariant == OrderSpec => []OrderInv
<1> QED BY OrderBegins, OrderStep, PTL DEF OrderSpec

\* Every column of an order keeps its type; the stock of the shop never goes below
\* zero and never above what it started with.
THEOREM OrderTypes == OrderSpec => []OrderTypeOK
<1>1. OrderInv => OrderTypeOK
  BY DEF OrderInv
<1> QED BY <1>1, OrderInvariant, PTL

\* An order is completed once, unless a park, resume or cancel wrote over a status
\* it had not read (modules/orders/orders.service.ts:649).
THEOREM OrderCompletedOnce == OrderSpec => []CompletedOnce
<1>1. OrderInv => CompletedOnce
  BY DEF OrderInv, OrderTypeOK, CompletionsTell, CompletedOnce
<1> QED BY <1>1, OrderInvariant, PTL

\* The stored total is that of the lines less the discount unless a recalculation was
\* overtaken; a completed order took what its lines say and is paid or owed in full.
THEOREM OrdersAddUp == OrderSpec => []OrderAddsUp
<1>1. OrderInv => OrderAddsUp
  BY DEF OrderInv, TotalHolds, CompletionsTell, SumOfLines, OrderAddsUp
<1> QED BY <1>1, OrderInvariant, PTL

-----------------------------------------------------------------------------
(* Both documents keep the types of their rows and requests. *)
THEOREM DocumentsTypes == DocumentsSpec => []DocumentsTypeOK
<1>1. DocumentsInit => TransferInv /\ OrderInv
  BY TransfersBegin, OrderBegins DEF DocumentsInit
<1>2. TransferInv /\ OrderInv /\ [DocumentsNext]_documentVars => TransferInv' /\ OrderInv'
  BY TransferStep, OrderStep DEF DocumentsNext, documentVars
<1>3. TransferInv /\ OrderInv => DocumentsTypeOK
  BY DEF DocumentsTypeOK, TransferInv, OrderInv
<1> QED BY <1>1, <1>2, <1>3, PTL DEF DocumentsSpec

=============================================================================
