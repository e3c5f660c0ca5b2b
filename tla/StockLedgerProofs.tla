-------------------------- MODULE StockLedgerProofs --------------------------
(***************************************************************************)
(* The two halves of a product are sound for any products, variants,       *)
(* shops, cards, codes, editors, threshold and bounds.                     *)
(*                                                                         *)
(* The stock ledger: NeverNegative is not inductive, for a catalogue edit  *)
(* commits what it has computed several steps earlier.  What makes the     *)
(* commit safe is the row locks: an uncommitted change holds the rows it   *)
(* changes (PendingLocked), and no two edits hold the same row             *)
(* (EditorsApart).  The exact total is safe by the same locks: an edit     *)
(* that has moved stock holds its product's row from then on, so what it   *)
(* has summed stays the sum of what the others see (SumHolds).             *)
(*                                                                         *)
(* The catalogue: a scan finds one product because the codes of base       *)
(* variants and of rows never meet (CodesApart) and a card has the code of *)
(* its base variant (BasesFollow).  Goods stay in sight because those on a *)
(* row that a form is about to switch off came after its check             *)
(* (DropsExcused).                                                         *)
(***************************************************************************)
EXTENDS MCStockLedger, TotalsTheorems, WellFoundedInduction

VariantOf(e) == DefaultVariant[editor[e].product]

\* No row is locked by two edits.
EditorsApart ==
    \A e, f \in Editor : e # f => editor[e].locks \cap editor[f].locks = {}

\* An uncommitted change holds its rows and would leave a quantity >= 0.
PendingLocked ==
    \A e \in Editor, s \in Shop :
        editor[e].pending[s] # 0 =>
            /\ LedgerRows(VariantOf(e), s) \subseteq editor[e].locks
            /\ variantStock[VariantOf(e)][s] + editor[e].pending[s] >= 0

\* Outside its transaction an edit holds nothing.
RestingClean ==
    \A e \in Editor : editor[e].stage \in {"idle", "row", "clear"} =>
        editor[e].locks = {} /\ editor[e].pending = NoChange

\* Only the form of a service clears stock.
ClearsService ==
    \A e \in Editor : editor[e].stage = "clear" => editor[e].product \in services

LedgerInv ==
    /\ TypeOK /\ NeverNegative /\ EditorsApart /\ PendingLocked /\ RestingClean
    /\ ClearsService

\* What every serializable transaction does to the ledger.
Move(v, s, d) ==
    /\ ChangeVariantStock(v, s, d)
    /\ variantStock[v][s] + d >= 0
    /\ UNCHANGED <<editor, services>>

-----------------------------------------------------------------------------
\* Every transaction is a move of one variant in one shop.
LEMMA TransactionMoves ==
    ASSUME LedgerInv, Transaction
    PROVE  /\ \E v \in Variant, s \in Shop, d \in Int : Move(v, s, d)
           /\ productQuantity' \in [Product -> Int]
           /\ lowStockFlag' \in [Product -> [Shop -> BOOLEAN]]
<1> USE LedgerAssumption
<1>0. PICK v \in Variant, s \in Shop, q \in Quantities :
        \/ Receive(v, s, q) \/ TakeOut(v, s, q) \/ PostSale(v, s, q)
        \/ CompleteOrder(v, s, q)
        \/ MoveAndRecount(v, s, q) \/ MoveAndRecount(v, s, -q)
  BY DEF Transaction
<1>1. q \in Nat /\ -q \in Int /\ variantStock[v][s] \in Nat /\ ProductOf[v] \in Product
  BY DEF Quantities, LedgerInv, TypeOK, NeverNegative, LedgerAssumption
<1>2. ASSUME NEW d \in Int, ChangeVariantStock(v, s, d),
             TriggeredTotal(v, d) \/ RecountedTotal(v)
      PROVE  productQuantity' \in [Product -> Int]
  <2>1. shopStock' \in [Product -> [Shop -> Int]]
    BY <1>2, <1>1 DEF ChangeVariantStock, LedgerInv, TypeOK
  <2>2. SumOver(shopStock'[ProductOf[v]], Shop) \in Int
    <3>1. \A x \in Shop : shopStock'[ProductOf[v]][x] \in Int
      BY <2>1, <1>1
    <3> QED BY <3>1, SumType DEF LedgerAssumption
  <2> QED BY <1>2, <1>1, <2>2 DEF TriggeredTotal, RecountedTotal, LedgerInv, TypeOK
<1>3. ASSUME SalePosting(v, s, q)
      PROVE  /\ lowStockFlag' \in [Product -> [Shop -> BOOLEAN]]
             /\ Move(v, s, -q)
  <2> DEFINE p == ProductOf[v]
             before == shopStock[p][s]
             crossed == Threshold > 0 /\ before >= Threshold /\ before - q < Threshold
             kept == lowStockFlag[p][s] /\ ~(Threshold > 0 /\ before - q >= Threshold)
             flag == IF crossed THEN TRUE ELSE kept
  <2>1. flag \in BOOLEAN
    OBVIOUS
  <2>2. lowStockFlag' = [lowStockFlag EXCEPT ![p][s] = flag]
    BY <1>3 DEF SalePosting
  <2>3. lowStockFlag' \in [Product -> [Shop -> BOOLEAN]]
    <3> HIDE DEF flag
    <3> QED BY <2>1, <2>2, <1>1 DEF LedgerInv, TypeOK
  <2>4. Move(v, s, -q)
    BY <1>3, <1>1 DEF SalePosting, HasStock, Move, LedgerInv, TypeOK
  <2> QED BY <2>3, <2>4
<1>4. CASE Receive(v, s, q)
  BY <1>4, <1>1, <1>2 DEF Receive, Move, LedgerInv, TypeOK
<1>5. CASE TakeOut(v, s, q)
  BY <1>5, <1>1, <1>2 DEF TakeOut, HasStock, Move, LedgerInv, TypeOK
<1>6. CASE PostSale(v, s, q)
  <2>1. ChangeVariantStock(v, s, -q)
    BY <1>6 DEF PostSale, SalePosting
  <2> QED BY <1>6, <2>1, <1>1, <1>2, <1>3 DEF PostSale
<1>7. CASE CompleteOrder(v, s, q)
  <2>1. ChangeVariantStock(v, s, -q)
    BY <1>7 DEF CompleteOrder, SalePosting
  <2> QED BY <1>7, <2>1, <1>1, <1>2, <1>3 DEF CompleteOrder
<1>8. ASSUME NEW d \in {q, -q}, MoveAndRecount(v, s, d)
      PROVE  /\ Move(v, s, d)
             /\ productQuantity' \in [Product -> Int]
             /\ lowStockFlag' \in [Product -> [Shop -> BOOLEAN]]
  <2>1. d \in Int
    BY <1>1
  <2>2. variantStock[v][s] + d >= 0
    BY <1>8, <1>1 DEF MoveAndRecount, HasStock
  <2> QED BY <1>8, <1>2, <2>1, <2>2 DEF MoveAndRecount, Move, LedgerInv, TypeOK
<1> QED BY <1>0, <1>1, <1>4, <1>5, <1>6, <1>7, <1>8

\* A move meets no uncommitted change of the row it writes.
LEMMA MovePreserves ==
    ASSUME LedgerInv, NEW v \in Variant, NEW s \in Shop, NEW d \in Int,
           Move(v, s, d),
           productQuantity' \in [Product -> Int],
           lowStockFlag' \in [Product -> [Shop -> BOOLEAN]]
    PROVE  LedgerInv'
<1> USE LedgerAssumption
<1>1. TypeOK'
  <2>1. ProductOf[v] \in Product
    BY DEF LedgerAssumption
  <2>2. variantStock' \in [Variant -> [Shop -> Int]]
    BY DEF Move, ChangeVariantStock, LedgerInv, TypeOK
  <2>3. shopStock' \in [Product -> [Shop -> Int]]
    BY <2>1 DEF Move, ChangeVariantStock, LedgerInv, TypeOK
  <2>4. editor' \in [Editor -> Edit]
    BY DEF Move, LedgerInv, TypeOK
  <2>5. services' \subseteq Product
    BY DEF Move, LedgerInv, TypeOK
  <2> QED BY <2>2, <2>3, <2>4, <2>5 DEF TypeOK
<1>2. NeverNegative'
  BY DEF Move, ChangeVariantStock, LedgerInv, TypeOK, NeverNegative
<1>3. EditorsApart' /\ RestingClean' /\ ClearsService'
  BY DEF Move, LedgerInv, EditorsApart, RestingClean, ClearsService
<1>4. PendingLocked'
  <2> SUFFICES ASSUME NEW e \in Editor, NEW x \in Shop, editor[e].pending[x] # 0
               PROVE  /\ LedgerRows(VariantOf(e), x) \subseteq editor[e].locks
                      /\ variantStock'[VariantOf(e)][x] + editor[e].pending[x] >= 0
    BY DEF PendingLocked, Move, VariantOf
  <2>1. LedgerRows(VariantOf(e), x) \subseteq editor[e].locks
    BY DEF LedgerInv, PendingLocked
  <2>2. VariantRow(VariantOf(e), x) \in editor[e].locks
    BY <2>1 DEF LedgerRows
  <2>3. VariantRow(v, s) \notin editor[e].locks
    BY DEF Move, ChangeVariantStock, Free, LedgerRows
  <2>4. VariantOf(e) # v \/ x # s
    BY <2>2, <2>3
  <2>5. VariantOf(e) \in Variant
    BY DEF VariantOf, LedgerInv, TypeOK, Edit, LedgerAssumption
  <2>6. variantStock'[VariantOf(e)][x] = variantStock[VariantOf(e)][x]
    BY <2>4, <2>5 DEF Move, ChangeVariantStock, LedgerInv, TypeOK
  <2> QED BY <2>1, <2>6 DEF LedgerInv, PendingLocked
<1> QED BY <1>1, <1>2, <1>3, <1>4 DEF LedgerInv

\* An edit that goes from its record to n keeps the invariant if n is apart
\* from the other edits and its uncommitted changes are locked.
LEMMA EditorMoves ==
    ASSUME LedgerInv, NEW e \in Editor, NEW n \in Edit,
           editor' = [editor EXCEPT ![e] = n],
           UNCHANGED <<variantStock, shopStock, lowStockFlag, services>>,
           productQuantity' \in [Product -> Int], n.stage # "clear",
           \A f \in Editor \ {e} : n.locks \cap editor[f].locks = {},
           \A s \in Shop : n.pending[s] # 0 =>
              /\ LedgerRows(DefaultVariant[n.product], s) \subseteq n.locks
              /\ variantStock[DefaultVariant[n.product]][s] + n.pending[s] >= 0,
           n.stage \in {"idle", "row", "clear"} => n.locks = {} /\ n.pending = NoChange
    PROVE  LedgerInv'
<1>1. TypeOK'
  BY DEF LedgerInv, TypeOK
<1>2. NeverNegative'
  BY DEF LedgerInv, NeverNegative
<1>3. editor'[e] = n /\ \A f \in Editor \ {e} : editor'[f] = editor[f]
  BY DEF LedgerInv, TypeOK
<1>4. EditorsApart'
  BY <1>3 DEF LedgerInv, EditorsApart
<1>5. PendingLocked'
  BY <1>3 DEF LedgerInv, PendingLocked, VariantOf
<1>6. RestingClean' /\ ClearsService'
  BY <1>3 DEF LedgerInv, RestingClean, ClearsService
<1> QED BY <1>1, <1>2, <1>4, <1>5, <1>6 DEF LedgerInv

\* Facts about an edit in flight that every step uses.
LEMMA EditFacts ==
    ASSUME LedgerInv, NEW e \in Editor
    PROVE  /\ editor[e] \in Edit
           /\ VariantOf(e) \in Variant
           /\ \A f \in Editor \ {e} : editor[e].locks \cap editor[f].locks = {}
           /\ \A s \in Shop : editor[e].pending[s] # 0 =>
                 /\ LedgerRows(VariantOf(e), s) \subseteq editor[e].locks
                 /\ variantStock[VariantOf(e)][s] + editor[e].pending[s] >= 0
           /\ \A s \in Shop : variantStock[VariantOf(e)][s] \in Nat
<1> USE LedgerAssumption
<1>1. editor[e] \in Edit
  BY DEF LedgerInv, TypeOK
<1>2. VariantOf(e) \in Variant
  BY <1>1 DEF VariantOf, Edit, LedgerAssumption
<1>3. \A s \in Shop : variantStock[VariantOf(e)][s] \in Nat
  BY <1>2 DEF LedgerInv, TypeOK, NeverNegative
<1> QED BY <1>1, <1>2, <1>3 DEF LedgerInv, EditorsApart, PendingLocked

\* The rows of a variant of the catalogue are rows.
LEMMA RowsAreRows ==
    ASSUME NEW v \in Variant, NEW s \in Shop
    PROVE  LedgerRows(v, s) \subseteq Row
<1>1. ProductOf[v] \in Product
  BY LedgerAssumption DEF LedgerAssumption
<1> QED BY <1>1 DEF LedgerRows, Row

\* The form is opened: the edit reads and holds nothing yet.
LEMMA BeginEditPreserves ==
    ASSUME LedgerInv, NEW e \in Editor, NEW p \in Product, NEW payload \in SUBSET Shop,
           BeginEdit(e, p, payload)
    PROVE  LedgerInv'
<1> DEFINE n == [editor[e] EXCEPT !.stage = "row", !.product = p, !.todo = payload,
                                  !.read = productQuantity[p]]
<1>1. editor[e] \in Edit /\ productQuantity[p] \in Int
  BY DEF LedgerInv, TypeOK
<1>2. editor[e].locks = {} /\ editor[e].pending = NoChange
  BY DEF BeginEdit, LedgerInv, RestingClean
<1>3. n \in Edit
  BY <1>1 DEF Edit, EditStages
<1>4. n.locks = {} /\ n.pending = NoChange
  BY <1>1, <1>2 DEF Edit
<1>8. n.stage # "clear"
  BY <1>1 DEF Edit
<1>5. editor' = [editor EXCEPT ![e] = n]
  BY DEF BeginEdit
<1>6. /\ UNCHANGED <<variantStock, shopStock, lowStockFlag, services>>
      /\ productQuantity' \in [Product -> Int]
  BY DEF BeginEdit, tables, LedgerInv, TypeOK
<1>7. /\ \A f \in Editor \ {e} : n.locks \cap editor[f].locks = {}
      /\ \A s \in Shop : n.pending[s] = 0
  <2> HIDE DEF n
  <2> QED BY <1>4 DEF NoChange
<1> HIDE DEF n
<1> QED BY <1>3, <1>4, <1>5, <1>6, <1>7, <1>8, EditorMoves

\* The product row is written outside of the transaction.
LEMMA WriteProductFieldsPreserves ==
    ASSUME LedgerInv, NEW e \in Editor, WriteProductFields(e)
    PROVE  LedgerInv'
<1> DEFINE n == [editor[e] EXCEPT !.read = 0,
                    !.stage = IF editor[e].todo = {} THEN "idle" ELSE "move"]
<1>1. editor[e] \in Edit
  BY DEF LedgerInv, TypeOK
<1>2. editor[e].locks = {} /\ editor[e].pending = NoChange
  BY DEF WriteProductFields, LedgerInv, RestingClean
<1>3. n \in Edit
  <2>1. \A k \in Int : /\ [editor[e] EXCEPT !.read = k, !.stage = "idle"] \in Edit
                        /\ [editor[e] EXCEPT !.read = k, !.stage = "move"] \in Edit
    BY <1>1 DEF Edit, EditStages
  <2>2. /\ [editor[e] EXCEPT !.read = 0, !.stage = "idle"] \in Edit
        /\ [editor[e] EXCEPT !.read = 0, !.stage = "move"] \in Edit
    <3>1. 0 \in Int
      OBVIOUS
    <3> QED BY <2>1, <3>1, Zenon
  <2> QED BY <2>2
<1>4. n.locks = {} /\ n.pending = NoChange
  BY <1>1, <1>2 DEF Edit
<1>8. n.stage # "clear"
  BY <1>1 DEF Edit
<1>5. /\ editor' = [editor EXCEPT ![e] = n]
      /\ UNCHANGED <<variantStock, shopStock, lowStockFlag, services>>
  BY DEF WriteProductFields
<1>6. productQuantity' \in [Product -> Int]
  BY <1>1 DEF WriteProductFields, LedgerInv, TypeOK, Edit
<1>7. /\ \A f \in Editor \ {e} : n.locks \cap editor[f].locks = {}
      /\ \A s \in Shop : n.pending[s] = 0
  <2> HIDE DEF n
  <2> QED BY <1>4 DEF NoChange
<1> HIDE DEF n
<1> QED BY <1>3, <1>4, <1>5, <1>6, <1>7, <1>8, EditorMoves

\* The form of a service: it holds nothing, and neither does who holds the rows it
\* writes.
LEMMA WriteServiceFieldsPreserves ==
    ASSUME LedgerInv, NEW e \in Editor, NEW sent \in BOOLEAN, WriteServiceFields(e, sent)
    PROVE  LedgerInv'
<1> DEFINE p == editor[e].product
           n == [editor[e] EXCEPT !.read = 0, !.todo = {},
                                  !.stage = IF sent THEN "clear" ELSE "idle"]
<1>1. editor[e] \in Edit
  BY DEF LedgerInv, TypeOK
<1>2. editor[e].locks = {} /\ editor[e].pending = NoChange /\ p \in Product
  BY <1>1 DEF WriteServiceFields, LedgerInv, RestingClean, Edit
<1>3. n \in Edit
  <2>1. \A k \in Int, todo \in SUBSET Shop, stage \in EditStages :
            [editor[e] EXCEPT !.read = k, !.todo = todo, !.stage = stage] \in Edit
    BY <1>1 DEF Edit
  <2>2. 0 \in Int /\ {} \in SUBSET Shop /\ (IF sent THEN "clear" ELSE "idle") \in EditStages
    BY DEF EditStages
  <2> QED BY <2>1, <2>2
<1>4. /\ n.locks = {} /\ n.pending = NoChange /\ n.product = p
  BY <1>1, <1>2 DEF Edit
<1>5. editor' = [editor EXCEPT ![e] = n] /\ services' = services \cup {p}
      /\ variantStock' = variantStock
  BY DEF WriteServiceFields
<1> HIDE DEF n
<1>6. editor'[e] = n /\ \A f \in Editor \ {e} : editor'[f] = editor[f]
  BY <1>5 DEF LedgerInv, TypeOK
<1>7. TypeOK'
  <2>1. productQuantity' \in [Product -> Int]
    BY <1>2 DEF WriteServiceFields, LedgerInv, TypeOK
  <2>2. NoChange \in [Shop -> Int] /\ [s \in Shop |-> FALSE] \in [Shop -> BOOLEAN]
    BY DEF NoChange
  <2>3. shopStock' \in [Product -> [Shop -> Int]]
    <3>1. shopStock' = shopStock \/ shopStock' = [shopStock EXCEPT ![p] = NoChange]
      BY DEF WriteServiceFields
    <3> QED BY <3>1, <2>2 DEF LedgerInv, TypeOK
  <2>4. lowStockFlag' \in [Product -> [Shop -> BOOLEAN]]
    <3>1. \/ lowStockFlag' = lowStockFlag
          \/ lowStockFlag' = [lowStockFlag EXCEPT ![p] = [s \in Shop |-> FALSE]]
      BY DEF WriteServiceFields
    <3> QED BY <3>1, <2>2 DEF LedgerInv, TypeOK
  <2>5. editor' \in [Editor -> Edit]
    BY <1>3, <1>5 DEF LedgerInv, TypeOK
  <2> QED BY <2>1, <2>3, <2>4, <2>5, <1>2, <1>5 DEF LedgerInv, TypeOK
<1>8. NeverNegative'
  BY <1>5 DEF LedgerInv, NeverNegative
<1>9. EditorsApart'
  BY <1>4, <1>6 DEF LedgerInv, EditorsApart
<1>10. PendingLocked'
  BY <1>4, <1>5, <1>6 DEF LedgerInv, PendingLocked, VariantOf, NoChange
<1>11. RestingClean' /\ ClearsService'
  BY <1>2, <1>4, <1>5, <1>6 DEF LedgerInv, RestingClean, ClearsService
<1> QED BY <1>7, <1>8, <1>9, <1>10, <1>11 DEF LedgerInv

\* What a product has in a shop.
LEMMA StockInFacts ==
    ASSUME LedgerInv, NEW p \in Product, NEW s \in Shop
    PROVE  /\ StockIn(p, s) \in Int
           /\ (\A v \in VariantsOf(p) : variantStock[v][s] = 0) => StockIn(p, s) = 0
<1> DEFINE f == [v \in Variant |-> variantStock[v][s]]
<1>1. IsFiniteSet(VariantsOf(p)) /\ \A v \in VariantsOf(p) : v \in Variant
  BY LedgerAssumption, FS_Subset DEF LedgerAssumption, VariantsOf
<1>2. \A v \in VariantsOf(p) : f[v] \in Int /\ f[v] = variantStock[v][s]
  BY <1>1 DEF LedgerInv, TypeOK
<1>3. StockIn(p, s) = SumOver(f, VariantsOf(p))
  BY DEF StockIn
<1> HIDE DEF f
<1>4. SumOver(f, VariantsOf(p)) \in Int
  BY <1>1, <1>2, SumType
<1>5. ASSUME \A v \in VariantsOf(p) : variantStock[v][s] = 0
      PROVE  SumOver(f, VariantsOf(p)) = 0
  <2>1. UnitsOf(f, VariantsOf(p)) = {}
    BY <1>2, <1>5 DEF UnitsOf
  <2> QED BY <2>1, FS_EmptySet DEF SumOver
<1> QED BY <1>3, <1>4, <1>5

\* What the deletion of the variants' rows does to the tables.
LEMMA ClearFacts ==
    ASSUME LedgerInv, NEW e \in Editor, ClearVariants(e)
    PROVE  /\ editor[e].product \in Product
           /\ variantStock' \in [Variant -> [Shop -> Int]]
           /\ \A v \in Variant : ProductOf[v] # editor[e].product =>
                 variantStock'[v] = variantStock[v]
           /\ \A v \in Variant, s \in Shop : ProductOf[v] = editor[e].product =>
                 /\ variantStock'[v][s] = 0
                 /\ variantStock[v][s] # 0 => Free(LedgerRows(v, s))
           /\ shopStock' \in [Product -> [Shop -> Int]]
           /\ \A q \in Product \ {editor[e].product} : shopStock'[q] = shopStock[q]
           /\ \A s \in Shop : StockIn(editor[e].product, s) = 0 =>
                 shopStock'[editor[e].product][s] = shopStock[editor[e].product][s]
<1> DEFINE p == editor[e].product
<1>1. p \in Product
  BY DEF LedgerInv, TypeOK, Edit
<1>2. /\ variantStock' = [v \in Variant |->
            IF v \in VariantsOf(p) THEN NoChange ELSE variantStock[v]]
      /\ \A v \in VariantsOf(p), s \in Shop :
            variantStock[v][s] # 0 => Free(LedgerRows(v, s))
  BY DEF ClearVariants
<1>3. PICK there \in SUBSET Shop : shopStock' = [shopStock EXCEPT ![p] =
          [s \in Shop |-> IF s \in there THEN shopStock[p][s] - StockIn(p, s)
                         ELSE shopStock[p][s]]]
  BY DEF ClearVariants
<1>4. /\ variantStock \in [Variant -> [Shop -> Int]]
      /\ shopStock \in [Product -> [Shop -> Int]]
  BY DEF LedgerInv, TypeOK
<1>5. \A s \in Shop : StockIn(p, s) \in Int
  BY <1>1, StockInFacts
<1> DEFINE left == [s \in Shop |-> IF s \in there THEN shopStock[p][s] - StockIn(p, s)
                                  ELSE shopStock[p][s]]
<1>6. /\ left \in [Shop -> Int]
      /\ \A s \in Shop : StockIn(p, s) = 0 => left[s] = shopStock[p][s]
  BY <1>1, <1>4, <1>5
<1>7. shopStock' = [shopStock EXCEPT ![p] = left]
  BY <1>3
<1> HIDE DEF p, left
<1>8. /\ shopStock' \in [Product -> [Shop -> Int]] /\ shopStock'[p] = left
      /\ \A q \in Product \ {p} : shopStock'[q] = shopStock[q]
  BY <1>1, <1>4, <1>6, <1>7
<1>9. /\ variantStock' \in [Variant -> [Shop -> Int]]
      /\ \A v \in Variant : ProductOf[v] # p => variantStock'[v] = variantStock[v]
      /\ \A v \in Variant, s \in Shop : ProductOf[v] = p =>
            /\ variantStock'[v][s] = 0
            /\ variantStock[v][s] # 0 => Free(LedgerRows(v, s))
  BY <1>2, <1>4 DEF VariantsOf, NoChange
<1> QED BY <1>1, <1>6, <1>8, <1>9 DEF p

\* The rows that are deleted are nobody's.
LEMMA ClearVariantsPreserves ==
    ASSUME LedgerInv, NEW e \in Editor, ClearVariants(e)
    PROVE  LedgerInv'
<1> DEFINE p == editor[e].product
           n == [editor[e] EXCEPT !.stage = "idle"]
<1>1. editor[e] \in Edit /\ p \in Product
  BY DEF LedgerInv, TypeOK, Edit
<1>2. editor[e].locks = {} /\ editor[e].pending = NoChange
  BY DEF ClearVariants, LedgerInv, RestingClean
<1>3. n \in Edit /\ n.locks = {} /\ n.pending = NoChange /\ n.stage = "idle"
  BY <1>1, <1>2 DEF Edit, EditStages
<1>4. editor' = [editor EXCEPT ![e] = n] /\ services' = services
      /\ lowStockFlag' = lowStockFlag
  BY DEF ClearVariants
<1> HIDE DEF n
<1>5. editor'[e] = n /\ \A f \in Editor \ {e} : editor'[f] = editor[f]
  BY <1>4 DEF LedgerInv, TypeOK
<1>6. TypeOK'
  <2> DEFINE total == SumOver([s \in Shop |-> StockIn(p, s)], Shop)
  <2>1. total \in Int
    <3> DEFINE f == [s \in Shop |-> StockIn(p, s)]
    <3>1. \A s \in Shop : f[s] \in Int
      BY <1>1, StockInFacts
    <3> HIDE DEF f
    <3>2. SumOver(f, Shop) \in Int
      BY <3>1, SumType, LedgerAssumption DEF LedgerAssumption
    <3> QED BY <3>2 DEF f
  <2>2. productQuantity' = [productQuantity EXCEPT ![p] = productQuantity[p] - total]
    BY DEF ClearVariants
  <2> HIDE DEF total, p
  <2>3. productQuantity' \in [Product -> Int]
    BY <2>1, <2>2, <1>1 DEF LedgerInv, TypeOK
  <2>4. editor' \in [Editor -> Edit]
    BY <1>3, <1>4 DEF LedgerInv, TypeOK
  <2>5. /\ variantStock' \in [Variant -> [Shop -> Int]]
        /\ shopStock' \in [Product -> [Shop -> Int]]
    BY ClearFacts
  <2> QED BY <2>3, <2>4, <2>5, <1>4 DEF LedgerInv, TypeOK
<1>7. NeverNegative'
  <2> SUFFICES ASSUME NEW v \in Variant, NEW s \in Shop PROVE variantStock'[v][s] >= 0
    BY DEF NeverNegative
  <2>1. variantStock'[v][s] = 0 \/ variantStock'[v] = variantStock[v]
    BY ClearFacts
  <2>2. variantStock[v][s] >= 0
    BY DEF LedgerInv, NeverNegative
  <2> QED BY <2>1, <2>2
<1>8. EditorsApart' /\ RestingClean' /\ ClearsService'
  BY <1>3, <1>4, <1>5 DEF LedgerInv, EditorsApart, RestingClean, ClearsService
<1>9. PendingLocked'
  <2> SUFFICES ASSUME NEW f \in Editor, NEW s \in Shop, editor'[f].pending[s] # 0
               PROVE  /\ LedgerRows(VariantOf(f)', s) \subseteq editor'[f].locks
                      /\ variantStock'[VariantOf(f)'][s] + editor'[f].pending[s] >= 0
    BY DEF PendingLocked
  <2>1. f # e
    BY <1>3, <1>5 DEF NoChange
  <2>2. editor'[f] = editor[f] /\ VariantOf(f)' = VariantOf(f)
    BY <2>1, <1>5 DEF VariantOf
  <2>3. /\ LedgerRows(VariantOf(f), s) \subseteq editor[f].locks
        /\ variantStock[VariantOf(f)][s] + editor[f].pending[s] >= 0
        /\ VariantOf(f) \in Variant
    BY <2>2, EditFacts
  <2>4. variantStock'[VariantOf(f)][s] = variantStock[VariantOf(f)][s]
    <3>1. ~Free(LedgerRows(VariantOf(f), s))
      <4>1. VariantRow(VariantOf(f), s) \in LedgerRows(VariantOf(f), s)
        BY DEF LedgerRows
      <4> QED BY <4>1, <2>3 DEF Free
    <3> QED BY <3>1, <2>3, ClearFacts
  <2> QED BY <2>2, <2>3, <2>4
<1> QED BY <1>6, <1>7, <1>8, <1>9 DEF LedgerInv

\* A statement that changes no quantity may lock more free rows.
LEMMA LockStep ==
    ASSUME LedgerInv, NEW e \in Editor, NEW n \in Edit, NEW rows, FreeFor(e, rows),
           editor' = [editor EXCEPT ![e] = n], UNCHANGED tables,
           n.product = editor[e].product, n.pending = editor[e].pending,
           n.locks = editor[e].locks \cup rows,
           n.stage \notin {"idle", "row", "clear"}
    PROVE  LedgerInv'
<1>1. /\ \A f \in Editor \ {e} : editor[e].locks \cap editor[f].locks = {}
      /\ \A s \in Shop : editor[e].pending[s] # 0 =>
            /\ LedgerRows(DefaultVariant[editor[e].product], s) \subseteq editor[e].locks
            /\ variantStock[DefaultVariant[editor[e].product]][s]
                 + editor[e].pending[s] >= 0
  BY EditFacts DEF VariantOf
<1>2. /\ UNCHANGED <<variantStock, shopStock, lowStockFlag, services>>
      /\ productQuantity' \in [Product -> Int]
  BY DEF tables, LedgerInv, TypeOK
<1>3. \A f \in Editor \ {e} : n.locks \cap editor[f].locks = {}
  BY <1>1 DEF FreeFor
<1>4. \A s \in Shop : n.pending[s] # 0 =>
         /\ LedgerRows(DefaultVariant[n.product], s) \subseteq n.locks
         /\ variantStock[DefaultVariant[n.product]][s] + n.pending[s] >= 0
  BY <1>1
<1> QED BY <1>2, <1>3, <1>4, EditorMoves

\* A statement that changes a quantity locks its rows and stays >= 0.
LEMMA ChangeStep ==
    ASSUME LedgerInv, NEW e \in Editor, NEW n \in Edit, NEW s \in Shop, NEW d \in Int,
           editor' = [editor EXCEPT ![e] = n], UNCHANGED tables,
           n.product = editor[e].product,
           n.pending = Pending(e, s, d),
           n.locks = Locks(e, d, LedgerRows(VariantOf(e), s)),
           n.stage \notin {"idle", "row", "clear"},
           d # 0 => FreeFor(e, LedgerRows(VariantOf(e), s)) /\ Quantity(e, s) + d >= 0
    PROVE  LedgerInv'
<1>1. /\ editor[e] \in Edit
      /\ VariantOf(e) \in Variant
      /\ \A f \in Editor \ {e} : editor[e].locks \cap editor[f].locks = {}
      /\ \A x \in Shop : editor[e].pending[x] # 0 =>
            /\ LedgerRows(VariantOf(e), x) \subseteq editor[e].locks
            /\ variantStock[VariantOf(e)][x] + editor[e].pending[x] >= 0
      /\ \A x \in Shop : variantStock[VariantOf(e)][x] \in Nat
  BY EditFacts
<1>2. editor[e].pending \in [Shop -> Int]
  BY <1>1 DEF Edit
<1>3. CASE d = 0
  <2>1. n.pending = editor[e].pending /\ n.locks = editor[e].locks \cup {}
    BY <1>2, <1>3 DEF Pending, Locks
  <2>2. FreeFor(e, {})
    BY DEF FreeFor
  <2> QED BY <2>1, <2>2, LockStep
<1>4. CASE d # 0
  <2>0. n.locks = editor[e].locks \cup LedgerRows(VariantOf(e), s)
    BY <1>4 DEF Locks
  <2>1. \A f \in Editor \ {e} : n.locks \cap editor[f].locks = {}
    BY <1>1, <1>4, <2>0 DEF FreeFor
  <2>2. ASSUME NEW x \in Shop, n.pending[x] # 0
        PROVE  /\ LedgerRows(VariantOf(e), x) \subseteq n.locks
               /\ variantStock[VariantOf(e)][x] + n.pending[x] >= 0
    <3>1. CASE x = s
      <4>1. n.pending[s] = editor[e].pending[s] + d
        BY <1>2 DEF Pending
      <4>2. variantStock[VariantOf(e)][s] + (editor[e].pending[s] + d) >= 0
        BY <1>4, <1>1, <1>2 DEF Quantity, VariantOf
      <4> QED BY <3>1, <4>1, <4>2, <2>0
    <3>2. CASE x # s
      <4>1. n.pending[x] = editor[e].pending[x]
        BY <3>2, <1>2 DEF Pending
      <4> QED BY <2>2, <4>1, <1>1, <2>0
    <3> QED BY <3>1, <3>2
  <2>3. /\ UNCHANGED <<variantStock, shopStock, lowStockFlag, services>>
        /\ productQuantity' \in [Product -> Int]
    BY DEF tables, LedgerInv, TypeOK
  <2> QED BY <2>1, <2>2, <2>3, EditorMoves DEF VariantOf
<1> QED BY <1>3, <1>4

\* A shop quantity is edited by its difference.
LEMMA EditByDeltaPreserves ==
    ASSUME LedgerInv, NEW e \in Editor, NEW s \in Shop,
           NEW d \in -MaxQuantity .. MaxQuantity, EditByDelta(e, s, d)
    PROVE  LedgerInv'
<1> DEFINE rows == LedgerRows(VariantOf(e), s)
           n == [editor[e] EXCEPT !.stage = "prices", !.shop = s, !.pending = Pending(e, s, d),
                                  !.locks = Locks(e, d, rows)]
<1>1. editor[e] \in Edit /\ VariantOf(e) \in Variant /\ d \in Int
  BY EditFacts, LedgerAssumption DEF LedgerAssumption
<1>2. rows \subseteq Row
  BY <1>1, RowsAreRows
<1>3. n \in Edit
  <2> HIDE DEF rows
  <2>1. Pending(e, s, d) \in [Shop -> Int]
    BY <1>1 DEF Edit, Pending
  <2>2. Locks(e, d, rows) \in SUBSET Row
    BY <1>1, <1>2 DEF Edit, Locks
  <2> QED BY <1>1, <2>1, <2>2 DEF Edit, EditStages
<1>4. editor' = [editor EXCEPT ![e] = n]
  BY DEF EditByDelta, VariantOf
<1>9. UNCHANGED tables
  BY DEF EditByDelta
<1>5. /\ n.product = editor[e].product
      /\ n.pending = Pending(e, s, d)
      /\ n.locks = Locks(e, d, rows)
      /\ n.stage \notin {"idle", "row", "clear"}
  BY <1>1 DEF Edit
<1>6. d # 0 => FreeFor(e, rows) /\ Quantity(e, s) + d >= 0
  BY LedgerAssumption DEF EditByDelta, VariantOf, LedgerAssumption
<1> HIDE DEF n
<1> QED BY <1>1, <1>3, <1>4, <1>5, <1>6, <1>9, ChangeStep

\* A shop quantity is set if it is still the one read.
LEMMA CompareAndSetPreserves ==
    ASSUME LedgerInv, NEW e \in Editor, NEW q \in 0 .. MaxQuantity, CompareAndSet(e, q)
    PROVE  LedgerInv'
<1> DEFINE s == editor[e].shop
           d == q - editor[e].read
           rows == LedgerRows(VariantOf(e), s)
           n == [editor[e] EXCEPT !.stage = "prices", !.read = 0,
                                  !.pending = Pending(e, s, d),
                                  !.locks = Locks(e, d, rows)]
<1>1. editor[e] \in Edit /\ VariantOf(e) \in Variant
  BY EditFacts
<1>2. s \in Shop /\ d \in Int /\ q \in Nat
  BY <1>1, LedgerAssumption DEF Edit, LedgerAssumption
<1>3. rows \subseteq Row
  BY <1>1, <1>2, RowsAreRows
<1>4. editor' = [editor EXCEPT ![e] = n]
  BY DEF CompareAndSet, VariantOf
<1>9. UNCHANGED tables
  BY DEF CompareAndSet
<1>5. d # 0 => FreeFor(e, rows) /\ Quantity(e, s) = editor[e].read
  BY DEF CompareAndSet, StillAsRead, VariantOf
<1>6. d # 0 => FreeFor(e, rows) /\ Quantity(e, s) + d >= 0
  <2>1. editor[e].read \in Int
    BY <1>1 DEF Edit
  <2>2. editor[e].read + d = q
    BY <2>1, <1>2
  <2> HIDE DEF rows, d
  <2> QED BY <2>2, <1>5, <1>2
<1> HIDE DEF rows, d, s
<1>7. n \in Edit
  <2>1. Pending(e, s, d) \in [Shop -> Int]
    BY <1>1, <1>2 DEF Edit, Pending
  <2>2. Locks(e, d, rows) \in SUBSET Row
    BY <1>1, <1>3 DEF Edit, Locks
  <2>3. \A k \in Int : [editor[e] EXCEPT !.stage = "prices", !.read = k,
                                        !.pending = Pending(e, s, d),
                                        !.locks = Locks(e, d, rows)] \in Edit
    BY <1>1, <2>1, <2>2 DEF Edit, EditStages
  <2>4. 0 \in Int
    OBVIOUS
  <2> QED BY <2>3, <2>4, Zenon
<1>8. /\ n.product = editor[e].product
      /\ n.pending = Pending(e, s, d)
      /\ n.locks = Locks(e, d, rows)
      /\ n.stage \notin {"idle", "row", "clear"}
  BY <1>1 DEF Edit
<1> HIDE DEF n
<1> QED BY <1>2, <1>4, <1>6, <1>7, <1>8, <1>9, ChangeStep DEF rows

\* A shop quantity is read before it is set.
LEMMA ReadForSetPreserves ==
    ASSUME LedgerInv, NEW e \in Editor, NEW s \in Shop, ReadForSet(e, s)
    PROVE  LedgerInv'
<1> DEFINE n == [editor[e] EXCEPT !.stage = "cas", !.shop = s, !.read = Quantity(e, s)]
<1>1. editor[e] \in Edit /\ VariantOf(e) \in Variant
  BY EditFacts
<1>2. Quantity(e, s) \in Int
  BY <1>1, EditFacts DEF Quantity, VariantOf, Edit
<1>3. n \in Edit
  BY <1>1, <1>2 DEF Edit, EditStages
<1>4. editor' = [editor EXCEPT ![e] = n] /\ UNCHANGED tables
  BY DEF ReadForSet
<1>5. /\ n.product = editor[e].product /\ n.pending = editor[e].pending
      /\ n.locks = editor[e].locks \cup {} /\ n.stage \notin {"idle", "row", "clear"}
  BY <1>1 DEF Edit
<1>6. FreeFor(e, {})
  BY DEF FreeFor
<1> HIDE DEF n
<1> QED BY <1>3, <1>4, <1>5, <1>6, LockStep

\* The price statement locks the rows that exist.
LEMMA WritePricesPreserves ==
    ASSUME LedgerInv, NEW e \in Editor, WritePrices(e)
    PROVE  LedgerInv'
<1> DEFINE s == editor[e].shop
           both == {VariantRow(VariantOf(e), s), ShopRow(editor[e].product, s)}
           rest == editor[e].todo \ {s}
<1>1. editor[e] \in Edit /\ VariantOf(e) \in Variant
  BY EditFacts
<1>2. both \subseteq Row /\ rest \subseteq Shop
  BY <1>1 DEF Row, Edit
<1>3. PICK missing \in SUBSET both :
        editor' = [editor EXCEPT ![e] =
                     [editor[e] EXCEPT !.stage = IF rest = {} THEN "sync" ELSE "move",
                                       !.todo = rest,
                                       !.locks = @ \cup (both \ missing)]]
  BY DEF WritePrices, VariantOf
<1> DEFINE n == [editor[e] EXCEPT !.stage = IF rest = {} THEN "sync" ELSE "move",
                                  !.todo = rest, !.locks = @ \cup (both \ missing)]
<1>4. FreeFor(e, both \ missing)
  BY DEF WritePrices, VariantOf, FreeFor
<1>5. UNCHANGED tables
  BY DEF WritePrices
<1> HIDE DEF both, rest
<1>6. n \in Edit
  BY <1>1, <1>2 DEF Edit, EditStages
<1>7. /\ n.product = editor[e].product /\ n.pending = editor[e].pending
      /\ n.locks = editor[e].locks \cup (both \ missing)
      /\ n.stage \notin {"idle", "row", "clear"}
  BY <1>1 DEF Edit
<1>8. editor' = [editor EXCEPT ![e] = n]
  BY <1>3
<1> HIDE DEF n
<1> QED BY <1>4, <1>5, <1>6, <1>7, <1>8, LockStep

\* The shop rows are summed.
LEMMA SumShopsPreserves ==
    ASSUME LedgerInv, NEW e \in Editor, SumShops(e)
    PROVE  LedgerInv'
<1> USE LedgerAssumption
<1> DEFINE p == editor[e].product
           shops == [s \in Shop |-> shopStock[p][s] + editor[e].pending[s]]
           n == [editor[e] EXCEPT !.stage = "write", !.read = SumOver(shops, Shop)]
<1>1. editor[e] \in Edit
  BY EditFacts
<1>2. \A s \in Shop : shops[s] \in Int
  BY <1>1 DEF Edit, LedgerInv, TypeOK
<1>3. SumOver(shops, Shop) \in Int
  <2> HIDE DEF shops
  <2> QED BY <1>2, SumType DEF LedgerAssumption
<1>4. editor' = [editor EXCEPT ![e] = n] /\ UNCHANGED tables
  BY DEF SumShops
<1> HIDE DEF shops
<1>5. n \in Edit
  BY <1>1, <1>3 DEF Edit, EditStages
<1>6. /\ n.product = editor[e].product /\ n.pending = editor[e].pending
      /\ n.locks = editor[e].locks \cup {} /\ n.stage \notin {"idle", "row", "clear"}
  BY <1>1 DEF Edit
<1>7. FreeFor(e, {})
  BY DEF FreeFor
<1> HIDE DEF n
<1> QED BY <1>4, <1>5, <1>6, <1>7, LockStep

\* The sum is written to the product row, which stays locked.
LEMMA WriteTotalPreserves ==
    ASSUME LedgerInv, NEW e \in Editor, WriteTotal(e)
    PROVE  LedgerInv'
<1> DEFINE held == ProductRow(editor[e].product)
           n == [editor[e] EXCEPT !.stage = "commit", !.locks = @ \cup {held}]
<1>1. editor[e] \in Edit
  BY EditFacts
<1>2. held \in Row
  BY <1>1 DEF Edit, Row
<1>3. editor' = [editor EXCEPT ![e] = n]
  BY DEF WriteTotal
<1>6. UNCHANGED tables /\ FreeFor(e, {held})
  BY DEF WriteTotal
<1> HIDE DEF held
<1>4. n \in Edit
  BY <1>1, <1>2 DEF Edit, EditStages
<1>5. /\ n.product = editor[e].product /\ n.pending = editor[e].pending
      /\ n.locks = editor[e].locks \cup {held} /\ n.stage \notin {"idle", "row", "clear"}
  BY <1>1 DEF Edit
<1> HIDE DEF n
<1> QED BY <1>3, <1>4, <1>5, <1>6, LockStep

\* An edit that has ended is idle and holds nothing.
LEMMA EndedFacts ==
    ASSUME LedgerInv, NEW e \in Editor, editor' = Ended(e)
    PROVE  /\ editor' \in [Editor -> Edit]
           /\ editor'[e].locks = {} /\ editor'[e].pending = NoChange
           /\ \A f \in Editor \ {e} : editor'[f] = editor[f]
<1> DEFINE n == [editor[e] EXCEPT !.stage = "idle", !.todo = {}, !.pending = NoChange,
                                  !.locks = {}, !.read = 0]
<1>1. editor[e] \in Edit
  BY EditFacts
<1>0. NoChange \in [Shop -> Int]
  BY DEF NoChange
<1>2. n \in Edit
  <2>1. ASSUME NEW todo \in SUBSET Shop, NEW pending \in [Shop -> Int],
               NEW locks \in SUBSET Row, NEW read \in Int
        PROVE  [editor[e] EXCEPT !.stage = "idle", !.todo = todo, !.pending = pending,
                                 !.locks = locks, !.read = read] \in Edit
    BY <1>1 DEF Edit, EditStages
  <2>2. {} \in SUBSET Shop /\ {} \in SUBSET Row /\ 0 \in Int
    OBVIOUS
  <2> QED BY <1>0, <2>1, <2>2
<1>3. n.locks = {} /\ n.pending = NoChange
  BY <1>1 DEF Edit
<1>4. editor' = [editor EXCEPT ![e] = n]
  BY DEF Ended
<1> HIDE DEF n
<1> QED BY <1>2, <1>3, <1>4 DEF LedgerInv, TypeOK

\* A transaction that is rolled back leaves the tables as they were.
LEMMA AbortEditPreserves ==
    ASSUME LedgerInv, NEW e \in Editor, AbortEdit(e)
    PROVE  LedgerInv'
<1>1. UNCHANGED <<variantStock, shopStock, productQuantity, lowStockFlag>>
  BY DEF AbortEdit, tables
<1>2. /\ editor' \in [Editor -> Edit]
      /\ editor'[e].locks = {} /\ editor'[e].pending = NoChange
      /\ \A f \in Editor \ {e} : editor'[f] = editor[f]
  BY EndedFacts DEF AbortEdit
<1>3. TypeOK' /\ NeverNegative'
  BY <1>1, <1>2 DEF LedgerInv, TypeOK, NeverNegative, AbortEdit, tables
<1>6. editor'[e].stage = "idle" /\ services' = services
  BY DEF AbortEdit, Ended, tables, LedgerInv, TypeOK, Edit
<1>4. EditorsApart' /\ RestingClean' /\ ClearsService'
  BY <1>2, <1>6 DEF LedgerInv, EditorsApart, RestingClean, ClearsService
<1>5. PendingLocked'
  BY <1>1, <1>2 DEF LedgerInv, PendingLocked, VariantOf, NoChange
<1> QED BY <1>3, <1>4, <1>5 DEF LedgerInv

\* A commit adds what is pending to one variant, in every shop.
LEMMA CommitFacts ==
    ASSUME LedgerInv, NEW e \in Editor, CommitEdit(e)
    PROVE  /\ variantStock' \in [Variant -> [Shop -> Int]]
           /\ shopStock' \in [Product -> [Shop -> Int]]
           /\ \A s \in Shop :
                 /\ variantStock'[VariantOf(e)][s]
                      = variantStock[VariantOf(e)][s] + editor[e].pending[s]
                 /\ shopStock'[editor[e].product][s]
                      = shopStock[editor[e].product][s] + editor[e].pending[s]
           /\ \A v \in Variant \ {VariantOf(e)} : variantStock'[v] = variantStock[v]
           /\ \A p \in Product \ {editor[e].product} : shopStock'[p] = shopStock[p]
<1> DEFINE v == VariantOf(e)
           p == editor[e].product
           variantRow == [s \in Shop |-> variantStock[v][s] + editor[e].pending[s]]
           shopRow == [s \in Shop |-> shopStock[p][s] + editor[e].pending[s]]
<1>1. editor[e] \in Edit /\ v \in Variant
  BY EditFacts
<1>2. p \in Product /\ editor[e].pending \in [Shop -> Int]
  BY <1>1 DEF Edit
<1>3. /\ variantStock \in [Variant -> [Shop -> Int]]
      /\ shopStock \in [Product -> [Shop -> Int]]
  BY DEF LedgerInv, TypeOK
<1>4. /\ variantStock' = [variantStock EXCEPT ![v] = variantRow]
      /\ shopStock' = [shopStock EXCEPT ![p] = shopRow]
  BY DEF CommitEdit, VariantOf
<1>5. variantRow \in [Shop -> Int] /\ shopRow \in [Shop -> Int]
  BY <1>1, <1>2, <1>3
<1>6. /\ \A s \in Shop : variantRow[s] = variantStock[v][s] + editor[e].pending[s]
      /\ \A s \in Shop : shopRow[s] = shopStock[p][s] + editor[e].pending[s]
  OBVIOUS
<1> HIDE DEF v, p, variantRow, shopRow
<1>7. /\ variantStock' \in [Variant -> [Shop -> Int]]
      /\ shopStock' \in [Product -> [Shop -> Int]]
      /\ variantStock'[v] = variantRow /\ shopStock'[p] = shopRow
      /\ \A w \in Variant \ {v} : variantStock'[w] = variantStock[w]
      /\ \A r \in Product \ {p} : shopStock'[r] = shopStock[r]
  BY <1>1, <1>2, <1>3, <1>4, <1>5
<1> QED BY <1>6, <1>7 DEF v, p

\* A commit adds what was pending, and its rows were locked.
LEMMA CommitEditPreserves ==
    ASSUME LedgerInv, NEW e \in Editor, CommitEdit(e)
    PROVE  LedgerInv'
<1>1. /\ variantStock' \in [Variant -> [Shop -> Int]]
      /\ shopStock' \in [Product -> [Shop -> Int]]
      /\ \A s \in Shop : variantStock'[VariantOf(e)][s]
                           = variantStock[VariantOf(e)][s] + editor[e].pending[s]
      /\ \A v \in Variant \ {VariantOf(e)} : variantStock'[v] = variantStock[v]
  BY CommitFacts
<1>2. /\ editor' \in [Editor -> Edit]
      /\ editor'[e].locks = {} /\ editor'[e].pending = NoChange
      /\ \A f \in Editor \ {e} : editor'[f] = editor[f]
  BY EndedFacts DEF CommitEdit
<1>3. /\ editor[e] \in Edit
      /\ VariantOf(e) \in Variant
      /\ \A f \in Editor \ {e} : editor[e].locks \cap editor[f].locks = {}
      /\ \A s \in Shop : editor[e].pending[s] # 0 =>
            /\ LedgerRows(VariantOf(e), s) \subseteq editor[e].locks
            /\ variantStock[VariantOf(e)][s] + editor[e].pending[s] >= 0
      /\ \A s \in Shop : variantStock[VariantOf(e)][s] \in Nat
  BY EditFacts
<1>4. TypeOK'
  <2>1. productQuantity' \in [Product -> Int]
    BY <1>3 DEF CommitEdit, LedgerInv, TypeOK, Edit
  <2>2. lowStockFlag' \in [Product -> [Shop -> BOOLEAN]] /\ services' \subseteq Product
    BY DEF CommitEdit, LedgerInv, TypeOK
  <2> QED BY <1>1, <1>2, <2>1, <2>2 DEF TypeOK
<1>5. NeverNegative'
  <2> SUFFICES ASSUME NEW v \in Variant, NEW s \in Shop
               PROVE  variantStock'[v][s] >= 0
    BY DEF NeverNegative
  <2>1. CASE v # VariantOf(e)
    BY <2>1, <1>1 DEF LedgerInv, NeverNegative
  <2>2. CASE v = VariantOf(e) /\ editor[e].pending[s] # 0
    BY <2>2, <1>1, <1>3
  <2>3. CASE v = VariantOf(e) /\ editor[e].pending[s] = 0
    BY <2>3, <1>1, <1>3
  <2> QED BY <2>1, <2>2, <2>3
<1>8. editor'[e].stage = "idle" /\ services' = services
  BY DEF CommitEdit, Ended, LedgerInv, TypeOK, Edit
<1>6. EditorsApart' /\ RestingClean' /\ ClearsService'
  BY <1>2, <1>8 DEF LedgerInv, EditorsApart, RestingClean, ClearsService
<1>7. PendingLocked'
  <2> SUFFICES ASSUME NEW f \in Editor, NEW s \in Shop, editor'[f].pending[s] # 0
               PROVE  /\ LedgerRows(VariantOf(f)', s) \subseteq editor'[f].locks
                      /\ variantStock'[VariantOf(f)'][s] + editor'[f].pending[s] >= 0
    BY DEF PendingLocked
  <2>1. f # e
    BY <1>2 DEF NoChange
  <2>2. editor'[f] = editor[f] /\ VariantOf(f)' = VariantOf(f)
    BY <2>1, <1>2 DEF VariantOf
  <2>3. /\ LedgerRows(VariantOf(f), s) \subseteq editor[f].locks
        /\ variantStock[VariantOf(f)][s] + editor[f].pending[s] >= 0
        /\ VariantOf(f) \in Variant
    BY <2>2, EditFacts
  <2>4. variantStock'[VariantOf(f)][s] = variantStock[VariantOf(f)][s]
    <3>1. CASE VariantOf(f) # VariantOf(e)
      BY <3>1, <2>3, <1>1
    <3>2. CASE VariantOf(f) = VariantOf(e)
      <4>1. VariantRow(VariantOf(f), s) \in editor[f].locks
        BY <2>3 DEF LedgerRows
      <4>2. VariantRow(VariantOf(e), s) \notin editor[e].locks
        BY <4>1, <3>2, <2>1, <1>3
      <4>3. editor[e].pending[s] = 0
        BY <4>2, <1>3 DEF LedgerRows
      <4> QED BY <4>3, <3>2, <1>1, <1>3
    <3> QED BY <3>1, <3>2
  <2> QED BY <2>2, <2>3, <2>4
<1> QED BY <1>4, <1>5, <1>6, <1>7 DEF LedgerInv

-----------------------------------------------------------------------------
\* An empty ledger satisfies the invariant.
LEMMA InitEstablishes == Init => LedgerInv
<1> SUFFICES ASSUME Init PROVE LedgerInv
  OBVIOUS
<1> USE LedgerAssumption DEF LedgerAssumption
<1>1. TypeOK
  <2>1. (CHOOSE p \in Product : TRUE) \in Product /\ (CHOOSE s \in Shop : TRUE) \in Shop
    OBVIOUS
  <2>2. editor \in [Editor -> Edit]
    BY <2>1 DEF Init, Edit, EditStages, NoChange
  <2> QED BY <2>2 DEF Init, TypeOK
<1>2. NeverNegative
  BY DEF Init, NeverNegative
<1>3. EditorsApart /\ RestingClean /\ ClearsService
  BY DEF Init, EditorsApart, RestingClean, ClearsService
<1>4. PendingLocked
  BY DEF Init, PendingLocked, NoChange
<1> QED BY <1>1, <1>2, <1>3, <1>4 DEF LedgerInv

\* Every step of the ledger preserves the invariant.
LEMMA StepPreserves == LedgerInv /\ [Next]_vars => LedgerInv'
<1> SUFFICES ASSUME LedgerInv, [Next]_vars PROVE LedgerInv'
  OBVIOUS
<1>1. CASE Transaction
  BY <1>1, TransactionMoves, MovePreserves
<1>2. ASSUME NEW e \in Editor, CatalogueStep(e) PROVE LedgerInv'
  <2>1. CASE \E p \in Product, payload \in SUBSET Shop : BeginEdit(e, p, payload)
    BY <2>1, BeginEditPreserves
  <2>2. CASE WriteProductFields(e)
    BY <2>2, WriteProductFieldsPreserves
  <2>3. CASE \E s \in Shop, d \in -MaxQuantity .. MaxQuantity : EditByDelta(e, s, d)
    BY <2>3, EditByDeltaPreserves
  <2>4. CASE \E s \in Shop : ReadForSet(e, s)
    BY <2>4, ReadForSetPreserves
  <2>5. CASE \E q \in 0 .. MaxQuantity : CompareAndSet(e, q)
    BY <2>5, CompareAndSetPreserves
  <2>6. CASE WritePrices(e)
    BY <2>6, WritePricesPreserves
  <2>7. CASE SumShops(e)
    BY <2>7, SumShopsPreserves
  <2>8. CASE WriteTotal(e)
    BY <2>8, WriteTotalPreserves
  <2>9. CASE CommitEdit(e)
    BY <2>9, CommitEditPreserves
  <2>10. CASE AbortEdit(e)
    BY <2>10, AbortEditPreserves
  <2>11. CASE \E sent \in BOOLEAN : WriteServiceFields(e, sent)
    BY <2>11, WriteServiceFieldsPreserves
  <2>12. CASE ClearVariants(e)
    BY <2>12, ClearVariantsPreserves
  <2> QED BY <1>2, <2>1, <2>2, <2>3, <2>4, <2>5, <2>6, <2>7, <2>8, <2>9, <2>10, <2>11,
             <2>12
          DEF CatalogueStep
<1>3. CASE UNCHANGED vars
  BY <1>3 DEF vars, tables, LedgerInv, TypeOK, NeverNegative, EditorsApart,
              PendingLocked, RestingClean, ClearsService, VariantOf
<1> QED BY <1>1, <1>2, <1>3 DEF Next

\* The locks of the catalogue edits are exclusive and cover what they are
\* about to commit, in every reachable state.
THEOREM LedgerInvariant == Spec => []LedgerInv
<1>1. Init => LedgerInv
  BY InitEstablishes
<1>2. LedgerInv /\ [Next]_vars => LedgerInv'
  BY StepPreserves
<1> QED BY <1>1, <1>2, PTL DEF Spec

\* Type correctness of the ledger and of the edits in flight.
THEOREM TypeCorrect == Spec => []TypeOK
<1>1. LedgerInv => TypeOK
  BY DEF LedgerInv
<1> QED BY <1>1, LedgerInvariant, PTL

\* No interleaving of transactions and catalogue edits takes stock below zero.
THEOREM StockNeverNegative == Spec => []NeverNegative
<1>1. LedgerInv => NeverNegative
  BY DEF LedgerInv
<1> QED BY <1>1, LedgerInvariant, PTL

-----------------------------------------------------------------------------
(* The shop rows.                                                          *)

Column(s) == [v \in Variant |-> variantStock[v][s]]

FollowsIn(s) ==
    \A p \in Product \ services : shopStock[p][s] = SumOver(Column(s), VariantsOf(p))

\* If one variant changes in a shop and the shop row of its product changes by
\* as much, every shop row still is the sum of its variants.
LEMMA OneVariantMoves ==
    ASSUME LedgerInv, LedgerInv', NEW s \in Shop, FollowsIn(s), NEW w \in Variant,
           services' = services,
           \A v \in Variant \ {w} : variantStock'[v][s] = variantStock[v][s],
           shopStock'[ProductOf[w]][s] =
              shopStock[ProductOf[w]][s] + (variantStock'[w][s] - variantStock[w][s]),
           \A p \in Product \ {ProductOf[w]} : shopStock'[p][s] = shopStock[p][s]
    PROVE  FollowsIn(s)'
<1>1. /\ \A v \in Variant : Column(s)[v] \in Nat /\ Column(s)'[v] \in Nat
      /\ \A v \in Variant : /\ Column(s)[v] = variantStock[v][s]
                            /\ Column(s)'[v] = variantStock'[v][s]
  BY DEF Column, LedgerInv, TypeOK, NeverNegative
<1> SUFFICES ASSUME NEW p \in Product \ services
             PROVE  shopStock'[p][s] = SumOver(Column(s)', VariantsOf(p))
  BY DEF FollowsIn, VariantsOf
<1>2. VariantsOf(p) \subseteq Variant /\ IsFiniteSet(VariantsOf(p))
  BY LedgerAssumption, FS_Subset DEF LedgerAssumption, VariantsOf
<1>3. shopStock[p][s] = SumOver(Column(s), VariantsOf(p))
  BY DEF FollowsIn
<1>4. CASE p = ProductOf[w]
  <2>1. w \in VariantsOf(p)
    BY <1>4 DEF VariantsOf
  <2>2. SumOver(Column(s)', VariantsOf(p))
          = SumOver(Column(s), VariantsOf(p)) + (Column(s)'[w] - Column(s)[w])
    <3> DEFINE f == Column(s)
               g == Column(s)'
    <3>1. /\ \A v \in VariantsOf(p) : f[v] \in Nat
          /\ \A v \in VariantsOf(p) : g[v] \in Nat
          /\ \A v \in VariantsOf(p) \ {w} : g[v] = f[v]
      BY <1>1, <1>2
    <3> HIDE DEF f, g
    <3>2. SumOver(g, VariantsOf(p)) = SumOver(f, VariantsOf(p)) + (g[w] - f[w])
      BY <1>2, <2>1, <3>1, SumUpdate
    <3> QED BY <3>2 DEF f, g
  <2> QED BY <1>1, <1>3, <1>4, <2>2
<1>5. CASE p # ProductOf[w]
  <2>1. \A v \in VariantsOf(p) : Column(s)'[v] = Column(s)[v]
    BY <1>1, <1>5 DEF VariantsOf
  <2>2. SumOver(Column(s)', VariantsOf(p)) = SumOver(Column(s), VariantsOf(p))
    BY <2>1, SumCongruence
  <2> QED BY <1>3, <1>5, <2>2
<1> QED BY <1>4, <1>5

\* A transaction writes the shop row of the variant it moves.
LEMMA MoveFollows ==
    ASSUME LedgerInv, LedgerInv', ShopFollowsVariants,
           NEW v \in Variant, NEW x \in Shop, NEW d \in Int, Move(v, x, d)
    PROVE  ShopFollowsVariants'
<1>1. ProductOf[v] \in Product
  BY LedgerAssumption DEF LedgerAssumption
<1>2. ASSUME NEW s \in Shop PROVE FollowsIn(s)'
  <2>1. FollowsIn(s)
    BY DEF ShopFollowsVariants, FollowsIn, Column, StockIn
  <2>2. \A w \in Variant \ {v} : variantStock'[w][s] = variantStock[w][s]
    BY DEF Move, ChangeVariantStock, LedgerInv, TypeOK
  <2>3. \A p \in Product \ {ProductOf[v]} : shopStock'[p][s] = shopStock[p][s]
    BY <1>1 DEF Move, ChangeVariantStock, LedgerInv, TypeOK
  <2>4. shopStock'[ProductOf[v]][s] =
           shopStock[ProductOf[v]][s] + (variantStock'[v][s] - variantStock[v][s])
    <3>1. CASE s = x
      BY <3>1, <1>1 DEF Move, ChangeVariantStock, LedgerInv, TypeOK
    <3>2. CASE s # x
      BY <3>2, <1>1 DEF Move, ChangeVariantStock, LedgerInv, TypeOK
    <3> QED BY <3>1, <3>2
  <2>5. services' = services
    BY DEF Move
  <2> QED BY <2>1, <2>2, <2>3, <2>4, <2>5, OneVariantMoves
<1> QED BY <1>2 DEF ShopFollowsVariants, FollowsIn, Column, StockIn, Move

\* A commit adds the same to the variant rows and to the shop rows.
LEMMA CommitFollows ==
    ASSUME LedgerInv, LedgerInv', ShopFollowsVariants, NEW e \in Editor, CommitEdit(e)
    PROVE  ShopFollowsVariants'
<1>1. /\ editor[e] \in Edit /\ VariantOf(e) \in Variant
      /\ ProductOf[VariantOf(e)] = editor[e].product
      /\ editor[e].product \in Product
  BY EditFacts, LedgerAssumption DEF VariantOf, LedgerAssumption, Edit
<1>2. ASSUME NEW s \in Shop PROVE FollowsIn(s)'
  <2>1. FollowsIn(s)
    BY DEF ShopFollowsVariants, FollowsIn, Column, StockIn
  <2>2. /\ variantStock'[VariantOf(e)][s]
             = variantStock[VariantOf(e)][s] + editor[e].pending[s]
        /\ shopStock'[editor[e].product][s]
             = shopStock[editor[e].product][s] + editor[e].pending[s]
        /\ \A v \in Variant \ {VariantOf(e)} : variantStock'[v][s] = variantStock[v][s]
        /\ \A p \in Product \ {editor[e].product} : shopStock'[p][s] = shopStock[p][s]
    BY CommitFacts
  <2>3. /\ editor[e].pending[s] \in Int
        /\ variantStock[VariantOf(e)][s] \in Int
        /\ shopStock[editor[e].product][s] \in Int
    BY <1>1 DEF Edit, LedgerInv, TypeOK
  <2>4. shopStock'[ProductOf[VariantOf(e)]][s] =
           shopStock[ProductOf[VariantOf(e)]][s]
             + (variantStock'[VariantOf(e)][s] - variantStock[VariantOf(e)][s])
    BY <1>1, <2>2, <2>3
  <2>5. services' = services
    BY DEF CommitEdit
  <2> QED BY <1>1, <2>1, <2>2, <2>4, <2>5, OneVariantMoves
<1> QED BY <1>2 DEF ShopFollowsVariants, FollowsIn, Column, StockIn, CommitEdit

\* The form of a service touches the rows of a service only.
LEMMA ServiceFollows ==
    ASSUME LedgerInv, ShopFollowsVariants, NEW e \in Editor,
           ClearVariants(e) \/ \E sent \in BOOLEAN : WriteServiceFields(e, sent)
    PROVE  ShopFollowsVariants'
<1> SUFFICES ASSUME NEW p \in Product, p \notin services', NEW s \in Shop
             PROVE  shopStock'[p][s] = SumOver([v \in Variant |-> variantStock'[v][s]],
                                               VariantsOf(p))
  BY DEF ShopFollowsVariants, StockIn
<1>1. /\ p \notin services /\ p # editor[e].product
  BY DEF ClearVariants, WriteServiceFields, LedgerInv, ClearsService
<1>2. shopStock'[p] = shopStock[p]
  <2>1. CASE ClearVariants(e)
    BY <2>1, <1>1, ClearFacts
  <2>2. CASE \E sent \in BOOLEAN : WriteServiceFields(e, sent)
    BY <2>2, <1>1 DEF WriteServiceFields, LedgerInv, TypeOK
  <2> QED BY <2>1, <2>2
<1>3. \A v \in VariantsOf(p) : v \in Variant /\ variantStock'[v] = variantStock[v]
  <2>1. CASE ClearVariants(e)
    BY <2>1, <1>1, ClearFacts DEF VariantsOf
  <2>2. CASE \E sent \in BOOLEAN : WriteServiceFields(e, sent)
    BY <2>2 DEF WriteServiceFields, VariantsOf
  <2> QED BY <2>1, <2>2
<1> DEFINE f == [v \in Variant |-> variantStock[v][s]]
           g == [v \in Variant |-> variantStock'[v][s]]
<1>4. \A v \in VariantsOf(p) : g[v] = f[v]
  BY <1>3
<1>5. shopStock[p][s] = SumOver(f, VariantsOf(p))
  BY <1>1 DEF ShopFollowsVariants, StockIn
<1> HIDE DEF f, g
<1>6. SumOver(g, VariantsOf(p)) = SumOver(f, VariantsOf(p))
  BY <1>4, SumCongruence
<1> QED BY <1>2, <1>5, <1>6 DEF g

\* Everything else leaves both tables alone.
LEMMA StepFollows ==
    LedgerInv /\ LedgerInv' /\ ShopFollowsVariants /\ [Next]_vars => ShopFollowsVariants'
<1> SUFFICES ASSUME LedgerInv, LedgerInv', ShopFollowsVariants, [Next]_vars
             PROVE  ShopFollowsVariants'
  OBVIOUS
<1>1. CASE Transaction
  BY <1>1, TransactionMoves, MoveFollows
<1>2. ASSUME NEW e \in Editor, CommitEdit(e) PROVE ShopFollowsVariants'
  BY <1>2, CommitFollows
<1>3. ASSUME NEW e \in Editor, CatalogueStep(e), ~CommitEdit(e), ~ClearVariants(e),
             \A sent \in BOOLEAN : ~WriteServiceFields(e, sent)
      PROVE  UNCHANGED <<variantStock, shopStock, services>>
  BY <1>3 DEF CatalogueStep, BeginEdit, WriteProductFields, EditByDelta, ReadForSet,
              CompareAndSet, WritePrices, SumShops, WriteTotal, AbortEdit, tables
<1>4. CASE UNCHANGED <<variantStock, shopStock, services>>
  BY <1>4 DEF ShopFollowsVariants, StockIn, VariantsOf
<1>5. ASSUME NEW e \in Editor,
             ClearVariants(e) \/ \E sent \in BOOLEAN : WriteServiceFields(e, sent)
      PROVE  ShopFollowsVariants'
  BY <1>5, ServiceFollows
<1> QED BY <1>1, <1>2, <1>3, <1>4, <1>5 DEF Next, vars, tables

\* The shop rows are the sums of their variants' rows in every reachable state,
\* whichever transactions and catalogue edits interleave.
THEOREM ShopRowsFollow == Spec => []ShopFollowsVariants
<1>1. Init => ShopFollowsVariants
  <2> SUFFICES ASSUME Init, NEW p \in Product, NEW s \in Shop
               PROVE  shopStock[p][s] = SumOver(Column(s), VariantsOf(p))
    BY DEF ShopFollowsVariants, Column, StockIn
  <2>1. \A v \in VariantsOf(p) : Column(s)[v] = 0
    BY DEF Init, Column, VariantsOf
  <2>2. UnitsOf(Column(s), VariantsOf(p)) = {}
    BY <2>1 DEF UnitsOf
  <2>3. SumOver(Column(s), VariantsOf(p)) = 0
    BY <2>2, FS_EmptySet DEF SumOver
  <2> QED BY <2>3 DEF Init
<1>2. LedgerInv /\ LedgerInv' /\ ShopFollowsVariants /\ [Next]_vars
        => ShopFollowsVariants'
  BY StepFollows
<1> QED BY <1>1, <1>2, LedgerInvariant, PTL DEF Spec

-----------------------------------------------------------------------------
(* The total a commit writes.                                              *)

\* The shop rows of the edit's product as its transaction sees them.
Shelf(e) == [s \in Shop |-> shopStock[editor[e].product][s] + editor[e].pending[s]]

\* An edit that moved stock and has summed the shops.
Summed(e) == editor[e].stage \in {"write", "commit"} /\ editor[e].pending # NoChange

\* The sum an edit has read stays the sum until it commits.
SumHolds == \A e \in Editor : Summed(e) => editor[e].read = SumOver(Shelf(e), Shop)

\* An edit that moved stock holds the row of its product, and nobody else does.
LEMMA MovedHoldsProduct ==
    ASSUME LedgerInv, NEW e \in Editor, editor[e].pending # NoChange
    PROVE  /\ ProductRow(editor[e].product) \in editor[e].locks
           /\ \A f \in Editor \ {e} : ProductRow(editor[e].product) \notin editor[f].locks
<1>1. editor[e] \in Edit
  BY EditFacts
<1>2. editor[e].pending \in [Shop -> Int] /\ editor[e].product \in Product
  BY <1>1 DEF Edit
<1>3. PICK s \in Shop : editor[e].pending[s] # 0
  BY <1>2 DEF NoChange
<1>4. LedgerRows(VariantOf(e), s) \subseteq editor[e].locks
  BY <1>3, EditFacts
<1>5. ProductOf[VariantOf(e)] = editor[e].product
  BY <1>2, LedgerAssumption DEF LedgerAssumption, VariantOf
<1> QED BY <1>4, <1>5, EditFacts DEF LedgerRows

\* A transaction does not touch a product whose row an edit holds.
LEMMA MoveKeepsSums ==
    ASSUME LedgerInv, SumHolds, NEW v \in Variant, NEW s \in Shop, NEW d \in Int,
           Move(v, s, d)
    PROVE  SumHolds'
<1> SUFFICES ASSUME NEW e \in Editor, Summed(e)'
             PROVE  editor'[e].read = SumOver(Shelf(e)', Shop)
  BY DEF SumHolds
<1>1. editor' = editor /\ Summed(e)
  BY DEF Move, Summed
<1>2. ProductRow(editor[e].product) \in editor[e].locks
  BY <1>1, MovedHoldsProduct DEF Summed
<1>3. ProductOf[v] # editor[e].product
  BY <1>2 DEF Move, ChangeVariantStock, Free, LedgerRows
<1>4. ProductOf[v] \in Product /\ editor[e].product \in Product
  BY EditFacts, LedgerAssumption DEF LedgerAssumption, Edit
<1>5. shopStock'[editor[e].product] = shopStock[editor[e].product]
  BY <1>3, <1>4 DEF Move, ChangeVariantStock, LedgerInv, TypeOK
<1>6. Shelf(e)' = Shelf(e)
  BY <1>1, <1>5 DEF Shelf
<1> QED BY <1>1, <1>6 DEF SumHolds

\* Two edits of one product never both have moved stock: the one that commits
\* changes nothing under the sum of the other.
LEMMA CommitKeepsSums ==
    ASSUME LedgerInv, SumHolds, NEW f \in Editor, CommitEdit(f)
    PROVE  SumHolds'
<1> SUFFICES ASSUME NEW e \in Editor, Summed(e)'
             PROVE  editor'[e].read = SumOver(Shelf(e)', Shop)
  BY DEF SumHolds
<1>1. /\ editor'[f].pending = NoChange
      /\ \A g \in Editor \ {f} : editor'[g] = editor[g]
  BY EndedFacts DEF CommitEdit
<1>2. e # f /\ editor'[e] = editor[e] /\ Summed(e)
  BY <1>1 DEF Summed
<1>3. /\ editor[e].product \in Product
      /\ editor[f].pending \in [Shop -> Int]
      /\ shopStock \in [Product -> [Shop -> Int]]
  BY EditFacts DEF Edit, LedgerInv, TypeOK
<1>4. \A s \in Shop :
         shopStock'[editor[e].product][s] = shopStock[editor[e].product][s]
  <2>1. CASE editor[e].product # editor[f].product
    BY <2>1, <1>3, CommitFacts
  <2>2. CASE editor[e].product = editor[f].product
    <3>1. editor[f].pending = NoChange
      BY <1>2, <2>2, MovedHoldsProduct DEF Summed
    <3>2. \A s \in Shop : editor[f].pending[s] = 0
      BY <3>1 DEF NoChange
    <3> QED BY <2>2, <3>2, <1>3, CommitFacts
  <2> QED BY <2>1, <2>2
<1>5. Shelf(e)' = Shelf(e)
  BY <1>2, <1>4 DEF Shelf
<1> QED BY <1>2, <1>5 DEF SumHolds

\* The form of a service meets no product whose row an edit holds, or deletes nothing.
LEMMA ServiceKeepsSums ==
    ASSUME LedgerInv, SumHolds, NEW f \in Editor,
           ClearVariants(f) \/ \E sent \in BOOLEAN : WriteServiceFields(f, sent)
    PROVE  SumHolds'
<1> SUFFICES ASSUME NEW e \in Editor, Summed(e)'
             PROVE  editor'[e].read = SumOver(Shelf(e)', Shop)
  BY DEF SumHolds
<1>1. /\ editor'[f].stage \in {"idle", "clear"}
      /\ \A g \in Editor \ {f} : editor'[g] = editor[g]
  <2>1. editor \in [Editor -> Edit]
    BY DEF LedgerInv, TypeOK
  <2>2. CASE ClearVariants(f)
    <3>1. editor'[f].stage = "idle"
      BY <2>1, <2>2 DEF ClearVariants, Edit
    <3>2. \A g \in Editor \ {f} : editor'[g] = editor[g]
      BY <2>1, <2>2 DEF ClearVariants
    <3> QED BY <3>1, <3>2
  <2>3. ASSUME NEW sent \in BOOLEAN, WriteServiceFields(f, sent)
        PROVE  /\ editor'[f].stage \in {"idle", "clear"}
               /\ \A g \in Editor \ {f} : editor'[g] = editor[g]
    <3>1. editor'[f].stage \in {"idle", "clear"}
      <4>1. editor[f] \in Edit /\ sent \in {TRUE, FALSE}
        BY <2>1
      <4>2. editor'[f].stage = IF sent THEN "clear" ELSE "idle"
        BY <2>1, <2>3, <4>1 DEF WriteServiceFields, Edit
      <4> QED BY <4>1, <4>2
    <3>2. \A g \in Editor \ {f} : editor'[g] = editor[g]
      BY <2>1, <2>3 DEF WriteServiceFields
    <3> QED BY <3>1, <3>2
  <2> QED BY <2>2, <2>3
<1>2. e # f /\ editor'[e] = editor[e] /\ Summed(e)
  BY <1>1 DEF Summed
<1>3. /\ editor[e].product \in Product /\ editor[f].product \in Product
      /\ ProductRow(editor[e].product) \in editor[e].locks
  BY <1>2, EditFacts, MovedHoldsProduct DEF Summed, Edit
<1>4. \A s \in Shop :
         shopStock'[editor[e].product][s] = shopStock[editor[e].product][s]
  <2>1. CASE \E sent \in BOOLEAN : WriteServiceFields(f, sent)
    <3>1. editor[e].product # editor[f].product
      BY <2>1, <1>3 DEF WriteServiceFields, Free
    <3> QED BY <2>1, <3>1, <1>3 DEF WriteServiceFields, LedgerInv, TypeOK
  <2>2. CASE ClearVariants(f) /\ editor[e].product # editor[f].product
    BY <2>2, <1>3, ClearFacts
  <2>3. CASE ClearVariants(f) /\ editor[e].product = editor[f].product
    <3>1. \A v \in VariantsOf(editor[f].product), s \in Shop : variantStock[v][s] = 0
      <4> SUFFICES ASSUME NEW v \in Variant, ProductOf[v] = editor[f].product, NEW s \in Shop
                   PROVE  variantStock[v][s] = 0
        BY DEF VariantsOf
      <4>1. ProductRow(editor[e].product) \in LedgerRows(v, s)
        BY <2>3 DEF LedgerRows
      <4>2. ~Free(LedgerRows(v, s))
        BY <4>1, <1>3 DEF Free
      <4> QED BY <4>2, <2>3, ClearFacts
    <3>2. \A s \in Shop : StockIn(editor[f].product, s) = 0
      BY <3>1, <1>3, StockInFacts
    <3> QED BY <2>3, <3>2, ClearFacts
  <2> QED BY <2>1, <2>2, <2>3
<1>5. Shelf(e)' = Shelf(e)
  BY <1>2, <1>4 DEF Shelf
<1> QED BY <1>2, <1>5 DEF SumHolds

\* The other statements of an edit: SumShops reads the sum, WriteTotal keeps it.
LEMMA StatementKeepsSums ==
    ASSUME LedgerInv, SumHolds, NEW f \in Editor, CatalogueStep(f), ~CommitEdit(f),
           ~ClearVariants(f), \A sent \in BOOLEAN : ~WriteServiceFields(f, sent)
    PROVE  SumHolds'
<1> SUFFICES ASSUME NEW e \in Editor, Summed(e)'
             PROVE  editor'[e].read = SumOver(Shelf(e)', Shop)
  BY DEF SumHolds
<1>1. editor \in [Editor -> Edit] /\ editor[f] \in Edit
  BY DEF LedgerInv, TypeOK
<1>2. UNCHANGED shopStock /\ \A g \in Editor \ {f} : editor'[g] = editor[g]
  BY <1>1 DEF CatalogueStep, BeginEdit, WriteProductFields, EditByDelta, ReadForSet,
              CompareAndSet, WritePrices, SumShops, WriteTotal, AbortEdit, Ended, tables
<1>3. CASE e # f
  BY <1>2, <1>3 DEF SumHolds, Summed, Shelf
<1>4. CASE e = f
  <2>1. SumShops(f) \/ WriteTotal(f)
    <3>1. editor'[f].stage \in {"write", "commit"}
      BY <1>4 DEF Summed
    <3>2. CASE \E p \in Product, payload \in SUBSET Shop : BeginEdit(f, p, payload)
      BY <1>1, <3>1, <3>2 DEF BeginEdit, Edit
    <3>3. CASE WriteProductFields(f)
      BY <1>1, <3>1, <3>3 DEF WriteProductFields, Edit
    <3>4. CASE \E s \in Shop, d \in -MaxQuantity .. MaxQuantity : EditByDelta(f, s, d)
      BY <1>1, <3>1, <3>4 DEF EditByDelta, Edit
    <3>5. CASE \E s \in Shop : ReadForSet(f, s)
      BY <1>1, <3>1, <3>5 DEF ReadForSet, Edit
    <3>6. CASE \E q \in 0 .. MaxQuantity : CompareAndSet(f, q)
      BY <1>1, <3>1, <3>6 DEF CompareAndSet, Edit
    <3>7. CASE WritePrices(f)
      BY <1>1, <3>1, <3>7 DEF WritePrices, Edit
    <3>8. CASE AbortEdit(f)
      BY <1>1, <3>1, <3>8 DEF AbortEdit, Ended, Edit
    <3> QED BY <3>2, <3>3, <3>4, <3>5, <3>6, <3>7, <3>8 DEF CatalogueStep
  <2>2. CASE SumShops(f)
    <3>1. /\ editor'[f].read = SumOver(Shelf(f), Shop)
          /\ editor'[f].product = editor[f].product
          /\ editor'[f].pending = editor[f].pending
      BY <1>1, <2>2 DEF SumShops, Shelf, Edit
    <3>2. Shelf(f)' = Shelf(f)
      BY <3>1, <1>2 DEF Shelf
    <3> QED BY <1>4, <3>1, <3>2
  <2>3. CASE WriteTotal(f)
    <3>1. /\ editor[f].stage = "write"
          /\ editor'[f].read = editor[f].read
          /\ editor'[f].product = editor[f].product
          /\ editor'[f].pending = editor[f].pending
      BY <1>1, <2>3 DEF WriteTotal, Edit
    <3>2. Shelf(f)' = Shelf(f)
      BY <3>1, <1>2 DEF Shelf
    <3>3. Summed(f)
      BY <3>1, <1>4 DEF Summed
    <3> QED BY <1>4, <3>1, <3>2, <3>3 DEF SumHolds
  <2> QED BY <2>1, <2>2, <2>3
<1> QED BY <1>3, <1>4

\* No step of anybody makes a sum that was read stale.
LEMMA StepKeepsSums == LedgerInv /\ SumHolds /\ [Next]_vars => SumHolds'
<1> SUFFICES ASSUME LedgerInv, SumHolds, [Next]_vars PROVE SumHolds'
  OBVIOUS
<1>1. CASE Transaction
  BY <1>1, TransactionMoves, MoveKeepsSums
<1>2. ASSUME NEW f \in Editor, CatalogueStep(f) PROVE SumHolds'
  BY <1>2, CommitKeepsSums, ServiceKeepsSums, StatementKeepsSums
<1>3. CASE UNCHANGED vars
  BY <1>3 DEF vars, tables, SumHolds, Summed, Shelf
<1> QED BY <1>1, <1>2, <1>3 DEF Next

\* What a commit writes to the product row is the sum of what it writes to the
\* shop rows.
LEMMA CommitWritesSum ==
    ASSUME LedgerInv, SumHolds, NEW e \in Editor,
           editor[e].pending # NoChange, CommitEdit(e)
    PROVE  productQuantity'[editor[e].product]
             = SumOver(shopStock'[editor[e].product], Shop)
<1>1. editor[e].product \in Product
  BY EditFacts DEF Edit
<1>2. productQuantity'[editor[e].product] = editor[e].read
  BY <1>1 DEF CommitEdit, LedgerInv, TypeOK
<1>3. editor[e].read = SumOver(Shelf(e), Shop)
  BY DEF CommitEdit, SumHolds, Summed
<1>4. \A s \in Shop : shopStock'[editor[e].product][s] = Shelf(e)[s]
  BY CommitFacts DEF Shelf
<1>5. SumOver(shopStock'[editor[e].product], Shop) = SumOver(Shelf(e), Shop)
  BY <1>4, SumCongruence
<1> QED BY <1>2, <1>3, <1>5

\* The product total a moved edit commits is exact, whichever sales, receipts,
\* counts and other edits ran between its sum and its commit.
THEOREM CommitsExactTotal == Spec => MovedEditCommitsExactTotal
<1>1. Init => SumHolds
  BY DEF Init, SumHolds, Summed
<1>2. LedgerInv /\ SumHolds /\ [Next]_vars => SumHolds'
  BY StepKeepsSums
<1>3. Spec => []SumHolds
  BY <1>1, <1>2, LedgerInvariant, PTL DEF Spec
<1>4. LedgerInv /\ SumHolds /\ [Next]_vars =>
        [\A e \in Editor :
           editor[e].pending # NoChange /\ CommitEdit(e) =>
             productQuantity'[editor[e].product]
               = SumOver(shopStock'[editor[e].product], Shop)]_vars
  BY CommitWritesSum
<1> QED BY <1>3, <1>4, LedgerInvariant, PTL DEF Spec, MovedEditCommitsExactTotal

-----------------------------------------------------------------------------
(* The catalogue: codes, variant rows and the forms that save them.        *)

\* Codes of base variants and of rows are all different, but for none.
CodesApart ==
    /\ \A c, d \in Card :
          card[c].there /\ card[d].there /\ card[c].base = card[d].base =>
              c = d \/ card[c].base = NoCode
    /\ \A r, s \in Style :
          row[r].there /\ row[s].there /\ row[r].code = row[s].code =>
              r = s \/ row[r].code = NoCode
    /\ \A c \in Card, r \in Style :
          card[c].there /\ row[r].there /\ card[c].base = row[r].code =>
              card[c].base = NoCode

\* A card has the code of its base variant, unless it is known not to.
BasesFollow ==
    \A c \in Card : card[c].there => c \in adrift \/ card[c].code = card[c].base

\* A request is about a card that is there; a form keeps and adds its own rows, and
\* adds one at most.
FormsHold ==
    \A u \in Cataloguer :
        /\ ~Idle(u) => card[cataloguer[u].card].there
        /\ cataloguer[u].op \in {"rows", "write"} =>
              /\ \A r \in cataloguer[u].add \cup cataloguer[u].keep :
                    StyleCard[r] = cataloguer[u].card
              /\ \A r, s \in cataloguer[u].add : r = s

\* The goods on a row a form is about to switch off have come since it looked.
DropsExcused ==
    \A u \in Cataloguer, r \in shelf :
        cataloguer[u].op = "write" /\ cataloguer[u].card = StyleCard[r]
            /\ r \notin cataloguer[u].keep => r \in excused

CatalogueInv ==
    /\ CatalogueTypeOK
    /\ CodesApart
    /\ BasesFollow
    /\ FormsHold
    /\ NoStockIsHidden
    /\ DropsExcused

\* A set of numbers up to m that is not empty has a largest one.
Below == {ss \in Nat \X Nat : ss[1] < ss[2]}

LEMMA SmallestExists ==
    ASSUME NEW G \in SUBSET Nat, G # {}
    PROVE  \E g \in G : \A h \in G : g <= h
<1>1. IsWellFoundedOn(Below, Nat)
  BY NatLessThanWellFounded DEF OpToRel, Below
<1>2. PICK g \in G : \A h \in G : <<h, g>> \notin Below
  BY <1>1, WFMin
<1>3. ASSUME NEW h \in G PROVE g <= h
  <2>1. g \in Nat /\ h \in Nat /\ <<h, g>> \in Nat \X Nat
    OBVIOUS
  <2>2. ~(h < g)
    BY <1>2, <2>1 DEF Below
  <2> QED BY <2>1, <2>2
<1> QED BY <1>3

LEMMA LargestExists ==
    ASSUME NEW m \in Nat, NEW T \in SUBSET (0 .. m), T # {}
    PROVE  \E x \in T : \A y \in T : y <= x
<1> DEFINE gaps == {m - x : x \in T}
<1>1. gaps \subseteq Nat /\ gaps # {}
  <2>1. \A x \in 0 .. m : m - x \in Nat
    OBVIOUS
  <2>2. PICK x : x \in T
    OBVIOUS
  <2>3. m - x \in gaps
    BY <2>2
  <2> QED BY <2>1, <2>3
<1>2. PICK g \in gaps : \A h \in gaps : g <= h
  <2> HIDE DEF gaps
  <2> QED BY <1>1, SmallestExists
<1>3. PICK x \in T : g = m - x
  OBVIOUS
<1>4. ASSUME NEW y \in T PROVE y <= x
  <2>1. m - x <= m - y
    BY <1>2, <1>3
  <2>2. x \in 0 .. m /\ y \in 0 .. m
    OBVIOUS
  <2> QED BY <2>1, <2>2
<1> QED BY <1>4

\* What the unique index of variant codes says of a free code.
FreeOfBases(k, cards) == \A c \in cards : card[c].there => card[c].base # k
FreeOfRows(k, rows) == \A r \in rows : row[r].there => row[r].code # k

LEMMA FreeFacts ==
    ASSUME NEW k
    PROVE  /\ \A c : FreeForBase(k, c) =>
                  k = NoCode \/ (FreeOfBases(k, Card \ {c}) /\ FreeOfRows(k, Style))
           /\ \A r : FreeForRow(k, r) =>
                  k = NoCode \/ (FreeOfBases(k, Card) /\ FreeOfRows(k, Style \ {r}))
BY DEF FreeForBase, FreeForRow, VariantCodes, FreeOfBases, FreeOfRows

\* The code that is allocated next is nobody's.
LEMMA NextCodeFree ==
    ASSUME CatalogueTypeOK
    PROVE  /\ NextCode \in CodeOrNone
           /\ NextCode # NoCode => FreeOfBases(NextCode, Card) /\ FreeOfRows(NextCode, Style)
<1> DEFINE taken == CardCodes(Card) \cup VariantCodes(Card, Style) \cup {NoCode}
           last == CHOOSE k \in taken : \A j \in taken : j <= k
<1>1. taken \in SUBSET CodeOrNone /\ taken # {} /\ MaxCode \in Nat
  BY CatalogueAssumption DEF CatalogueTypeOK, CardCodes, VariantCodes, CardRow, RowRecord,
     CodeOrNone, NoCode, CatalogueAssumption
<1>2. last \in taken /\ \A j \in taken : j <= last
  <2> HIDE DEF taken
  <2>1. \E k \in taken : \A j \in taken : j <= k
    BY <1>1, LargestExists DEF CodeOrNone
  <2> QED BY <2>1
<1>3. NextCode = IF last < MaxCode THEN last + 1 ELSE NoCode
  BY DEF NextCode
<1>4. VariantCodes(Card, Style) \subseteq taken
  OBVIOUS
<1> HIDE DEF taken, last
<1>5. NextCode \in CodeOrNone /\ (NextCode # NoCode => NextCode \notin taken)
  BY <1>1, <1>2, <1>3 DEF CodeOrNone, NoCode
<1> QED BY <1>4, <1>5 DEF VariantCodes, FreeOfBases, FreeOfRows

\* The index keeps codes apart: a step that writes the code of one base variant ...
LEMMA BaseWritten ==
    ASSUME CodesApart, NEW c \in Card, NEW k,
           k = NoCode \/ (FreeOfBases(k, Card \ {c}) /\ FreeOfRows(k, Style)),
           card'[c].there => card'[c].base = k,
           \A d \in Card \ {c} : card'[d].there =>
               card[d].there /\ card'[d].base = card[d].base,
           \A s \in Style : row'[s].there => row[s].there /\ row'[s].code = row[s].code
    PROVE  CodesApart'
BY DEF CodesApart, FreeOfBases, FreeOfRows

\* ... or of one row ...
LEMMA RowWritten ==
    ASSUME CodesApart, NEW r \in Style, NEW k,
           k = NoCode \/ (FreeOfBases(k, Card) /\ FreeOfRows(k, Style \ {r})),
           row'[r].there => row'[r].code = k,
           \A d \in Card : card'[d].there =>
               card'[d].base = NoCode \/ (card[d].there /\ card'[d].base = card[d].base),
           \A s \in Style \ {r} : row'[s].there =>
               row[s].there /\ row'[s].code = row[s].code
    PROVE  CodesApart'
BY DEF CodesApart, FreeOfBases, FreeOfRows

\* ... or none.
LEMMA NoCodeWritten ==
    ASSUME CodesApart,
           \A d \in Card : card'[d].there => card[d].there /\ card'[d].base = card[d].base,
           \A s \in Style : row'[s].there => row[s].there /\ row'[s].code = row[s].code
    PROVE  CodesApart'
BY DEF CodesApart

LEMMA CatalogueBegins == CatalogueInit => CatalogueInv
<1> SUFFICES ASSUME CatalogueInit PROVE CatalogueInv
  OBVIOUS
<1>1. NoCode \in CodeOrNone
  BY CatalogueAssumption DEF CodeOrNone, NoCode, CatalogueAssumption
<1>2. CatalogueTypeOK
  BY <1>1 DEF CatalogueInit, CatalogueTypeOK, NoCard, NoRow, CardRow, RowRecord, Requests
<1>3. \A u \in Cataloguer : cataloguer[u] = NoRequest /\ cataloguer[u].op = "none"
  BY DEF CatalogueInit, NoRequest
<1>4. FormsHold
  BY <1>3 DEF FormsHold, Idle
<1>5. CodesApart /\ BasesFollow /\ NoStockIsHidden /\ DropsExcused
  BY DEF CatalogueInit, CodesApart, BasesFollow, NoStockIsHidden, DropsExcused, NoCard, NoRow
<1> QED BY <1>2, <1>4, <1>5 DEF CatalogueInv

-----------------------------------------------------------------------------
\* What a request holds.
LEMMA RequestKinds ==
    ASSUME CatalogueTypeOK, NEW u \in Cataloguer
    PROVE  /\ Idle(u) => cataloguer[u].op = "none"
           /\ ~Idle(u) => cataloguer[u].card \in Card /\ cataloguer[u].code \in CodeOrNone
                            /\ cataloguer[u].op \in {"sync", "rows", "write"}
           /\ cataloguer[u].op \in {"rows", "write"} =>
                 cataloguer[u].keep \in SUBSET Style /\ cataloguer[u].add \in SUBSET Style
<1>1. cataloguer[u] \in Requests
  BY DEF CatalogueTypeOK
<1> QED BY <1>1 DEF Requests, NoRequest, Idle

\* A step that leaves the requests alone and takes no card away, or puts a
\* request of one user that is about a card that is there.
LEMMA FormsStay ==
    ASSUME CatalogueTypeOK, FormsHold, UNCHANGED cataloguer,
           \A c \in Card : card[c].there => card'[c].there
    PROVE  FormsHold'
BY RequestKinds DEF FormsHold, Idle

LEMMA FormEnds ==
    ASSUME CatalogueTypeOK, FormsHold, NEW u \in Cataloguer, Hold(u, NoRequest),
           \A c \in Card : card[c].there => card'[c].there
    PROVE  FormsHold' /\ cataloguer' \in [Cataloguer -> Requests]
<1>1. cataloguer' \in [Cataloguer -> Requests]
  BY DEF CatalogueTypeOK, Hold, Requests
<1>2. cataloguer'[u] = NoRequest /\ cataloguer'[u].op = "none"
  BY DEF CatalogueTypeOK, Hold, NoRequest
<1>3. \A x \in Cataloguer \ {u} : cataloguer'[x] = cataloguer[x]
  BY DEF CatalogueTypeOK, Hold
<1>4. FormsHold'
  BY <1>2, <1>3, RequestKinds DEF FormsHold, Idle
<1> QED BY <1>1, <1>4

\* Steps on cards alone keep the goods in sight.
LEMMA GoodsStay ==
    ASSUME NoStockIsHidden, DropsExcused, UNCHANGED <<row, shelf, excused>>,
           \A u \in Cataloguer : cataloguer'[u].op = "write" => cataloguer'[u] = cataloguer[u]
    PROVE  NoStockIsHidden' /\ DropsExcused'
BY DEF NoStockIsHidden, DropsExcused

LEMMA CreateKeeps ==
    ASSUME CatalogueInv, NEW c \in Card, NEW k \in CodeOrNone, Create(c, k)
    PROVE  CatalogueInv'
<1> USE DEF CatalogueInv
<1>1. card' = [card EXCEPT ![c] = NewCard(k)] /\ ~card[c].there
  BY DEF Create, MadeCard
<1>2. card' \in [Card -> CardRow] /\ card'[c] = NewCard(k)
      /\ \A d \in Card \ {c} : card'[d] = card[d]
  BY <1>1 DEF CatalogueTypeOK, NewCard, CardRow
<1>3. CatalogueTypeOK'
  BY <1>1, <1>2 , CatalogueAssumption DEF CatalogueTypeOK, Create, CatalogueAssumption, NewCard
<1>4. CodesApart'
  <2>1. k = NoCode \/ (FreeOfBases(k, Card \ {c}) /\ FreeOfRows(k, Style))
    BY FreeFacts DEF Create
  <2> QED BY <1>2, <2>1, BaseWritten DEF Create, NewCard
<1>5. BasesFollow'
  BY <1>2 DEF BasesFollow, Create, NewCard
<1>6. FormsHold'
  BY <1>1, <1>2, FormsStay DEF Create
<1>7. NoStockIsHidden' /\ DropsExcused'
  BY GoodsStay DEF Create
<1> QED BY <1>3, <1>4, <1>5, <1>6, <1>7

LEMMA EditBaseKeeps ==
    ASSUME CatalogueInv, NEW c \in Card, NEW k \in CodeOrNone, EditBase(c, k)
    PROVE  CatalogueInv'
<1> USE DEF CatalogueInv
<1>1. card' = [card EXCEPT ![c].base = k] /\ card[c].there
  BY DEF EditBase
<1>2. /\ card' \in [Card -> CardRow]
      /\ card'[c].there /\ card'[c].base = k /\ card'[c].code = card[c].code
      /\ \A d \in Card \ {c} : card'[d] = card[d]
  BY <1>1 DEF CatalogueTypeOK, CardRow
<1>3. CatalogueTypeOK'
  BY <1>1, <1>2, CatalogueAssumption DEF CatalogueTypeOK, EditBase, CatalogueAssumption
<1>4. CodesApart'
  <2>1. k = NoCode \/ (FreeOfBases(k, Card \ {c}) /\ FreeOfRows(k, Style))
    BY FreeFacts DEF EditBase
  <2> QED BY <1>2, <2>1, BaseWritten DEF EditBase
<1>5. BasesFollow'
  BY <1>2 DEF BasesFollow, EditBase
<1>6. FormsHold'
  BY <1>1, <1>2, FormsStay DEF EditBase
<1>7. NoStockIsHidden' /\ DropsExcused'
  BY GoodsStay DEF EditBase
<1> QED BY <1>3, <1>4, <1>5, <1>6, <1>7

LEMMA WriteCodeKeeps ==
    ASSUME CatalogueInv, NEW u \in Cataloguer, NEW c \in Card, NEW k \in CodeOrNone,
           WriteCode(u, c, k)
    PROVE  CatalogueInv'
<1> USE DEF CatalogueInv
<1> DEFINE q == [op |-> "sync", card |-> c, code |-> k]
<1>1. card' = [card EXCEPT ![c].code = k] /\ card[c].there
  BY DEF WriteCode
<1>2. /\ card' \in [Card -> CardRow]
      /\ card'[c].there /\ card'[c].base = card[c].base
      /\ \A d \in Card \ {c} : card'[d] = card[d]
  BY <1>1 DEF CatalogueTypeOK, CardRow
<1>3. /\ cataloguer' \in [Cataloguer -> Requests] /\ cataloguer'[u] = q
      /\ \A x \in Cataloguer \ {u} : cataloguer'[x] = cataloguer[x]
  BY DEF WriteCode, Hold, CatalogueTypeOK, Requests
<1>4. CatalogueTypeOK'
  BY <1>1, <1>2, <1>3, CatalogueAssumption
  DEF CatalogueTypeOK, WriteCode, CatalogueAssumption
<1>5. CodesApart'
  BY <1>2, NoCodeWritten DEF WriteCode
<1>6. BasesFollow'
  BY <1>2 DEF BasesFollow, WriteCode
<1>7. FormsHold'
  BY <1>2, <1>3, RequestKinds DEF FormsHold, Idle
<1>8. NoStockIsHidden' /\ DropsExcused'
  BY <1>3, GoodsStay DEF WriteCode
<1> QED BY <1>4, <1>5, <1>6, <1>7, <1>8

LEMMA SyncBaseKeeps ==
    ASSUME CatalogueInv, NEW u \in Cataloguer, SyncBase(u)
    PROVE  CatalogueInv'
<1> USE DEF CatalogueInv
<1> DEFINE c == cataloguer[u].card
           k == cataloguer[u].code
<1>1. c \in Card /\ k \in CodeOrNone /\ card[c].there
  BY RequestKinds DEF SyncBase, FormsHold
<1>2. \/ UNCHANGED <<card, adrift>>
      \/ /\ card' = [card EXCEPT ![c].base = k]
         /\ adrift' = IF card[c].code = k THEN adrift \ {c} ELSE adrift \cup {c}
         /\ FreeForBase(k, c)
  BY DEF SyncBase
<1>3. Hold(u, NoRequest) /\ UNCHANGED <<row, shelf, excused>>
  BY DEF SyncBase
<1>4. /\ card' \in [Card -> CardRow]
      /\ \A d \in Card : card'[d].there = card[d].there /\ card'[d].code = card[d].code
      /\ \A d \in Card \ {c} : card'[d] = card[d]
      /\ \/ card' = card /\ adrift' = adrift
         \/ /\ card'[c].base = k /\ FreeForBase(k, c)
            /\ adrift' = IF card[c].code = k THEN adrift \ {c} ELSE adrift \cup {c}
  <2> HIDE DEF c, k
  <2> QED BY <1>1, <1>2 DEF CatalogueTypeOK, CardRow
<1>5. FormsHold' /\ cataloguer' \in [Cataloguer -> Requests]
  BY <1>3, <1>4, FormEnds
<1> HIDE DEF c, k
<1>6. CatalogueTypeOK'
  BY <1>1, <1>2, <1>3, <1>4, <1>5, CatalogueAssumption DEF CatalogueTypeOK, CatalogueAssumption
<1>7. CodesApart'
  <2>1. CASE card' = card
    BY <1>3, <2>1, NoCodeWritten
  <2>2. CASE card'[c].base = k /\ FreeForBase(k, c)
    <3>1. k = NoCode \/ (FreeOfBases(k, Card \ {c}) /\ FreeOfRows(k, Style))
      BY <2>2, FreeFacts
    <3> QED BY <1>1, <1>3, <1>4, <2>2, <3>1, BaseWritten
  <2> QED BY <1>4, <2>1, <2>2
<1>8. BasesFollow'
  BY <1>1, <1>2, <1>4 DEF BasesFollow
<1>9. NoStockIsHidden' /\ DropsExcused'
  <2>1. \A x \in Cataloguer : cataloguer'[x].op = "write" => cataloguer'[x] = cataloguer[x]
    BY <1>3 DEF Hold, CatalogueTypeOK, NoRequest
  <2> QED BY <1>3, <2>1, GoodsStay
<1> QED BY <1>5, <1>6, <1>7, <1>8, <1>9

\* A step that changes one row, and no card or request.
LEMMA RowChanges ==
    ASSUME CatalogueInv, NEW r \in Style, NEW x \in RowRecord, x.there,
           row' = [row EXCEPT ![r] = x], card[StyleCard[r]].there,
           UNCHANGED <<card, cataloguer, adrift>>,
           shelf' \subseteq shelf \cup {r}, excused' \subseteq Style,
           x.code = NoCode \/ (FreeOfBases(x.code, Card) /\ FreeOfRows(x.code, Style \ {r}))
    PROVE  /\ row'[r] = x /\ \A s \in Style \ {r} : row'[s] = row[s]
           /\ CatalogueTypeOK' /\ CodesApart' /\ BasesFollow' /\ FormsHold'
<1> USE DEF CatalogueInv
<1>1. /\ row' \in [Style -> RowRecord] /\ row'[r] = x
      /\ \A s \in Style \ {r} : row'[s] = row[s]
  BY DEF CatalogueTypeOK
<1>2. CatalogueTypeOK'
  BY <1>1 DEF CatalogueTypeOK
<1>3. CodesApart'
  BY <1>1, RowWritten
<1>4. BasesFollow' /\ FormsHold'
  BY FormsStay DEF BasesFollow
<1> QED BY <1>1, <1>2, <1>3, <1>4

LEMMA AddRowKeeps ==
    ASSUME CatalogueInv, NEW r \in Style, NEW k \in CodeOrNone, AddRow(r, k)
    PROVE  CatalogueInv'
<1> DEFINE code == IF k = NoCode THEN NextCode ELSE k
           x == [there |-> TRUE, active |-> TRUE, code |-> code]
<1>1. code \in CodeOrNone /\ FreeOfBases(code, Card) /\ FreeOfRows(code, Style \ {r})
  <2>1. code # NoCode /\ FreeForRow(code, r) /\ code \in CodeOrNone
    BY NextCodeFree DEF AddRow, CatalogueInv
  <2> HIDE DEF code
  <2> QED BY <2>1, FreeFacts
<1>2. /\ row' = [row EXCEPT ![r] = x] /\ card[StyleCard[r]].there /\ ~row[r].there
      /\ UNCHANGED <<card, shelf, cataloguer, adrift, excused>>
  BY DEF AddRow
<1>3. r \notin shelf /\ excused \subseteq Style
  BY <1>2 DEF CatalogueInv, CatalogueTypeOK
<1> HIDE DEF code
<1>4. x \in RowRecord /\ x.there /\ x.code = code
  BY <1>1 DEF RowRecord
<1> HIDE DEF x
<1>5. /\ row'[r] = x /\ \A s \in Style \ {r} : row'[s] = row[s]
      /\ CatalogueTypeOK' /\ CodesApart' /\ BasesFollow' /\ FormsHold'
  BY <1>1, <1>2, <1>3, <1>4, RowChanges
<1>6. NoStockIsHidden' /\ DropsExcused'
  BY <1>2, <1>3, <1>5 DEF CatalogueInv, NoStockIsHidden, DropsExcused, CatalogueTypeOK
<1> QED BY <1>5, <1>6 DEF CatalogueInv

LEMMA EditRowKeeps ==
    ASSUME CatalogueInv, NEW r \in Style, NEW k \in CodeOrNone, NEW active \in BOOLEAN,
           EditRow(r, k, active)
    PROVE  CatalogueInv'
<1> DEFINE x == [row[r] EXCEPT !.code = k, !.active = active]
<1>1. k = NoCode \/ (FreeOfBases(k, Card) /\ FreeOfRows(k, Style \ {r}))
  BY FreeFacts DEF EditRow
<1>2. row' = [row EXCEPT ![r] = x] /\ row[r].there
      /\ UNCHANGED <<card, shelf, cataloguer, adrift>>
  BY DEF EditRow, CatalogueInv, CatalogueTypeOK
<1>3. x \in RowRecord /\ x.there /\ x.code = k /\ x.active = active
  BY <1>2 DEF CatalogueInv, CatalogueTypeOK, RowRecord
<1>4. /\ card[StyleCard[r]].there /\ excused' \subseteq Style
      /\ excused \ {r} \subseteq excused'
      /\ ~active \/ (BeingDropped(r, Cataloguer) /\ r \in excused) => r \in excused'
  BY <1>2 DEF CatalogueInv, CatalogueTypeOK, EditRow
<1> HIDE DEF x
<1>5. /\ row'[r] = x /\ \A s \in Style \ {r} : row'[s] = row[s]
      /\ CatalogueTypeOK' /\ CodesApart' /\ BasesFollow' /\ FormsHold'
  BY <1>1, <1>2, <1>3, <1>4, RowChanges
<1>6. NoStockIsHidden'
  BY <1>2, <1>3, <1>4, <1>5 DEF CatalogueInv, NoStockIsHidden, CatalogueTypeOK
<1>7. DropsExcused'
  <2>1. ASSUME NEW u \in Cataloguer, NEW s \in shelf', cataloguer'[u].op = "write",
               cataloguer'[u].card = StyleCard[s], s \notin cataloguer'[u].keep
        PROVE  s \in excused'
    <3>1. s \in excused /\ BeingDropped(s, Cataloguer)
      BY <1>2, <2>1 DEF CatalogueInv, DropsExcused, BeingDropped
    <3> QED BY <1>4, <3>1
  <2> QED BY <2>1 DEF DropsExcused
<1> QED BY <1>5, <1>6, <1>7 DEF CatalogueInv

LEMMA EnsureCodeKeeps ==
    ASSUME CatalogueInv, NEW r \in Style, EnsureCode(r)
    PROVE  CatalogueInv'
<1> DEFINE x == [row[r] EXCEPT !.code = NextCode]
<1>1. NextCode \in CodeOrNone /\ FreeOfBases(NextCode, Card) /\ FreeOfRows(NextCode, Style \ {r})
  BY NextCodeFree DEF EnsureCode, CatalogueInv, FreeOfRows
<1>2. row' = [row EXCEPT ![r] = x] /\ row[r].there /\ row[r].active
      /\ UNCHANGED <<card, shelf, cataloguer, adrift, excused>>
  BY DEF EnsureCode, CatalogueInv, CatalogueTypeOK
<1>3. x \in RowRecord /\ x.there /\ x.code = NextCode /\ x.active
  BY <1>1, <1>2 DEF CatalogueInv, CatalogueTypeOK, RowRecord
<1>4. card[StyleCard[r]].there /\ excused \subseteq Style
  BY <1>2 DEF CatalogueInv, CatalogueTypeOK
<1> HIDE DEF x
<1>5. /\ row'[r] = x /\ \A s \in Style \ {r} : row'[s] = row[s]
      /\ CatalogueTypeOK' /\ CodesApart' /\ BasesFollow' /\ FormsHold'
  BY <1>1, <1>2, <1>3, <1>4, RowChanges
<1>6. NoStockIsHidden' /\ DropsExcused'
  BY <1>2, <1>3, <1>5 DEF CatalogueInv, NoStockIsHidden, DropsExcused, CatalogueTypeOK
<1> QED BY <1>5, <1>6 DEF CatalogueInv

LEMMA GoodsMoveKeeps ==
    ASSUME CatalogueInv, NEW r \in Style, GoodsCome(r) \/ GoodsLeave(r)
    PROVE  CatalogueInv'
<1> USE DEF CatalogueInv
<1>1. UNCHANGED <<card, row, cataloguer, adrift>>
  BY DEF GoodsCome, GoodsLeave
<1>2. CatalogueTypeOK'
  BY <1>1 DEF CatalogueTypeOK, GoodsCome, GoodsLeave
<1>3. CodesApart' /\ BasesFollow' /\ FormsHold'
  BY <1>1, NoCodeWritten, FormsStay DEF BasesFollow
<1>4. NoStockIsHidden' /\ DropsExcused'
  BY <1>1 DEF NoStockIsHidden, DropsExcused, GoodsCome, GoodsLeave, BeingDropped
<1> QED BY <1>2, <1>3, <1>4

LEMMA ImportCreateKeeps ==
    ASSUME CatalogueInv, NEW c \in Card, NEW k \in CodeOrNone,
           NEW rows \in AtMostOne({r \in Style : StyleCard[r] = c}), ImportCreate(c, k, rows)
    PROVE  CatalogueInv'
<1> USE DEF CatalogueInv
<1> DEFINE code == IF k = NoCode THEN NextCode ELSE k
           own == IF rows = {} THEN code ELSE NoCode
           x == [there |-> TRUE, active |-> TRUE, code |-> code]
<1>1. /\ code \in CodeOrNone /\ own \in CodeOrNone
      /\ FreeOfBases(code, Card \ {c}) /\ FreeOfRows(code, Style)
      /\ ~card[c].there
  <2>1. code # NoCode /\ FreeForBase(code, c) /\ code \in CodeOrNone /\ ~card[c].there
    BY NextCodeFree DEF ImportCreate
  <2>2. NoCode \in CodeOrNone
    BY CatalogueAssumption DEF CatalogueAssumption, CodeOrNone, NoCode
  <2> HIDE DEF code
  <2> QED BY <2>1, <2>2, FreeFacts
<1>2. /\ card' = [card EXCEPT ![c] = NewCard(own)]
      /\ row' = [r \in Style |-> IF r \in rows THEN x ELSE row[r]]
      /\ shelf' = shelf \cup rows /\ UNCHANGED <<cataloguer, adrift, excused>>
  BY DEF ImportCreate, MadeCard
<1>3. x \in RowRecord /\ x.there /\ x.code = code /\ x.active
  BY <1>1 DEF RowRecord
<1> HIDE DEF code, own, x
<1>4. /\ card' \in [Card -> CardRow] /\ card'[c] = NewCard(own)
      /\ \A d \in Card \ {c} : card'[d] = card[d]
  BY <1>1, <1>2 DEF CatalogueTypeOK, NewCard, CardRow
<1>5. /\ rows \subseteq {r \in Style : StyleCard[r] = c}
      /\ \A r, s \in rows : r = s
      /\ row' \in [Style -> RowRecord]
      /\ \A r \in rows : row'[r] = x
      /\ \A r \in Style \ rows : row'[r] = row[r]
  BY <1>2, <1>3 DEF AtMostOne, CatalogueTypeOK
<1>6. CatalogueTypeOK'
  BY <1>1, <1>2, <1>3, <1>4, <1>5, CatalogueAssumption
  DEF CatalogueTypeOK, CatalogueAssumption, NewCard
<1>7. CodesApart'
  <2>1. CASE rows = {}
    <3>1. own = code
      BY <2>1 DEF own
    <3> QED BY <1>1, <1>4, <1>5, <2>1, <3>1, BaseWritten DEF NewCard
  <2>2. CASE rows # {}
    <3>1. PICK r \in rows : rows = {r} /\ r \in Style
      BY <1>5, <2>2
    <3>2. own = NoCode
      BY <2>2 DEF own
    <3>3. FreeOfBases(code, Card) /\ FreeOfRows(code, Style \ {r})
      BY <1>1 DEF FreeOfBases, FreeOfRows
    <3>4. \A d \in Card : card'[d].there =>
             card'[d].base = NoCode \/ (card[d].there /\ card'[d].base = card[d].base)
      BY <1>4, <3>2 DEF NewCard
    <3>5. row'[r].code = code /\ \A s \in Style \ {r} : row'[s] = row[s]
      BY <1>3, <1>5, <3>1
    <3> QED BY <3>1, <3>3, <3>4, <3>5, RowWritten
  <2> QED BY <2>1, <2>2
<1>8. BasesFollow'
  BY <1>2, <1>4 DEF BasesFollow, NewCard
<1>9. FormsHold'
  BY <1>2, <1>4, FormsStay DEF NewCard
<1>10. NoStockIsHidden'
  BY <1>2, <1>3, <1>5 DEF NoStockIsHidden, CatalogueTypeOK
<1>11. DropsExcused'
  <2>1. \A u \in Cataloguer : cataloguer[u].op = "write" => cataloguer[u].card # c
    BY <1>1, RequestKinds DEF FormsHold
  <2> QED BY <1>2, <1>5, <2>1 DEF DropsExcused
<1> QED BY <1>6, <1>7, <1>8, <1>9, <1>10, <1>11

LEMMA ImportUpdateKeeps ==
    ASSUME CatalogueInv, NEW c \in Card, NEW k \in CodeOrNone, NEW r \in Style,
           StyleCard[r] = c, ImportUpdate(c, k, r)
    PROVE  CatalogueInv'
<1> DEFINE code == ImportedCode(k, r)
           x == [there |-> TRUE, active |-> TRUE, code |-> code]
<1>1. /\ code \in CodeOrNone
      /\ code = NoCode \/ (FreeOfBases(code, Card) /\ FreeOfRows(code, Style \ {r}))
  <2>1. row[r].code \in CodeOrNone
    BY DEF CatalogueInv, CatalogueTypeOK, RowRecord
  <2>2. FreeForRow(code, r) /\ code \in CodeOrNone
    BY <2>1, NextCodeFree DEF ImportUpdate, CatalogueInv, ImportedCode
  <2> HIDE DEF code
  <2> QED BY <2>2, FreeFacts
<1>2. /\ row' = [row EXCEPT ![r] = x] /\ card[StyleCard[r]].there
      /\ shelf' = shelf \cup {r} /\ UNCHANGED <<card, cataloguer, adrift>>
  BY DEF ImportUpdate
<1>3. /\ excused' \subseteq Style /\ excused \ {r} \subseteq excused'
      /\ BeingDropped(r, Cataloguer) => r \in excused'
  BY DEF ImportUpdate, CatalogueInv, CatalogueTypeOK
<1> HIDE DEF code
<1>4. x \in RowRecord /\ x.there /\ x.code = code /\ x.active
  BY <1>1 DEF RowRecord
<1> HIDE DEF x
<1>5. /\ row'[r] = x /\ \A s \in Style \ {r} : row'[s] = row[s]
      /\ CatalogueTypeOK' /\ CodesApart' /\ BasesFollow' /\ FormsHold'
  BY <1>1, <1>2, <1>3, <1>4, RowChanges
<1>6. NoStockIsHidden'
  BY <1>2, <1>3, <1>4, <1>5 DEF CatalogueInv, NoStockIsHidden, CatalogueTypeOK
<1>7. DropsExcused'
  <2>1. ASSUME NEW u \in Cataloguer, NEW s \in shelf', cataloguer'[u].op = "write",
               cataloguer'[u].card = StyleCard[s], s \notin cataloguer'[u].keep
        PROVE  s \in excused'
    <3>1. BeingDropped(s, Cataloguer) /\ (s # r => s \in excused)
      BY <1>2, <2>1 DEF CatalogueInv, DropsExcused, BeingDropped
    <3> QED BY <1>3, <3>1
  <2> QED BY <2>1 DEF DropsExcused
<1> QED BY <1>5, <1>6, <1>7 DEF CatalogueInv

LEMMA ReadRowsKeeps ==
    ASSUME CatalogueInv, NEW u \in Cataloguer, NEW c \in Card,
           NEW keep \in SUBSET Style, NEW add \in SUBSET Style, ReadRows(u, c, keep, add)
    PROVE  CatalogueInv'
<1> USE DEF CatalogueInv
<1> DEFINE code == IF add = {} THEN NoCode ELSE NextCode
           q == [op |-> "rows", card |-> c, keep |-> keep, add |-> add, code |-> code]
<1>1. /\ card[c].there /\ Hold(u, q) /\ UNCHANGED <<card, row, shelf, adrift, excused>>
      /\ \A r \in add \cup keep : StyleCard[r] = c
      /\ \A r, s \in add : r = s
  BY DEF ReadRows, RowsOf, AtMostOne
<1>2. code \in CodeOrNone
  BY NextCodeFree, CatalogueAssumption DEF CatalogueAssumption, CodeOrNone, NoCode
<1> HIDE DEF code
<1>3. /\ cataloguer' \in [Cataloguer -> Requests] /\ cataloguer'[u] = q
      /\ \A x \in Cataloguer \ {u} : cataloguer'[x] = cataloguer[x]
  BY <1>1, <1>2 DEF Hold, CatalogueTypeOK, Requests
<1>4. CatalogueTypeOK'
  BY <1>1, <1>3 DEF CatalogueTypeOK
<1>5. CodesApart' /\ BasesFollow'
  BY <1>1, NoCodeWritten DEF BasesFollow
<1>6. FormsHold'
  BY <1>1, <1>3, RequestKinds DEF FormsHold, Idle
<1>7. NoStockIsHidden' /\ DropsExcused'
  BY <1>1, <1>3, GoodsStay
<1> QED BY <1>4, <1>5, <1>6, <1>7

LEMMA CheckRowsKeeps ==
    ASSUME CatalogueInv, NEW u \in Cataloguer, CheckRows(u)
    PROVE  CatalogueInv'
<1> USE DEF CatalogueInv
<1> DEFINE q == [cataloguer[u] EXCEPT !.op = "write"]
<1>1. /\ cataloguer[u].op = "rows" /\ UNCHANGED <<card, row, shelf, adrift, excused>>
      /\ (NothingLeft(u) /\ Hold(u, q)) \/ Hold(u, NoRequest)
  BY DEF CheckRows, MayDrop
<1>2. CodesApart' /\ BasesFollow' /\ NoStockIsHidden'
  BY <1>1, NoCodeWritten DEF BasesFollow, NoStockIsHidden
<1>3. CASE Hold(u, NoRequest)
  <2>1. FormsHold' /\ cataloguer' \in [Cataloguer -> Requests]
    BY <1>1, <1>3, FormEnds
  <2>2. \A x \in Cataloguer : cataloguer'[x].op = "write" => cataloguer'[x] = cataloguer[x]
    BY <1>3 DEF Hold, CatalogueTypeOK, NoRequest
  <2>3. DropsExcused'
    BY <1>1, <2>2, GoodsStay
  <2>4. CatalogueTypeOK'
    BY <1>1, <2>1 DEF CatalogueTypeOK
  <2> QED BY <1>2, <2>1, <2>3, <2>4
<1>4. CASE NothingLeft(u) /\ Hold(u, q)
  <2>1. cataloguer[u] \in [op : {"rows", "write"}, card : Card, keep : SUBSET Style,
                            add : SUBSET Style, code : CodeOrNone]
    BY <1>1 DEF CatalogueTypeOK, Requests, NoRequest
  <2>2. q \in Requests /\ q.op = "write" /\ q.card = cataloguer[u].card
        /\ q.keep = cataloguer[u].keep /\ q.add = cataloguer[u].add
    BY <2>1 DEF Requests
  <2> HIDE DEF q
  <2>3. /\ cataloguer' \in [Cataloguer -> Requests] /\ cataloguer'[u] = q
        /\ \A x \in Cataloguer \ {u} : cataloguer'[x] = cataloguer[x]
    BY <1>4, <2>2 DEF Hold, CatalogueTypeOK
  <2>4. CatalogueTypeOK'
    BY <1>1, <2>3 DEF CatalogueTypeOK
  <2>5. FormsHold'
    BY <1>1, <2>2, <2>3, RequestKinds DEF FormsHold, Idle
  <2>6. DropsExcused'
    <3>1. ASSUME NEW r \in shelf, q.card = StyleCard[r], r \notin q.keep
          PROVE  r \in excused
      <4>1. r \in RowsOf(q.card) /\ r \notin Dropped(u)
        BY <1>4, <3>1 DEF NothingLeft, CatalogueTypeOK, RowsOf
      <4>2. ~row[r].active
        BY <2>2, <3>1, <4>1 DEF Dropped
      <4> QED BY <4>2 DEF NoStockIsHidden
    <3> QED BY <1>1, <2>3, <3>1 DEF DropsExcused
  <2> QED BY <1>2, <2>4, <2>5, <2>6
<1> QED BY <1>1, <1>3, <1>4

LEMMA WriteRowsKeeps ==
    ASSUME CatalogueInv, NEW u \in Cataloguer, WriteRows(u)
    PROVE  CatalogueInv'
<1> USE DEF CatalogueInv
<1> DEFINE q == cataloguer[u]
           x == [there |-> TRUE, active |-> TRUE, code |-> q.code]
           written == \A r \in q.add : ~row[r].there /\ FreeForRow(q.code, r)
<1>1. q.op = "write" /\ Hold(u, NoRequest) /\ UNCHANGED <<card, shelf, adrift>>
  BY DEF WriteRows
<1>2. /\ q.card \in Card /\ card[q.card].there /\ q.code \in CodeOrNone
      /\ q.keep \in SUBSET Style /\ q.add \in SUBSET Style
      /\ \A r \in q.add \cup q.keep : StyleCard[r] = q.card
      /\ \A r, s \in q.add : r = s
  BY <1>1, RequestKinds DEF FormsHold
<1>3. FormsHold' /\ cataloguer' \in [Cataloguer -> Requests]
  BY <1>1, FormEnds
<1>4. BasesFollow'
  BY <1>1 DEF BasesFollow
<1>5. \A y \in Cataloguer :
        /\ y # u => cataloguer'[y] = cataloguer[y]
        /\ cataloguer'[y].op = "write" => y # u
  BY <1>1 DEF Hold, CatalogueTypeOK, NoRequest
<1>6. CASE ~written
  <2>1. UNCHANGED <<row, excused>>
    BY <1>6 DEF WriteRows
  <2>2. CatalogueTypeOK'
    BY <1>1, <1>3, <2>1 DEF CatalogueTypeOK
  <2>3. CodesApart'
    BY <1>1, <2>1, NoCodeWritten
  <2>4. NoStockIsHidden' /\ DropsExcused'
    BY <1>1, <1>5, <2>1, GoodsStay
  <2> QED BY <1>3, <1>4, <2>2, <2>3, <2>4
<1>7. CASE written
  <2>1. /\ row' = [r \in Style |-> IF r \in q.add THEN x
                                   ELSE IF r \in RowsOf(q.card)
                                        THEN [row[r] EXCEPT !.active = r \in q.keep]
                                        ELSE row[r]]
        /\ excused' = {r \in excused : r \in q.keep => BeingDropped(r, Cataloguer \ {u})}
    BY <1>7 DEF WriteRows
  <2>2. x \in RowRecord /\ x.there /\ x.active /\ x.code = q.code
    BY <1>2 DEF RowRecord
  <2>3. \A r \in q.add : ~row[r].there
               /\ (q.code = NoCode \/ (FreeOfBases(q.code, Card) /\ FreeOfRows(q.code, Style \ {r})))
    BY <1>7, FreeFacts
  <2> HIDE DEF q, x, written
  <2>4. \A r \in q.add : row'[r] = x
    BY <1>2, <2>1
  <2>5. ASSUME NEW r \in Style \ q.add
        PROVE  /\ row'[r] \in RowRecord
               /\ row'[r].there = row[r].there /\ row'[r].code = row[r].code
               /\ r \in RowsOf(q.card) => (row'[r].active <=> r \in q.keep)
               /\ r \notin RowsOf(q.card) => row'[r] = row[r]
    <3>1. row[r] \in RowRecord
      BY DEF CatalogueTypeOK
    <3>2. CASE r \in RowsOf(q.card)
      <4> DEFINE b == r \in q.keep
      <4>1. b \in BOOLEAN
        OBVIOUS
      <4>2. row'[r] = [row[r] EXCEPT !.active = b]
        BY <2>1, <3>2
      <4> HIDE DEF b
      <4>3. row'[r] \in RowRecord /\ row'[r].there = row[r].there
            /\ row'[r].code = row[r].code /\ row'[r].active = b
        BY <3>1, <4>1, <4>2 DEF RowRecord
      <4> QED BY <3>2, <4>3 DEF b
    <3>3. CASE r \notin RowsOf(q.card)
      BY <2>1, <3>1, <3>3
    <3> QED BY <3>2, <3>3
  <2>6. CatalogueTypeOK'
    <3>1. row' \in [Style -> RowRecord]
      BY <2>1, <2>2, <2>4, <2>5
    <3>2. \A r \in Style : row'[r].there => card'[StyleCard[r]].there
      BY <1>1, <1>2, <2>4, <2>5 DEF CatalogueTypeOK
    <3>3. \A r \in shelf : r \in Style /\ row'[r].there
      BY <2>3, <2>5 DEF CatalogueTypeOK
    <3>4. excused' \subseteq Style
      BY <2>1 DEF CatalogueTypeOK
    <3> QED BY <1>1, <1>3, <3>1, <3>2, <3>3, <3>4 DEF CatalogueTypeOK
  <2>7. CodesApart'
    <3>1. CASE q.add = {}
      BY <1>1, <2>5, <3>1, NoCodeWritten
    <3>2. CASE q.add # {}
      <4>1. PICK r \in q.add : q.add = {r} /\ r \in Style
        BY <1>2, <3>2
      <4>2. row'[r].code = q.code /\ \A s \in Style \ {r} :
               row'[s].there => row[s].there /\ row'[s].code = row[s].code
        BY <2>2, <2>4, <2>5, <4>1
      <4> QED BY <1>1, <2>3, <4>1, <4>2, RowWritten
    <3> QED BY <3>1, <3>2
  <2>8. NoStockIsHidden'
    <3>1. ASSUME NEW r \in shelf, ~row'[r].active
          PROVE  r \in excused'
      <4>1. r \in Style \ q.add /\ row[r].there
        BY <2>3 DEF CatalogueTypeOK
      <4>2. CASE r \in RowsOf(q.card)
        <5>1. r \notin q.keep /\ StyleCard[r] = q.card
          BY <2>5, <3>1, <4>1, <4>2 DEF RowsOf
        <5>2. r \in excused
          BY <1>1, <5>1 DEF DropsExcused, q
        <5> QED BY <2>1, <5>1, <5>2
      <4>3. CASE r \notin RowsOf(q.card)
        <5>1. r \notin q.keep /\ ~row[r].active
          BY <1>2, <2>5, <3>1, <4>1, <4>3 DEF RowsOf
        <5>2. r \in excused
          BY <5>1 DEF NoStockIsHidden
        <5> QED BY <2>1, <5>1, <5>2
      <4> QED BY <4>2, <4>3
    <3> QED BY <1>1, <3>1 DEF NoStockIsHidden
  <2>9. DropsExcused'
    <3>1. ASSUME NEW y \in Cataloguer, NEW r \in shelf, cataloguer'[y].op = "write",
                 cataloguer'[y].card = StyleCard[r], r \notin cataloguer'[y].keep
          PROVE  r \in excused'
      <4>1. y # u /\ cataloguer'[y] = cataloguer[y]
        BY <1>5, <3>1
      <4>2. r \in excused /\ BeingDropped(r, Cataloguer \ {u})
        BY <3>1, <4>1 DEF DropsExcused, BeingDropped
      <4> QED BY <2>1, <4>2
    <3> QED BY <1>1, <3>1 DEF DropsExcused
  <2> QED BY <1>3, <1>4, <2>6, <2>7, <2>8, <2>9
<1> QED BY <1>6, <1>7

LEMMA DeleteKeeps ==
    ASSUME CatalogueInv, NEW c \in Card, Delete(c)
    PROVE  CatalogueInv'
<1> USE DEF CatalogueInv
<1>1. /\ card' = [card EXCEPT ![c] = NoCard]
      /\ row' = [r \in Style |-> IF StyleCard[r] = c THEN NoRow ELSE row[r]]
      /\ RowsOf(c) \cap shelf = {}
      /\ adrift' = adrift \ {c} /\ excused' = {r \in excused : StyleCard[r] # c}
      /\ shelf' = shelf
  BY DEF Delete
<1>2. cataloguer' = [u \in Cataloguer |->
                       IF cataloguer[u].op # "none" /\ cataloguer[u].card = c
                       THEN NoRequest ELSE cataloguer[u]]
  BY DEF Delete
<1>3. NoCard \in CardRow /\ NoRow \in RowRecord /\ ~NoCard.there /\ ~NoRow.there
  BY CatalogueAssumption DEF CatalogueAssumption, NoCard, NoRow, CardRow, RowRecord,
     CodeOrNone, NoCode
<1>4. /\ card' \in [Card -> CardRow] /\ ~card'[c].there
      /\ \A d \in Card \ {c} : card'[d] = card[d]
  BY <1>1, <1>3 DEF CatalogueTypeOK
<1>5. /\ row' \in [Style -> RowRecord]
      /\ \A r \in Style : IF StyleCard[r] = c THEN ~row'[r].there ELSE row'[r] = row[r]
  BY <1>1, <1>3 DEF CatalogueTypeOK
<1>6. \A r \in shelf : r \in Style /\ StyleCard[r] # c
  BY <1>1 DEF CatalogueTypeOK, RowsOf
<1>7. \A u \in Cataloguer : cataloguer'[u] \in Requests
          /\ \/ cataloguer'[u] = NoRequest
             \/ cataloguer'[u] = cataloguer[u] /\ (Idle(u) \/ cataloguer[u].card # c)
  BY <1>2, RequestKinds DEF CatalogueTypeOK, Requests
<1>8. CatalogueTypeOK'
  <2>1. cataloguer' \in [Cataloguer -> Requests]
    BY <1>2, <1>7
  <2>2. \A r \in Style : row'[r].there => card'[StyleCard[r]].there
    BY <1>4, <1>5, CatalogueAssumption DEF CatalogueTypeOK, CatalogueAssumption
  <2> QED BY <1>1, <1>4, <1>5, <1>6, <2>1, <2>2 DEF CatalogueTypeOK
<1>9. CodesApart'
  BY <1>4, <1>5, NoCodeWritten
<1>10. BasesFollow'
  BY <1>1, <1>4 DEF BasesFollow
<1>11. FormsHold'
  <2>1. NoRequest.op = "none"
    BY DEF NoRequest
  <2> QED BY <1>4, <1>7, <2>1, RequestKinds DEF FormsHold, Idle
<1>12. NoStockIsHidden' /\ DropsExcused'
  <2>1. \A u \in Cataloguer : cataloguer'[u].op = "write" => cataloguer'[u] = cataloguer[u]
    BY <1>7 DEF NoRequest
  <2> QED BY <1>1, <1>5, <1>6, <2>1 DEF NoStockIsHidden, DropsExcused
<1> QED BY <1>8, <1>9, <1>10, <1>11, <1>12

LEMMA CatalogueSteps ==
    ASSUME CatalogueInv, [CatalogueNext]_catalogueVars
    PROVE  CatalogueInv'
<1>1. ASSUME NEW c \in Card, NEW k \in CodeOrNone,
             \/ Create(c, k) \/ EditBase(c, k) \/ \E u \in Cataloguer : WriteCode(u, c, k)
      PROVE  CatalogueInv'
  BY <1>1, CreateKeeps, EditBaseKeeps, WriteCodeKeeps
<1>2. ASSUME NEW u \in Cataloguer,
             \/ \E c \in Card, keep, add \in SUBSET Style : ReadRows(u, c, keep, add)
             \/ SyncBase(u) \/ CheckRows(u) \/ WriteRows(u)
      PROVE  CatalogueInv'
  BY <1>2, ReadRowsKeeps, SyncBaseKeeps, CheckRowsKeeps, WriteRowsKeeps
<1>3. ASSUME NEW r \in Style, NEW k \in CodeOrNone,
             AddRow(r, k) \/ \E active \in BOOLEAN : EditRow(r, k, active)
      PROVE  CatalogueInv'
  BY <1>3, AddRowKeeps, EditRowKeeps
<1>4. ASSUME NEW r \in Style, EnsureCode(r) \/ GoodsCome(r) \/ GoodsLeave(r)
      PROVE  CatalogueInv'
  BY <1>4, EnsureCodeKeeps, GoodsMoveKeeps
<1>5. ASSUME NEW c \in Card, Delete(c) PROVE CatalogueInv'
  BY <1>5, DeleteKeeps
<1>6. ASSUME NEW byArticle \in BOOLEAN, NEW named \in AtMostOne(Card), NEW k \in CodeOrNone,
             NEW c \in Card, NEW rows \in AtMostOne({r \in Style : StyleCard[r] = c}),
             ImportRow(byArticle, named, k, c, rows)
      PROVE  CatalogueInv'
  <2>1. CASE ImportCreate(c, k, rows)
    BY <2>1, ImportCreateKeeps
  <2>2. CASE \E r \in rows : ImportUpdate(c, k, r)
    <3>1. \A r \in rows : r \in Style /\ StyleCard[r] = c
      BY DEF AtMostOne
    <3> QED BY <2>2, <3>1, ImportUpdateKeeps
  <2> QED BY <1>6, <2>1, <2>2 DEF ImportRow
<1>7. ASSUME UNCHANGED catalogueVars PROVE CatalogueInv'
  <2>1. UNCHANGED <<card, row, shelf, cataloguer, adrift, excused>>
    BY <1>7 DEF catalogueVars
  <2>2. CatalogueTypeOK'
    BY <2>1 DEF CatalogueInv, CatalogueTypeOK
  <2>3. CodesApart' /\ BasesFollow' /\ FormsHold'
    BY <2>1 DEF CatalogueInv, CodesApart, BasesFollow, FormsHold, Idle
  <2>4. NoStockIsHidden' /\ DropsExcused'
    BY <2>1 DEF CatalogueInv, NoStockIsHidden, DropsExcused
  <2> QED BY <2>2, <2>3, <2>4 DEF CatalogueInv
<1> QED BY <1>1, <1>2, <1>3, <1>4, <1>5, <1>6, <1>7 DEF CatalogueNext

\* Who finds a code holds it itself, on its base variant or on a row of its own.
LEMMA ScanFacts ==
    ASSUME CatalogueInv
    PROVE  ScanFindsOneProduct
<1> USE DEF CatalogueInv
<1> SUFFICES ASSUME NEW k \in 1 .. MaxCode, NEW c \in Card, NEW d \in Card,
                    c \in OwnHolder(k) \cup VariantHolder(k),
                    d \in OwnHolder(k) \cup VariantHolder(k),
                    c \notin adrift, d \notin adrift
             PROVE  c = d
  BY DEF ScanFindsOneProduct, OwnHolder, VariantHolder
<1>1. k # NoCode
  BY CatalogueAssumption DEF NoCode, CatalogueAssumption
<1>2. \A x \in {c, d} : card[x].there /\ (card[x].base = k \/ \E r \in RowsOf(x) : row[r].code = k)
  BY DEF OwnHolder, VariantHolder, BasesFollow
<1>3. \A x \in Card : \A r \in RowsOf(x) : r \in Style /\ row[r].there /\ StyleCard[r] = x
  BY DEF RowsOf
<1> QED BY <1>1, <1>2, <1>3 DEF CodesApart

(* Every step of the two halves is one of the catalogue or leaves it alone. *)
LEMMA HalvesApart ==
    /\ ProductsSpec => Spec
    /\ ProductsSpec => []CatalogueInv
<1>1. ProductsInit => Init /\ CatalogueInv
  BY CatalogueBegins DEF ProductsInit
<1>2. [ProductsNext]_<<part, vars, catalogueVars>> => [Next]_vars
  BY DEF ProductsNext
<1>3. CatalogueInv /\ [ProductsNext]_<<part, vars, catalogueVars>> => CatalogueInv'
  BY CatalogueSteps DEF ProductsNext
<1> QED BY <1>1, <1>2, <1>3, PTL DEF ProductsSpec, Spec

\* Type correctness of the two halves of a product together.
THEOREM ProductTypes == ProductsSpec => []ProductsTypeOK
<1>1. CatalogueInv /\ TypeOK => ProductsTypeOK
  BY DEF CatalogueInv, ProductsTypeOK
<1> QED BY <1>1, HalvesApart, TypeCorrect, PTL

\* A scanned code finds one product, unless a base variant did not follow.
THEOREM ScansFindOne == ProductsSpec => []ScanFindsOneProduct
<1>1. CatalogueInv => ScanFindsOneProduct
  BY ScanFacts
<1> QED BY <1>1, HalvesApart, PTL

\* Saving colours and sizes puts no goods out of sight, however many forms,
\* imports and documents cross each other.
THEOREM GoodsStayInSight == ProductsSpec => []NoStockIsHidden
<1>1. CatalogueInv => NoStockIsHidden
  BY DEF CatalogueInv
<1> QED BY <1>1, HalvesApart, PTL

=============================================================================
