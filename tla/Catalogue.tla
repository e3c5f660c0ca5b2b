------------------------------ MODULE Catalogue ------------------------------
(***************************************************************************)
(* The cards of the product catalogue, their variants and their codes      *)
(* (products/products.service.ts, common/ean13.ts).                        *)
(*                                                                         *)
(* A card is a Product row.  It has one base variant, which carries the    *)
(* card's code, and rows of its colours and sizes (ProductVariant).  The   *)
(* database keeps the codes of cards apart from each other, and the codes  *)
(* of variants; nothing keeps a card's code apart from the variants of     *)
(* another card but the base variant.                                      *)
(*                                                                         *)
(* A code is a number; allocateInternalBarcodes takes the ones after the   *)
(* largest.  NoCode is a missing code, which may repeat.  Names, prices,   *)
(* colours, archiving and the stock of base variants are left out: a guard *)
(* that looks at them refuses a request, which is no step.                 *)
(***************************************************************************)
EXTENDS Naturals, FiniteSets

CONSTANTS
    Card,       \* products
    Style,      \* variants with a colour or a size
    StyleCard,  \* the product a variant belongs to
    Cataloguer, \* users of the catalogue, one request in flight each
    MaxCode     \* bound: the last code there is

ASSUME CatalogueAssumption ==
    /\ StyleCard \in [Style -> Card]
    /\ MaxCode \in Nat

VARIABLES
    card,       \* Product: its code and its base variant's
    row,        \* ProductVariant with a colour or a size
    shelf,      \* the rows that have stock in some shop
    cataloguer, \* the request each user has in flight
    adrift,     \* history: cards whose code the base variant did not follow
    excused     \* history: rows whose goods are out of sight for a known reason

catalogueVars == <<card, row, shelf, cataloguer, adrift, excused>>

NoCode == 0
CodeOrNone == 0..MaxCode

CardRow == [there : BOOLEAN, code : CodeOrNone, base : CodeOrNone]
RowRecord == [there : BOOLEAN, active : BOOLEAN, code : CodeOrNone]
NoCard == [there |-> FALSE, code |-> NoCode, base |-> NoCode]
NoRow == [there |-> FALSE, active |-> FALSE, code |-> NoCode]

NoRequest == [op |-> "none"]
Requests ==
    {NoRequest}
        \cup [op : {"sync"}, card : Card, code : CodeOrNone]
        \cup [op : {"rows", "write"}, card : Card, keep : SUBSET Style, add : SUBSET Style,
              code : CodeOrNone]

AtMostOne(S) == {{}} \cup {{x} : x \in S}
RowsOf(c) == {r \in Style : StyleCard[r] = c /\ row[r].there}
IsVariative(c) == \E r \in RowsOf(c) : row[r].active

(* The two unique indexes, (companyId, barcode) of Product and of
   ProductVariant: a write that would break one fails. *)
CardCodes(cards) == {card[c].code : c \in {d \in cards : card[d].there}}
VariantCodes(cards, rows) ==
    {card[c].base : c \in {d \in cards : card[d].there}}
        \cup {row[r].code : r \in {s \in rows : row[s].there}}
FreeForCard(k, c) == k = NoCode \/ k \notin CardCodes(Card \ {c})
FreeForBase(k, c) == k = NoCode \/ k \notin VariantCodes(Card \ {c}, Style)
FreeForRow(k, r) == k = NoCode \/ k \notin VariantCodes(Card, Style \ {r})

(* allocateInternalBarcodes: the number after every code of a product or a
   variant; none (RangeError) after the last. *)
NextCode ==
    LET taken == CardCodes(Card) \cup VariantCodes(Card, Style) \cup {NoCode}
        last == CHOOSE k \in taken : \A j \in taken : j <= k
    IN IF last < MaxCode THEN last + 1 ELSE NoCode

CatalogueInit ==
    /\ card = [c \in Card |-> NoCard]
    /\ row = [r \in Style |-> NoRow]
    /\ shelf = {} /\ adrift = {} /\ excused = {}
    /\ cataloguer = [u \in Cataloguer |-> NoRequest]

Idle(u) == cataloguer[u] = NoRequest
Hold(u, r) == cataloguer' = [cataloguer EXCEPT ![u] = r]

-----------------------------------------------------------------------------
(* create, createCatalogProduct: one nested write creates the product and its
   base variant with the same code. *)
NewCard(k) == [there |-> TRUE, code |-> k, base |-> k]
\* Mutant: the base variant is created without the code.
NewCardBare(k) == [there |-> TRUE, code |-> k, base |-> NoCode]
MadeCard(k) == NewCard(k)

Create(c, k) ==
    /\ ~card[c].there
    /\ FreeForCard(k, c) /\ FreeForBase(k, c)
    /\ card' = [card EXCEPT ![c] = MadeCard(k)]
    /\ UNCHANGED <<row, shelf, cataloguer, adrift, excused>>

(* patchProductIdentifiers and the product update of updateCatalogProduct: the
   card's own code is written first, the base variant follows later. *)
WriteCode(u, c, k) ==
    /\ Idle(u) /\ card[c].there /\ k # card[c].code
    /\ FreeForCard(k, c)
    /\ card' = [card EXCEPT ![c].code = k]
    /\ adrift' = adrift \cup {c}
    /\ Hold(u, [op |-> "sync", card |-> c, code |-> k])
    /\ UNCHANGED <<row, shelf, excused>>

(* syncDefaultVariantFromLegacyProduct: nothing when the product has colours
   or sizes; the write fails when a variant has the code. *)
SyncBase(u) ==
    LET c == cataloguer[u].card
        k == cataloguer[u].code
    IN
    /\ cataloguer[u].op = "sync"
    /\ IF ~IsVariative(c) /\ FreeForBase(k, c)
       THEN /\ card' = [card EXCEPT ![c].base = k]
            /\ adrift' = IF card[c].code = k THEN adrift \ {c} ELSE adrift \cup {c}
       ELSE UNCHANGED <<card, adrift>>
    /\ Hold(u, NoRequest)
    /\ UNCHANGED <<row, shelf, excused>>

(* syncCatalogVariants: the payload keeps some of the rows it has read and adds
   new ones; fillMissingVariantCodes gives them codes before the transaction.
   One new row stands for several. *)
ReadRows(u, c, keep, add) ==
    /\ Idle(u) /\ card[c].there
    /\ keep \subseteq RowsOf(c)
    /\ add \in AtMostOne({r \in Style : StyleCard[r] = c /\ ~row[r].there})
    /\ keep \cup add # {}
    /\ add # {} => NextCode # NoCode
    /\ Hold(u, [op |-> "rows", card |-> c, keep |-> keep, add |-> add,
                code |-> IF add = {} THEN NoCode ELSE NextCode])
    /\ UNCHANGED <<card, row, shelf, adrift, excused>>

(* Its transaction, up to the check that no row it drops has stock. *)
Dropped(u) == {r \in RowsOf(cataloguer[u].card) : row[r].active} \ cataloguer[u].keep
NothingLeft(u) == Dropped(u) \cap shelf = {}
\* Mutant: the rows a form leaves out are switched off whatever they hold.
NothingLeftUnchecked(u) == TRUE
MayDrop(u) == NothingLeft(u)

CheckRows(u) ==
    LET q == cataloguer[u] IN
    /\ q.op = "rows"
    /\ Hold(u, IF MayDrop(u) THEN [q EXCEPT !.op = "write"] ELSE NoRequest)
    /\ UNCHANGED <<card, row, shelf, adrift, excused>>

\* A form has decided to switch the row off.
BeingDropped(r, users) ==
    \E u \in users : cataloguer[u].op = "write"
        /\ cataloguer[u].card = StyleCard[r] /\ r \notin cataloguer[u].keep

(* The rest of it: the rows that are not kept are switched off.  Goods that
   came to a dropped row since the check stay on it. *)
WriteRows(u) ==
    LET q == cataloguer[u]
        written == \A r \in q.add : ~row[r].there /\ FreeForRow(q.code, r)
        added == [there |-> TRUE, active |-> TRUE, code |-> q.code]
    IN
    /\ q.op = "write"
    /\ IF written
       THEN /\ row' = [r \in Style |-> IF r \in q.add THEN added
                                     ELSE IF r \in RowsOf(q.card)
                                          THEN [row[r] EXCEPT !.active = r \in q.keep]
                                          ELSE row[r]]
            /\ excused' = {r \in excused : r \in q.keep => BeingDropped(r, Cataloguer \ {u})}
       ELSE UNCHANGED <<row, excused>>
    /\ Hold(u, NoRequest)
    /\ UNCHANGED <<card, shelf, adrift>>

(* createProductVariant: a typed code, or the next free one; a code that is
   taken in between makes a conflict. *)
AddRow(r, k) ==
    LET code == IF k = NoCode THEN NextCode ELSE k IN
    /\ card[StyleCard[r]].there /\ ~row[r].there
    /\ code # NoCode /\ FreeForRow(code, r)
    /\ row' = [row EXCEPT ![r] = [there |-> TRUE, active |-> TRUE, code |-> code]]
    /\ UNCHANGED <<card, shelf, cataloguer, adrift, excused>>

(* updateProductVariant of a row with a colour or a size: code and activity as
   they are sent, whatever stock it has. *)
EditRow(r, k, active) ==
    /\ row[r].there /\ FreeForRow(k, r)
    /\ row' = [row EXCEPT ![r].code = k, ![r].active = active]
    /\ excused' = IF ~active THEN excused \cup {r}
                  ELSE IF BeingDropped(r, Cataloguer) THEN excused ELSE excused \ {r}
    /\ UNCHANGED <<card, shelf, cataloguer, adrift>>

(* updateProductVariant of a base variant: the card's code does not follow. *)
EditBase(c, k) ==
    /\ card[c].there /\ k # card[c].base
    /\ FreeForBase(k, c)
    /\ card' = [card EXCEPT ![c].base = k]
    /\ adrift' = IF card[c].code = k THEN adrift \ {c} ELSE adrift \cup {c}
    /\ UNCHANGED <<row, shelf, cataloguer, excused>>

(* ensureVariantBarcodes: the active rows without a code get the next ones; a
   conflict is tried again, so the step is the attempt that goes through.  One
   row stands for several. *)
EnsureCode(r) ==
    /\ row[r].there /\ row[r].active /\ row[r].code = NoCode
    /\ NextCode # NoCode
    /\ row' = [row EXCEPT ![r].code = NextCode]
    /\ UNCHANGED <<card, shelf, cataloguer, adrift, excused>>

(* bulkDeleteProducts, clearAllArchivedProducts: deleteProductsByInternalIds
   deletes a product without operations, so one that never had stock.  Its id is
   not used again: a request on it finds nothing and ends. *)
Delete(c) ==
    /\ card[c].there /\ RowsOf(c) \cap shelf = {}
    /\ card' = [card EXCEPT ![c] = NoCard]
    /\ row' = [r \in Style |-> IF StyleCard[r] = c THEN NoRow ELSE row[r]]
    /\ adrift' = adrift \ {c}
    /\ excused' = {r \in excused : StyleCard[r] # c}
    /\ cataloguer' = [u \in Cataloguer |->
                        IF cataloguer[u].op # "none" /\ cataloguer[u].card = c
                        THEN NoRequest ELSE cataloguer[u]]
    /\ UNCHANGED shelf

-----------------------------------------------------------------------------
(* A row of an import file (applyImportRows, of a file of one row).  What its
   article, sku or name finds is one product or none, named; code is the row's
   barcode; r is the variant that its colour and size mean, or none. *)
OwnHolder(k) == {c \in Card : k # NoCode /\ card[c].there /\ card[c].code = k}
VariantHolder(k) ==
    {c \in Card : k # NoCode /\ card[c].there
        /\ (card[c].base = k \/ \E r \in RowsOf(c) : row[r].code = k)}
FirstHolder(k) == IF OwnHolder(k) # {} THEN OwnHolder(k) ELSE VariantHolder(k)

(* findImportMatchedProduct: by article; by the variant that has the code, when
   the row has a colour or a size; by the product's own codes. *)
ImportMatch(byArticle, named, k, sized) ==
    IF byArticle /\ named # {} THEN named
    ELSE IF sized /\ VariantHolder(k) # {} THEN VariantHolder(k)
    ELSE named \cup OwnHolder(k)

\* The errors it throws: the code is of another product than the article's; sku
\* and code are of two products.
ForeignCode(byArticle, named, k) == byArticle /\ ~(FirstHolder(k) \subseteq named)
ImportAccepted(byArticle, named, k, sized) ==
    /\ ~ForeignCode(byArticle, named, k)
    /\ Cardinality(ImportMatch(byArticle, named, k, sized)) <= 1

(* applyImportCreate: a simple product has the code itself and on its base
   variant; one with colours or sizes has it on the variant only.  Without a
   code the next free one is taken (resolveIdentifiersForImportCreate). *)
ImportCreate(c, k, rows) ==
    LET code == IF k = NoCode THEN NextCode ELSE k IN
    /\ ~card[c].there /\ code # NoCode
    /\ FreeForBase(code, c)
    /\ rows = {} => FreeForCard(code, c)
    /\ card' = [card EXCEPT ![c] = IF rows = {} THEN MadeCard(code) ELSE MadeCard(NoCode)]
    /\ row' = [r \in Style |-> IF r \in rows
                             THEN [there |-> TRUE, active |-> TRUE, code |-> code]
                             ELSE row[r]]
    /\ shelf' = shelf \cup rows
    /\ UNCHANGED <<cataloguer, adrift, excused>>

(* applyImportUpdate: the product's variant that has the code, or the one of
   that colour and size, or a new one.  It takes the row's code, is switched on
   and gets the goods.  Rows without a colour and a size reach the stock of the
   base variant only. *)
VariantOfRow(c, k, r) ==
    /\ k # NoCode => card[c].base # k /\ \A s \in RowsOf(c) : row[s].code = k => s = r
    /\ row[r].there \/ k # NoCode \/ NextCode # NoCode
ImportedCode(k, r) ==
    IF k # NoCode THEN k ELSE IF row[r].there THEN row[r].code ELSE NextCode

ImportUpdate(c, k, r) ==
    LET code == ImportedCode(k, r) IN
    /\ card[c].there /\ VariantOfRow(c, k, r)
    /\ FreeForRow(code, r)
    /\ row' = [row EXCEPT ![r] = [there |-> TRUE, active |-> TRUE, code |-> code]]
    /\ shelf' = shelf \cup {r}
    /\ excused' = IF BeingDropped(r, Cataloguer) THEN excused \cup {r} ELSE excused \ {r}
    /\ UNCHANGED <<card, cataloguer, adrift>>

ImportRow(byArticle, named, k, c, rows) ==
    LET found == ImportMatch(byArticle, named, k, rows # {}) IN
    /\ \A n \in named : card[n].there
    /\ ImportAccepted(byArticle, named, k, rows # {})
    /\ IF found = {} THEN ImportCreate(c, k, rows)
       ELSE found = {c} /\ \E r \in rows : ImportUpdate(c, k, r)

(* Goods come to a row or leave it, in the documents of the other services.  A
   row that is switched off, or that a form is dropping, takes them with it. *)
GoodsCome(r) ==
    /\ row[r].there /\ r \notin shelf
    /\ shelf' = shelf \cup {r}
    /\ excused' = IF row[r].active /\ ~BeingDropped(r, Cataloguer) THEN excused ELSE excused \cup {r}
    /\ UNCHANGED <<card, row, cataloguer, adrift>>

GoodsLeave(r) ==
    /\ r \in shelf
    /\ shelf' = shelf \ {r}
    /\ UNCHANGED <<card, row, cataloguer, adrift, excused>>

CatalogueNext ==
    \/ \E c \in Card, k \in CodeOrNone :
        \/ Create(c, k) \/ EditBase(c, k)
        \/ \E u \in Cataloguer : WriteCode(u, c, k)
    \/ \E u \in Cataloguer :
        \/ \E c \in Card, keep, add \in SUBSET Style : ReadRows(u, c, keep, add)
        \/ SyncBase(u) \/ CheckRows(u) \/ WriteRows(u)
    \/ \E r \in Style, k \in CodeOrNone :
        AddRow(r, k) \/ \E active \in BOOLEAN : EditRow(r, k, active)
    \/ \E r \in Style : EnsureCode(r) \/ GoodsCome(r) \/ GoodsLeave(r)
    \/ \E c \in Card : Delete(c)
    \/ \E byArticle \in BOOLEAN, named \in AtMostOne(Card), k \in CodeOrNone, c \in Card :
        \E rows \in AtMostOne({r \in Style : StyleCard[r] = c}) :
            ImportRow(byArticle, named, k, c, rows)

CatalogueSpec == CatalogueInit /\ [][CatalogueNext]_catalogueVars

-----------------------------------------------------------------------------
CatalogueTypeOK ==
    /\ card \in [Card -> CardRow]
    /\ row \in [Style -> RowRecord]
    /\ \A r \in Style : row[r].there => card[StyleCard[r]].there
    /\ shelf \subseteq {r \in Style : row[r].there}
    /\ cataloguer \in [Cataloguer -> Requests]
    /\ adrift \subseteq Card
    /\ excused \subseteq Style

(* A scanned code finds rows of one product, unless it belongs to a product
   whose base variant did not follow its own code: one written to the product
   alone (products.service.ts:4955, 5142) or to the base variant alone.  That
   variant is all that keeps a product's code and the variants of another apart
   through every create, edit, allocation and deletion (ean13.ts:43). *)
ScanFindsOneProduct ==
    \A k \in 1..MaxCode : \A c, d \in OwnHolder(k) \cup VariantHolder(k) : c = d \/ {c, d} \cap adrift # {}

(* Saving the colours and sizes of a product never puts goods out of sight: a
   variant that is switched off is empty, unless it was switched off by hand or
   its goods came after the form had looked (products.service.ts:7673). *)
NoStockIsHidden == \A r \in shelf : row[r].active \/ r \in excused

=============================================================================
