----------------------------- MODULE MCStockLedger -----------------------------
(***************************************************************************)
(* Small instances of the two halves of a product: its stock while forms   *)
(* save it (StockLedger: a default variant and a colour variant), and its  *)
(* codes and variant rows (Catalogue: two products, one of which has two   *)
(* variant rows).  The halves meet in one fact each: the stock ledger      *)
(* takes the variants as given, and the catalogue sees of the stock only   *)
(* which rows have goods.  Each behaviour is about one half, chosen at the *)
(* start.                                                                  *)
(***************************************************************************)
EXTENDS StockLedger, Catalogue, TLC

CONSTANTS p1, p2, v1, v2, w1, c1, c2, r1, r2

ModelProductOf == [v \in Variant |-> IF v = w1 THEN p2 ELSE p1]
ModelDefaultVariant == [p \in Product |-> IF p = p2 THEN w1 ELSE v1]
ModelStyleCard == [r \in Style |-> c1]

\* The forms are interchangeable, and so are the shops and the variant rows of one
\* product.  A behaviour is about one half, so the pairs of both are swapped at once.
Swap(S, all) == [x \in S |-> IF all THEN CHOOSE y \in S : y # x ELSE x]
Forms ==
    {Swap(Editor, all) @@ Swap(Cataloguer, all) : all \in BOOLEAN}
        \cup {Swap(Shop, all) @@ Swap(Style, all) : all \in BOOLEAN}

VARIABLE part

ProductsInit ==
    /\ part \in {"stock", "catalogue"}
    /\ Init /\ CatalogueInit

ProductsNext ==
    \/ part = "stock" /\ Next /\ UNCHANGED <<part, catalogueVars>>
    \/ part = "catalogue" /\ CatalogueNext /\ UNCHANGED <<part, vars>>

ProductsSpec == ProductsInit /\ [][ProductsNext]_<<part, vars, catalogueVars>>

ProductsTypeOK == TypeOK /\ CatalogueTypeOK

=============================================================================
