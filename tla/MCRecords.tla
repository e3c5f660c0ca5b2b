------------------------------ MODULE MCRecords ------------------------------
(***************************************************************************)
(* Parts of the server that share no row: the account and the card of a    *)
(* client, the sessions of a user, the dictionaries of a shop and the      *)
(* links between them, the roles and the settings of a company.  Each      *)
(* behaviour is about one of them, chosen at the start; the others stay.   *)
(***************************************************************************)
EXTENDS ClientAccounts, ClientCards, AuthSessions, Dictionaries, Attributes, Roles,
        Settings, TLC

CONSTANTS k1, k2, view, sell, seller, clothes, sA, mA, w1, w2, d1

VARIABLE subject

recordVars == <<subject, vars, cardVars, sessionVars, dictionaryVars,
                attributeVars, roleVars, settingsVars>>

\* The parts a behaviour is not about begin in one state.
RecordsInit ==
    /\ subject \in {"client", "card", "sessions", "dictionary", "attributes", "roles",
                    "settings"}
    /\ Init /\ CardInit /\ SessionInit /\ DictionaryInit /\ AttributeInit /\ RoleInit
    /\ SettingsInit
    /\ subject # "sessions" => able
    /\ subject # "dictionary" => listed = {} /\ \A p \in Variety : colour[p] = NoColour
    /\ subject # "attributes" => kind = "season"
    /\ subject # "settings" => topic = "lists"
    /\ subject # "roles" => \A r \in Role : Here(r) => r = CHOOSE o \in Role : TRUE

RecordsNext ==
    \/ subject = "client" /\ Next
       /\ UNCHANGED <<subject, cardVars, sessionVars, dictionaryVars,
                      attributeVars, roleVars, settingsVars>>
    \/ subject = "card" /\ CardNext
       /\ UNCHANGED <<subject, vars, sessionVars, dictionaryVars,
                      attributeVars, roleVars, settingsVars>>
    \/ subject = "sessions" /\ SessionNext
       /\ UNCHANGED <<subject, vars, cardVars, dictionaryVars,
                      attributeVars, roleVars, settingsVars>>
    \/ subject = "dictionary" /\ DictionaryNext
       /\ UNCHANGED <<subject, vars, cardVars, sessionVars,
                      attributeVars, roleVars, settingsVars>>
    \/ subject = "attributes" /\ AttributeNext
       /\ UNCHANGED <<subject, vars, cardVars, sessionVars,
                      dictionaryVars, roleVars, settingsVars>>
    \/ subject = "roles" /\ RoleNext
       /\ UNCHANGED <<subject, vars, cardVars, sessionVars,
                      dictionaryVars, attributeVars, settingsVars>>
    \/ subject = "settings" /\ SettingsNext
       /\ UNCHANGED <<subject, vars, cardVars, sessionVars,
                      dictionaryVars, attributeVars, roleVars>>

RecordsSpec == RecordsInit /\ [][RecordsNext]_recordVars

RecordsTypeOK ==
    CASE subject = "client" -> TypeOK
      [] subject = "card" -> CardTypeOK
      [] subject = "sessions" -> SessionTypeOK
      [] subject = "dictionary" -> DictionaryTypeOK
      [] subject = "attributes" -> AttributeTypeOK
      [] subject = "roles" -> RoleTypeOK
      [] subject = "settings" -> SettingsTypeOK

\* The two generations of dictionaries: links follow the colours goods have, and
\* entries written on a reading keep no twins and lose no goods.
DictionariesAgree ==
    CASE subject = "dictionary" -> LinksFollowColours
      [] subject = "attributes" -> AttributesAgree
      [] OTHER -> TRUE

\* What offices write on a reading, settings and the cards of clients, is what was
\* last asked for.
OfficesAgree ==
    CASE subject = "settings" -> SettingsStand
      [] subject = "card" -> CardsAgree
      [] OTHER -> TRUE

\* A repayment key asks for one unit.
ModelKeyAmount == [k \in Key |-> 1]

\* The role every company begins with may sell.
ModelDefaults == [n \in {seller} |-> [admin |-> FALSE, slugs |-> {k2}]]
ModelFlags == [b \in Business |-> IF b = clothes THEN Flag ELSE {}]
ModelSlugOf == [p \in Permission |-> IF p = view THEN k1 ELSE k2]

\* One name in two spellings. Twins are looked for in a dictionary no goods use;
\* options describe two variants of a product, and attributes a variant and a
\* product.
ModelKeyOf == [s \in Spelling |-> sA]
Scene(dictionary, names, codes, goods) ==
    [kind |-> dictionary, names |-> names, codes |-> codes, goods |-> goods]
ModelScenes ==
    {Scene("colour", Spelling, {mA}, {}), Scene("colour", {sA}, {}, {w1}),
     Scene("size", Spelling, {sA}, {}), Scene("season", Spelling, {}, {d1}),
     Scene("option", Spelling, {}, {}), Scene("option", {sA}, {}, {w1, w2}),
     Scene("definition", Spelling, {}, {w1, d1})}
ModelScene == {Scene("season", Spelling, {}, {})}

\* Requests are interchangeable, and so are colours and adjustments (invariants
\* only).  A behaviour is about one part, so all the pairs are swapped at once.
Swap(S, all) == [x \in S |-> IF all THEN CHOOSE y \in S : y # x ELSE x]
Offices ==
    {Swap(Caller, all) @@ Swap(Manager, all) @@ Swap(Owner, all)
        @@ Swap(Front, all) @@ Swap(Clerk, all) @@ Swap(Adjustment, all)
        @@ Swap(Colour, all) : all \in BOOLEAN}

=============================================================================
