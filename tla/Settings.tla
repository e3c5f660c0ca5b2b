------------------------------ MODULE Settings ------------------------------
(***************************************************************************)
(* The settings of a company: templates of price tags and of receipts,     *)
(* of which one is the default; its business, product features and time    *)
(* zone (src/company-settings); units and payment types.  Every handler    *)
(* reads before it writes and only a few use a transaction, at read        *)
(* committed; the time zone is also kept in the memory of the server,      *)
(* which a restart empties.  Blocks, sizes and layout are left out, and so *)
(* are the templates, types and shops that only the company of the         *)
(* environment file begins with.                                           *)
(***************************************************************************)
EXTENDS Naturals, FiniteSets

CONSTANTS
    Owner,          \* people who change settings, one request in flight each
    MaxTemplates,   \* bound: templates of each kind ever created
    Business, Flag, \* business types and product features
    PresetFlags,    \* defaultProductFeatures
    Zone, DefaultZone,
    Nothing,        \* a part of a request that is left out; an empty cache
    UnitKind, Piece, MaxUnits,
    TypeName, DebtType,
    Topics          \* bound: the parts a behaviour may be about

ASSUME SettingsAssumption ==
    /\ MaxTemplates \in Nat /\ MaxUnits \in Nat \ {0}
    /\ Business # {} /\ PresetFlags \in [Business -> SUBSET Flag]
    /\ DefaultZone \in Zone /\ Nothing \notin Zone \cup Business \cup Flag
    /\ \A flags \in SUBSET Flag : flags # Nothing
    /\ Piece \in UnitKind /\ DebtType \in TypeName

VARIABLES
    topic,      \* the part the behaviour is about
    templates,  \* PriceTagSetting and ChequeSettings rows, by age
    company,    \* Company.businessType, productFeatureSettings
    profile,    \* time zone of CompanyProfileSetting
    cache,      \* companyTimeZoneCache
    units,      \* MeasurementUnitSetting: how many rows of each unit
    types,      \* CompanyPaymentType names
    errand,     \* the request each owner has in flight
    asked,      \* history: what was last asked of the company
    lapsed,     \* history: the default tag was taken away by request
    muddled     \* history: what was written on an old reading

settingsVars == <<topic, templates, company, profile, cache, units, types, errand,
                  asked, lapsed, muddled>>
companyVars == <<company, profile, cache, asked>>

Slot == 1 .. MaxTemplates
Doing == [step |-> "idle"]

SettingsInit ==
    /\ topic \in Topics
    /\ templates = [k \in {"tag", "cheque"} |-> [n \in Slot |-> "free"]]
    /\ company = [type |-> CHOOSE b \in Business : TRUE, flags |-> Nothing]
    /\ profile = DefaultZone
    /\ cache = Nothing
    /\ units = [u \in UnitKind |-> 0]
    /\ types = {}
    /\ errand = [o \in Owner |-> Doing]
    /\ asked = [type |-> company.type, zone |-> DefaultZone,
                on |-> {}, off |-> {}]
    /\ lapsed = FALSE
    /\ muddled = {}

\* Bound: nothing begins after a request wrote on an old reading.
Ready(o) == errand[o] = Doing /\ muddled = {}

Send(o, request) == errand' = [errand EXCEPT ![o] = request]

Muddling(part, changed) == muddled' = IF changed THEN muddled \cup {part} ELSE muddled

-----------------------------------------------------------------------------
(* Templates.                                                              *)

Present(t) == {n \in Slot : t[n] \in {"plain", "default"}}
DefaultsOf(t) == {n \in Slot : t[n] = "default"}
Unused(t) == {n \in Slot : t[n] = "free" /\ \A m \in 1 .. n - 1 : t[m] # "free"}
Newest(t) == {n \in Present(t) : \A m \in Present(t) : m <= n}
Eldest(t) == {n \in Present(t) : \A m \in Present(t) : n <= m}

Put(k, t) == templates' = [templates EXCEPT ![k] = t]

\* Only the parts of one kind of template change.
TemplatesOnly == UNCHANGED <<topic, companyVars, units, types>>

\* createPriceTag and createChequeTemplate count the templates there are; the
\* first one is the default, and a tag may be asked to be.
AskTemplate(o, k, wanted) ==
    /\ Ready(o)
    /\ wanted => k = "tag"
    /\ Send(o, [step |-> "create", kind |-> k, seen |-> templates[k], rows |-> {},
                default |-> wanted \/ Present(templates[k]) = {}])
    /\ UNCHANGED <<templates, lapsed, muddled>> /\ TemplatesOnly

CreatePlain(o, n) ==
    LET r == errand[o]
    IN  /\ r.step = "create" /\ n \in Unused(templates[r.kind])
        /\ r.kind = "tag" => ~r.default
        /\ Put(r.kind, [templates[r.kind] EXCEPT ![n] = IF r.default THEN "default" ELSE "plain"])
        /\ Muddling(r.kind, templates[r.kind] # r.seen)
        /\ Send(o, Doing)
        /\ UNCHANGED lapsed /\ TemplatesOnly

\* updatePriceTag and updateChequeTemplate, of a template that is there.
AskDefault(o, k, n) ==
    /\ Ready(o)
    /\ n \in Present(templates[k])
    /\ Send(o, [step |-> "make", kind |-> k, seen |-> templates[k], rows |-> {},
                slot |-> n])
    /\ UNCHANGED <<templates, lapsed, muddled>> /\ TemplatesOnly

\* Mutant: the template that was the default stays one.
ClearsNothing(o) == {}

\* updateMany: the rows there are when the statement begins.
Clears(o) == Present(templates[errand[o].kind])

\* The transaction begins; what it clears is seen when it commits.
ClearDefaults(o) ==
    LET r == errand[o]
    IN  /\ r.step = "make" \/ (r.step = "create" /\ r.kind = "tag" /\ r.default)
        /\ Send(o, [r EXCEPT !.step = IF @ = "make" THEN "making" ELSE "creating",
                             !.rows = Clears(o)])
        /\ UNCHANGED <<templates, lapsed, muddled>> /\ TemplatesOnly

\* It commits: a template that is gone fails it.
CommitDefault(o, n) ==
    LET r == errand[o]
        t == templates[r.kind]
    IN  /\ \/ r.step = "making" /\ n = r.slot /\ n \in Present(t)
           \/ r.step = "creating" /\ n \in Unused(t)
        /\ Put(r.kind, [m \in Slot |-> IF m = n THEN "default"
                                       ELSE IF m \in r.rows /\ t[m] = "default" THEN "plain"
                                       ELSE t[m]])
        /\ lapsed' = (lapsed /\ r.kind # "tag")
        /\ Muddling(r.kind, t # r.seen)
        /\ Send(o, Doing)
        /\ TemplatesOnly

\* updatePriceTag with is_default false, one write by id.
ClearTag(o, n) ==
    /\ Ready(o)
    /\ n \in Present(templates["tag"])
    /\ Put("tag", [templates["tag"] EXCEPT ![n] = "plain"])
    /\ lapsed' = (lapsed \/ templates["tag"][n] = "default")
    /\ UNCHANGED <<errand, muddled>> /\ TemplatesOnly

\* deletePriceTag: the row goes, and if it was the default
DeleteTag(o, n) ==
    LET gone == [templates["tag"] EXCEPT ![n] = "gone"]
    IN  /\ Ready(o)
        /\ n \in Present(templates["tag"])
        /\ Put("tag", gone)
        /\ Send(o, IF templates["tag"][n] = "default"
                     THEN [step |-> "promote", seen |-> gone, slot |-> n] ELSE Doing)
        /\ UNCHANGED <<lapsed, muddled>> /\ TemplatesOnly

\* the newest of the others is looked up
FindNext(o) ==
    LET r == errand[o]
    IN  /\ r.step = "promote"
        /\ Send(o, IF Newest(templates["tag"]) = {} THEN Doing
                   ELSE [r EXCEPT !.step = "promoting",
                                  !.slot = CHOOSE n \in Newest(templates["tag"]) : TRUE])
        /\ UNCHANGED <<templates, lapsed, muddled>> /\ TemplatesOnly

\* and becomes the default.
Promote(o) ==
    LET r == errand[o]
    IN  /\ r.step = "promoting" /\ r.slot \in Present(templates["tag"])
        /\ Put("tag", [templates["tag"] EXCEPT ![r.slot] = "default"])
        /\ Muddling("tag", templates["tag"] # r.seen)
        /\ Send(o, Doing)
        /\ UNCHANGED lapsed /\ TemplatesOnly

\* deleteChequeTemplate refuses the default one, as it reads it.
AskDeleteCheque(o, n) ==
    /\ Ready(o)
    /\ templates["cheque"][n] = "plain"
    /\ Send(o, [step |-> "delete", kind |-> "cheque", slot |-> n,
                seen |-> templates["cheque"]])
    /\ UNCHANGED <<templates, lapsed, muddled>> /\ TemplatesOnly

DeleteCheque(o) ==
    LET r == errand[o]
    IN  /\ r.step = "delete" /\ r.slot \in Present(templates["cheque"])
        /\ Put("cheque", [templates["cheque"] EXCEPT ![r.slot] = "gone"])
        /\ Muddling("cheque", templates["cheque"] # r.seen)
        /\ Send(o, Doing)
        /\ UNCHANGED lapsed /\ TemplatesOnly

\* getOrCreateDefaultChequeTemplate: with no default, the eldest template is
\* made one, or one is created.
AskCheque(o) ==
    LET t == templates["cheque"]
    IN  /\ Ready(o)
        /\ DefaultsOf(t) = {}
        /\ Send(o, [step |-> "heal", kind |-> "cheque", rows |-> Eldest(t), seen |-> t])
        /\ UNCHANGED <<templates, lapsed, muddled>> /\ TemplatesOnly

HealCheque(o, n) ==
    LET r == errand[o]
        t == templates["cheque"]
    IN  /\ r.step = "heal"
        /\ IF r.rows = {} THEN n \in Unused(t) ELSE n \in r.rows \cap Present(t)
        /\ Put("cheque", [t EXCEPT ![n] = "default"])
        /\ Muddling("cheque", t # r.seen)
        /\ Send(o, Doing)
        /\ UNCHANGED lapsed /\ TemplatesOnly

TemplateStep(o, k) ==
    \/ \E wanted \in BOOLEAN : AskTemplate(o, k, wanted)
    \/ ClearDefaults(o)
    \/ \E n \in Slot : AskDefault(o, k, n) \/ CreatePlain(o, n) \/ CommitDefault(o, n)

TagStep(o) ==
    \/ TemplateStep(o, "tag")
    \/ \E n \in Slot : ClearTag(o, n) \/ DeleteTag(o, n)
    \/ FindNext(o)
    \/ Promote(o)

ChequeStep(o) ==
    \/ TemplateStep(o, "cheque")
    \/ \E n \in Slot : AskDeleteCheque(o, n) \/ HealCheque(o, n)
    \/ DeleteCheque(o)
    \/ AskCheque(o)

-----------------------------------------------------------------------------
(* The company.                                                            *)

CompanyOnly == UNCHANGED <<topic, templates, units, types, lapsed>>

\* normalizeProductFeatures: what is stored, or what the business begins with.
Normalized(type, flags) == IF flags = Nothing THEN PresetFlags[type] ELSE flags

\* updateCompany reads the company,
AskCompany(o, type, on, off, zone) ==
    /\ Ready(o)
    /\ Send(o, [step |-> "company", type |-> type, on |-> on, off |-> off, zone |-> zone,
                read |-> company])
    /\ UNCHANGED <<companyVars, muddled>> /\ CompanyOnly

\* writes business and features if it names any,
WriteCompany(o) ==
    LET r == errand[o]
        type == IF r.type = Nothing THEN r.read.type ELSE r.type
        named == r.type # Nothing \/ r.on \cup r.off # {}
    IN  /\ r.step = "company"
        /\ IF named
             THEN /\ company' = [type |-> type,
                                 flags |-> (Normalized(type, r.read.flags) \ r.off) \cup r.on]
                  /\ asked' = [asked EXCEPT !.type = type, !.on = (@ \ r.off) \cup r.on,
                                            !.off = (@ \ r.on) \cup r.off]
                  /\ Muddling("company", company # r.read)
             ELSE UNCHANGED <<company, asked, muddled>>
        /\ Send(o, [step |-> "profile", zone |-> r.zone])
        /\ UNCHANGED <<profile, cache>> /\ CompanyOnly

\* reads the profile,
ReadProfile(o) ==
    LET r == errand[o]
    IN  /\ r.step = "profile"
        /\ Send(o, [step |-> IF r.zone = Nothing THEN "store" ELSE "zone",
                    zone |-> r.zone, read |-> profile])
        /\ UNCHANGED <<companyVars, muddled>> /\ CompanyOnly

\* Another request has put its zone in the cache and not yet in the profile.
CachedByAnother(o) ==
    \E p \in Owner \ {o} : errand[p].step = "store" /\ errand[p].zone # Nothing

\* puts the zone it names in the cache
CacheZone(o) ==
    LET r == errand[o]
    IN  /\ r.step = "zone"
        /\ cache' = r.zone
        /\ Muddling("zone", profile # r.read \/ CachedByAnother(o))
        /\ Send(o, [r EXCEPT !.step = "store"])
        /\ UNCHANGED <<company, profile, asked>> /\ CompanyOnly

\* and writes the profile as it was read, with the zone.
StoreProfile(o) ==
    LET r == errand[o]
    IN  /\ r.step = "store"
        /\ profile' = IF r.zone = Nothing THEN r.read ELSE r.zone
        /\ asked' = [asked EXCEPT !.zone = IF r.zone = Nothing THEN @ ELSE r.zone]
        /\ Muddling("zone", profile # r.read)
        /\ Send(o, Doing)
        /\ UNCHANGED <<company, cache>> /\ CompanyOnly

\* getCompany and getCompanyTimeZone read the profile, look the zone up and
\* cache it.
AskZone(o) ==
    /\ Ready(o)
    /\ Send(o, [step |-> "show", read |-> profile])
    /\ UNCHANGED <<companyVars, muddled>> /\ CompanyOnly

ShowZone(o) ==
    LET r == errand[o]
    IN  /\ r.step = "show"
        /\ cache' = r.read
        /\ Muddling("zone", profile # r.read \/ CachedByAnother(o))
        /\ Send(o, Doing)
        /\ UNCHANGED <<company, profile, asked>> /\ CompanyOnly

\* getDefaultTimeZone: dates are shown in the zone of the cache, and in the default
\* one when nobody has read or written the company's since the server began.
ShownZone == IF cache = Nothing THEN DefaultZone ELSE cache
ZoneUnread == cache = Nothing

CompanyStep(o) ==
    \/ \E type \in Business \cup {Nothing}, flag \in Flag \cup {Nothing},
          on \in BOOLEAN, zone \in Zone \cup {Nothing} :
          LET named == {flag} \ {Nothing}
          IN  /\ zone = Nothing \/ (type = Nothing /\ named = {})   \* bound
              /\ AskCompany(o, type, IF on THEN named ELSE {}, IF on THEN {} ELSE named, zone)
    \/ WriteCompany(o)
    \/ ReadProfile(o)
    \/ CacheZone(o)
    \/ StoreProfile(o)
    \/ AskZone(o)
    \/ ShowZone(o)

-----------------------------------------------------------------------------
(* Units and payment types.                                                *)

ListsOnly == UNCHANGED <<topic, templates, companyVars, lapsed>>

\* ensureMeasurementUnitsSeeded: the rows have ids of their own.
Seeded(us) == IF \A u \in UnitKind : us[u] = 0 THEN [us EXCEPT ![Piece] = 1] ELSE us

\* createMeasurementUnit: no unit may be the same under another spelling.
AskUnit(o, u) ==
    /\ Ready(o)
    /\ units' = Seeded(units)
    /\ units'[u] = 0
    /\ Send(o, [step |-> "unit", unit |-> u, seen |-> units'])
    /\ UNCHANGED <<types, muddled>> /\ ListsOnly

CreateUnit(o) ==
    LET r == errand[o]
    IN  /\ r.step = "unit" /\ units[r.unit] < MaxUnits
        /\ units' = [units EXCEPT ![r.unit] = @ + 1]
        /\ Muddling("unit", units # r.seen)
        /\ Send(o, Doing)
        /\ UNCHANGED types /\ ListsOnly

\* createCompanyPaymentType; names are unique.
CreateType(o, t) ==
    /\ Ready(o)
    /\ t \notin types
    /\ types' = types \cup {t}
    /\ UNCHANGED <<units, errand, muddled>> /\ ListsOnly

\* updateCompanyPaymentType, deleteCompanyPaymentType: any type, the one of
\* debts too; who is making a list may have read it.
RemoveType(o, t, new) ==
    /\ Ready(o)
    /\ t \in types /\ new \subseteq TypeName \ types
    /\ types' = (types \ {t}) \cup new
    /\ Muddling("types", t = DebtType /\ \E p \in Owner : errand[p].step = "list")
    /\ UNCHANGED <<units, errand>> /\ ListsOnly

\* ensureDebtCompanyPaymentType, and the list that is read after it.
AskTypes(o) ==
    /\ Ready(o)
    /\ types' = types \cup {DebtType}
    /\ Send(o, [step |-> "list"])
    /\ UNCHANGED <<units, muddled>> /\ ListsOnly

ListStep(o) ==
    \/ \E u \in UnitKind : AskUnit(o, u)
    \/ CreateUnit(o)
    \/ AskTypes(o)
    \/ \E t \in TypeName :
          \/ CreateType(o, t)
          \/ RemoveType(o, t, {}) \/ \E s \in TypeName : RemoveType(o, t, {s})

-----------------------------------------------------------------------------
\* A request is answered, refused or dies where it is.
EndErrand(o) ==
    /\ errand[o] # Doing
    /\ Send(o, Doing)
    /\ Muddling("zone", errand[o].step = "store" /\ errand[o].zone # Nothing)
    /\ lapsed' = (lapsed \/ errand[o].step \in {"promote", "promoting"})
    /\ UNCHANGED <<topic, templates, companyVars, units, types>>

\* The server stops: the requests die and its memory goes with them.
RestartServer ==
    /\ topic = "company"
    /\ errand' = [o \in Owner |-> Doing]
    /\ cache' = Nothing
    /\ UNCHANGED <<company, profile, asked, muddled>> /\ CompanyOnly

SettingsNext ==
    \/ \E o \in Owner :
          \/ topic = "tags" /\ TagStep(o)
          \/ topic = "cheques" /\ ChequeStep(o)
          \/ topic = "company" /\ CompanyStep(o)
          \/ topic = "lists" /\ ListStep(o)
          \/ EndErrand(o)
    \/ RestartServer

SettingsSpec == SettingsInit /\ [][SettingsNext]_settingsVars

-----------------------------------------------------------------------------
SettingsTypeOK ==
    /\ topic \in Topics
    /\ templates \in [{"tag", "cheque"} -> [Slot -> {"free", "plain", "default", "gone"}]]
    /\ company \in [type : Business, flags : {Nothing} \cup SUBSET Flag]
    /\ profile \in Zone /\ cache \in Zone \cup {Nothing}
    /\ units \in [UnitKind -> 0 .. MaxUnits]
    /\ types \subseteq TypeName
    /\ \A o \in Owner : errand[o].step \in
          {"idle", "create", "make", "making", "creating", "promote", "promoting", "delete",
           "heal", "company", "profile", "zone", "store", "show", "unit", "list"}
    /\ asked \in [type : Business, zone : Zone, on : SUBSET Flag, off : SUBSET Flag]
    /\ lapsed \in BOOLEAN
    /\ muddled \subseteq {"tag", "cheque", "company", "zone", "unit", "types"}

\* "sale-time printing always has exactly one unambiguous template to fall back
\* to": two templates are never the default, and there is one when there are
\* templates, unless somebody wrote on an old reading; a tag may also be made
\* plain by request, or its heir be lost with the request that was to name it.
TemplatesHaveDefault ==
    \A k \in {"tag", "cheque"} :
        LET t == templates[k]
            naming == \E o \in Owner : errand[o].step \in {"promote", "promoting"}
        IN  k \notin muddled =>
              /\ Cardinality(DefaultsOf(t)) <= 1
              /\ Present(t) # {} => DefaultsOf(t) # {} \/ (k = "tag" /\ (lapsed \/ naming))

\* "A partial product_features payload keeps the stored flags it omits": the
\* business, each feature and the zone are what was last asked for, unless
\* requests muddled or one died between the cache and the profile; and from the
\* first time it is read after a start of the server, the zone dates are shown in
\* is the company's.  Until then it is the default, whatever the company asked.
CompanyAsAsked ==
    /\ "company" \notin muddled =>
          /\ company.type = asked.type
          /\ company.flags # Nothing =>
                asked.on \subseteq company.flags /\ asked.off \cap company.flags = {}
    /\ "zone" \notin muddled =>
          /\ profile = asked.zone
          /\ (\A o \in Owner : errand[o].step # "store") => ShownZone = profile \/ ZoneUnread

\* No unit is there twice, unless two were created at once; and while payment
\* types are listed the one of debts is among them, unless it is removed then.
ListsAreWhole ==
    /\ "unit" \notin muddled => \A u \in UnitKind : units[u] <= 1
    /\ "types" \notin muddled /\ (\E o \in Owner : errand[o].step = "list") =>
          DebtType \in types

SettingsStand == TemplatesHaveDefault /\ CompanyAsAsked /\ ListsAreWhole

=============================================================================
