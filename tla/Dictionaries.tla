---------------------------- MODULE Dictionaries ----------------------------
(***************************************************************************)
(* The colours of one shop on their way from the old lists to the shared   *)
(* dictionaries (attribute-dictionaries/): a colour of the old list and    *)
(* each variant that has it point to a dictionary value.  The sizes and    *)
(* the seasons are handled in the same way.                                *)
(*                                                                         *)
(* The links are written by four: the reviewed audit (applyCompany), the   *)
(* product form (ensureLegacyLink), the triggers on the variants and the   *)
(* rollback of what has been logged (rollbackCompany).  A transaction that *)
(* writes a variant reads the link of its colour in the trigger and        *)
(* commits later; the form chooses a colour without a link and writes it   *)
(* later, whatever it has by then.                                         *)
(*                                                                         *)
(* History: `stranded`, variants that a rollback did not treat as their    *)
(* colour, and `outrun`, the link of a colour changed under a write of its *)
(* goods, or between the choice of the colour and its own write.           *)
(***************************************************************************)
EXTENDS Naturals, FiniteSets

CONSTANTS
    Colour, NoColour,     \* ProductColor
    Value, SystemValue,   \* AttributeValue; those with companyId NULL
    NoValue,
    Variety,              \* ProductVariant
    Editor,               \* requests under way
    MaxBatches            \* bound: batches of the binding log

ASSUME DictionaryAssumption ==
    /\ SystemValue \subseteq Value /\ NoValue \notin Value
    /\ NoColour \notin Colour /\ MaxBatches \in Nat

VARIABLES
    known,        \* the values that are there
    archived,     \* archivedAt is set
    colourLink,   \* ProductColor.attributeValueId
    listed,       \* the colours of the old list
    colour,       \* ProductVariant.colorId
    link,         \* ProductVariant.colorValueId
    bindingLog,   \* AttributeBindingLog; oldValueId is always NULL
    batches,
    switchedOn,   \* Company.useAttributeDictionaries
    editor, stranded, outrun

dictionaryVars == <<known, archived, colourLink, listed, colour, link, bindingLog,
                    batches, switchedOn, editor, stranded, outrun>>

Links == Value \cup {NoValue}
Editing == [what : {"nothing", "variant", "form", "link", "new", "remove"},
            variant : Variety \cup {NoColour}, colour : Colour \cup {NoColour},
            value : Links, used : BOOLEAN]
NoEdit == [what |-> "nothing", variant |-> NoColour, colour |-> NoColour,
           value |-> NoValue, used |-> FALSE]
LogRows == [batch : Nat, row : Colour \cup Variety, value : Value]

DictionaryInit ==
    /\ known = SystemValue
    /\ archived = {}
    /\ listed \in SUBSET Colour
    /\ colourLink = [c \in Colour |-> NoValue]
    /\ colour \in [Variety -> listed \cup {NoColour}]
    /\ link = [p \in Variety |-> NoValue]
    /\ bindingLog = {} /\ batches = 0
    /\ switchedOn = FALSE
    /\ editor = [e \in Editor |-> NoEdit]
    /\ stranded = {} /\ outrun = FALSE

SetEditor(e, new) == editor' = [editor EXCEPT ![e] = new]
Answered(e) == SetEditor(e, NoEdit)
OnGoods(v) == \E p \in Variety : link[p] = v

-----------------------------------------------------------------------------
\* attr_dict_variant_links: a new colour of a variant brings its link.
TriggeredLink(p, c) == IF c = NoColour THEN NoValue ELSE colourLink[c]

AskVariant(e, p, c) ==
    /\ editor[e] = NoEdit
    /\ c # colour[p]
    /\ \A d \in Editor : editor[d].variant # p      \* the row is locked
    /\ SetEditor(e, [NoEdit EXCEPT !.what = "variant", !.variant = p, !.colour = c,
                                   !.value = TriggeredLink(p, c)])
    /\ UNCHANGED <<known, archived, colourLink, listed, colour, link, bindingLog,
                   batches, switchedOn, stranded, outrun>>

\* The foreign keys refuse a value or a colour that has gone.
WriteVariant(e) ==
    LET w == editor[e]
    IN  /\ w.what = "variant"
        /\ IF w.value \in known \cup {NoValue}
           THEN /\ colour' = [colour EXCEPT ![w.variant] = w.colour]
                /\ link' = [link EXCEPT ![w.variant] = w.value]
                /\ stranded' = stranded \ {w.variant}
                /\ outrun' = (outrun \/ w.value # TriggeredLink(w.variant, w.colour))
           ELSE UNCHANGED <<colour, link, stranded, outrun>>
        /\ Answered(e)
        /\ UNCHANGED <<known, archived, colourLink, listed, bindingLog, batches, switchedOn>>

-----------------------------------------------------------------------------
\* Goods of the colours in the map that have no link yet get one.
Filled(of) == [p \in Variety |->
    IF link[p] = NoValue /\ colour[p] \in DOMAIN of THEN of[colour[p]] ELSE link[p]]
FilledBy(of) == {p \in Variety : Filled(of)[p] # link[p]}

(* applyCompany: the values that the reviewed audit gives to colours without a
   link; one that is not there is created.  What is skipped is not in `of`. *)
ApplyCompany(of) ==
    LET new == [c \in {d \in DOMAIN of : colourLink[d] = NoValue /\ d \in listed} |-> of[c]]
    IN  /\ batches < MaxBatches
        /\ batches' = batches + 1
        /\ known' = known \cup {of[c] : c \in DOMAIN of}
        /\ colourLink' = [c \in Colour |-> IF c \in DOMAIN new THEN new[c] ELSE colourLink[c]]
        /\ link' = Filled(new)
        /\ bindingLog' = bindingLog
              \cup {[batch |-> batches, row |-> c, value |-> new[c]] : c \in DOMAIN new}
              \cup {[batch |-> batches, row |-> p, value |-> link'[p]] : p \in FilledBy(new)}
        /\ stranded' = stranded \ FilledBy(new)
        /\ UNCHANGED <<archived, listed, colour, switchedOn, editor, outrun>>

\* linkLegacy: the dictionaries are on and the value is not archived.
AskForm(e, v) ==
    /\ editor[e] = NoEdit
    /\ switchedOn /\ v \in known \ archived
    /\ SetEditor(e, [NoEdit EXCEPT !.what = "form", !.value = v])
    /\ UNCHANGED <<known, archived, colourLink, listed, colour, link, bindingLog,
                   batches, switchedOn, stranded, outrun>>

(* ensureLegacyLink reads first: a colour that has the link, one without a link
   that matches (which one depends on names and shades), or a new one. *)
FindForm(e) ==
    LET v == editor[e].value
    IN  /\ editor[e].what = "form"
        /\ IF \E c \in listed : colourLink[c] = v THEN Answered(e)
           ELSE \E c \in Colour :
                /\ colourLink[c] = NoValue
                /\ SetEditor(e, [editor[e] EXCEPT
                       !.what = IF c \in listed THEN "link" ELSE "new", !.colour = c])
        /\ UNCHANGED <<known, archived, colourLink, listed, colour, link, bindingLog,
                       batches, switchedOn, stranded, outrun>>

FormLink(c, v) == link' = Filled([x \in {c} |-> v])

(* ... and writes that colour by its id, with a link or not by now, and fills its
   goods without a log row.  A value that has gone, and a name that somebody else
   has created, are refused. *)
LinkForm(e) ==
    LET v == editor[e].value
        c == editor[e].colour
    IN  /\ editor[e].what \in {"link", "new"}
        /\ IF v \notin known \/ (editor[e].what = "new" /\ c \in listed)
           THEN UNCHANGED <<colourLink, listed, link, bindingLog, batches, stranded, outrun>>
           ELSE /\ batches < MaxBatches
                /\ colourLink' = [colourLink EXCEPT ![c] = v]
                /\ listed' = listed \cup {c}
                /\ FormLink(c, v)
                /\ stranded' = stranded \ FilledBy([x \in {c} |-> v])
                /\ bindingLog' = bindingLog \cup {[batch |-> batches, row |-> c, value |-> v]}
                /\ batches' = batches + 1
                /\ outrun' = (outrun \/ colourLink[c] # NoValue)
        /\ Answered(e)
        /\ UNCHANGED <<known, archived, colour, switchedOn>>

\* A column that still holds the logged value gets the old one back.
Reverted(row, value, rows) ==
    IF \E x \in rows : x.row = row /\ x.value = value THEN NoValue ELSE value

\* The rows say of a variant what they say of its colour.
Alike(p, rows) ==
    LET said(row, value) == \E x \in rows : x.row = row /\ x.value = value
    IN  link[p] # NoValue => (said(p, link[p]) <=> said(colour[p], link[p]))

\* rollbackCompany, of one batch or of all
RollbackCompany(which) ==
    LET rows == {x \in bindingLog : x.batch \in which}
    IN  /\ colourLink' = [c \in Colour |-> Reverted(c, colourLink[c], rows)]
        /\ link' = [p \in Variety |-> Reverted(p, link[p], rows)]
        /\ switchedOn' = FALSE
        /\ stranded' = stranded \cup {p \in Variety : ~Alike(p, rows)}
        /\ UNCHANGED <<known, archived, listed, colour, bindingLog, batches,
                       editor, outrun>>

-----------------------------------------------------------------------------
\* create, of a value of the shop
CreateValue(v) ==
    /\ v \notin known
    /\ known' = known \cup {v}
    /\ UNCHANGED <<archived, colourLink, listed, colour, link, bindingLog, batches,
                   switchedOn, editor, stranded, outrun>>

\* update: is_archived of a value of the shop
ArchiveValue(v) ==
    /\ v \in known \ SystemValue
    /\ archived' \in {archived \cup {v}, archived \ {v}}
    /\ UNCHANGED <<known, colourLink, listed, colour, link, bindingLog, batches,
                   switchedOn, editor, stranded, outrun>>

\* remove: the goods that use it are counted first.
AskRemove(e, v) ==
    /\ editor[e] = NoEdit
    /\ v \in known \ SystemValue
    /\ SetEditor(e, [NoEdit EXCEPT !.what = "remove", !.value = v, !.used = OnGoods(v)])
    /\ UNCHANGED <<known, archived, colourLink, listed, colour, link, bindingLog,
                   batches, switchedOn, stranded, outrun>>

\* A used value is archived; the goods restrict a delete, the old list is unlinked.
RemoveValue(e) ==
    LET v == editor[e].value
    IN  /\ editor[e].what = "remove"
        /\ IF v \in known /\ editor[e].used
           THEN archived' = archived \cup {v} /\ UNCHANGED <<known, colourLink>>
           ELSE IF v \in known /\ ~OnGoods(v)
           THEN /\ known' = known \ {v}
                /\ archived' = archived \ {v}
                /\ colourLink' = [c \in Colour |->
                       IF colourLink[c] = v THEN NoValue ELSE colourLink[c]]
           ELSE UNCHANGED <<known, archived, colourLink>>
        /\ Answered(e)
        /\ UNCHANGED <<listed, colour, link, bindingLog, batches, switchedOn,
                       stranded, outrun>>

\* updateCompany of the platform
SwitchOn(on) ==
    /\ switchedOn' = on
    /\ UNCHANGED <<known, archived, colourLink, listed, colour, link, bindingLog,
                   batches, editor, stranded, outrun>>

DictionaryNext ==
    \/ \E e \in Editor :
        \/ \E p \in Variety, c \in listed \cup {NoColour} : AskVariant(e, p, c)
        \/ WriteVariant(e)
        \/ \E v \in Value : AskForm(e, v) \/ AskRemove(e, v)
        \/ FindForm(e) \/ LinkForm(e) \/ RemoveValue(e)
    \/ \E some \in SUBSET Colour : \E of \in [some -> Value] : ApplyCompany(of)
    \/ \E which \in {{b} : b \in 0..(batches - 1)} \cup {0..batches} : RollbackCompany(which)
    \/ \E v \in Value : CreateValue(v) \/ ArchiveValue(v)
    \/ \E on \in BOOLEAN : SwitchOn(on)

DictionarySpec == DictionaryInit /\ [][DictionaryNext]_dictionaryVars

-----------------------------------------------------------------------------
DictionaryTypeOK ==
    /\ SystemValue \subseteq known /\ known \subseteq Value /\ archived \subseteq known
    /\ listed \subseteq Colour
    /\ colourLink \in [Colour -> known \cup {NoValue}]
    /\ colour \in [Variety -> listed \cup {NoColour}]
    /\ link \in [Variety -> known \cup {NoValue}]
    /\ bindingLog \subseteq LogRows /\ batches \in 0..MaxBatches
    /\ editor \in [Editor -> Editing]
    /\ stranded \subseteq Variety
    /\ {switchedOn, outrun} \subseteq BOOLEAN

(* Goods carry the value of their colour through bindings, forms, recolouring,
   removals and rollbacks, unless their colour was bound while they were
   written or while a form had chosen it (legacy-link.ts:77, :89), or a rollback
   found one of the two links only: what the product form and the triggers link
   is not in the log of the goods (legacy-link.ts:100, binding.ts:600, migration
   20261015120000). *)
LinksFollowColours ==
    ~outrun =>
        \A p \in Variety \ stranded :
            link[p] = (IF colour[p] = NoColour THEN NoValue ELSE colourLink[colour[p]])

=============================================================================
