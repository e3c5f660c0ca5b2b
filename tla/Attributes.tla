----------------------------- MODULE Attributes -----------------------------
(***************************************************************************)
(* The dictionaries goods are described with (src/product-attributes):     *)
(* colours, sizes, seasons, a company's own attributes and their options.  *)
(* The five share one pattern: a request reads every entry, refuses a twin *)
(* under another spelling, and writes later under whatever the unique      *)
(* indexes still admit; an entry in use is not removed; and the foreign    *)
(* keys let go of the goods that began to use it in between.  An entry has *)
(* a name and a mark: the HEX of a colour, the grid of a size, the         *)
(* attribute an option belongs to, the role of an attribute.  The options  *)
(* the triggers mirror from colours and sizes change in the same           *)
(* statement and are left out, and so are seeded entries, activity,        *)
(* order, translations and attributes whose code is not generated.         *)
(***************************************************************************)
EXTENDS Naturals, FiniteSets

CONSTANTS
    Scenes,         \* bound: what a behaviour may be about: a dictionary, the names
                    \* typed into it, codes typed by hand and the goods described
    Entry, Clerk,
    Spelling,       \* names as they are typed
    KeyOf,          \* nameKey: the one of them they are compared as
    Mark,
    AxisMark,       \* the attributes that tell variants apart
    Member,         \* variants of one product, and products
    Variant, Active,
    MaxCrossed,     \* bound: no request begins after so many that crossed
    Unset

ASSUME AttributesAssumption ==
    /\ KeyOf \in [Spelling -> Spelling]
    /\ \A s \in Spelling : KeyOf[KeyOf[s]] = KeyOf[s]
    /\ AxisMark \in Mark /\ Active \subseteq Variant /\ Variant \subseteq Member
    /\ Unset \notin Spelling \cup Mark /\ Spelling \cap Mark = {}
    /\ MaxCrossed \in Nat
    /\ Scenes \subseteq [kind : {"colour", "size", "season", "option", "definition"},
                         names : SUBSET Spelling, codes : SUBSET (Spelling \cup Mark),
                         goods : SUBSET Member]

VARIABLES
    scene,      \* what the behaviour is about
    rows,       \* its entries
    members,    \* what each variant or product is described with
    desk,       \* the request each clerk has in flight
    chosen,     \* history: what a variant or product was last given
    late,       \* history: what was written since each clerk's reading
    outdated    \* history: what was written on an old reading

attributeVars == <<scene, rows, members, desk, chosen, late, outdated>>

kind == scene.kind

Code == [base : Spelling \cup Mark, suffix : {1, 2} \cup Mark]
NoCode == [base |-> Unset]
Free == [at |-> "free"]
Removed == [at |-> "removed"]
AtDesk == [step |-> "idle"]

AttributeInit ==
    /\ scene \in Scenes
    /\ rows = [e \in Entry |-> Free]
    /\ members = [u \in Member |-> {}]
    /\ desk = [p \in Clerk |-> AtDesk]
    /\ chosen = members
    /\ late = [p \in Clerk |-> {}]
    /\ outdated = {}

Listed == {e \in Entry : rows[e] \notin {Free, Removed}}
Others(e) == Listed \ {e}

Request(p, r) ==
    /\ desk[p] = AtDesk
    /\ Cardinality(outdated) < MaxCrossed
    /\ desk' = [desk EXCEPT ![p] = r]
    /\ UNCHANGED <<scene, rows, members, chosen, late, outdated>>

\* The request ends with a write, which makes the readings of the others old.
Finish(p, what) ==
    /\ desk' = [desk EXCEPT ![p] = AtDesk]
    /\ late' = [q \in Clerk |-> IF q = p \/ desk[q] = AtDesk THEN {} ELSE late[q] \cup {what}]
    /\ outdated' = IF late[p] = {} THEN outdated ELSE outdated \cup late[p] \cup {what}
    /\ UNCHANGED scene

-----------------------------------------------------------------------------
(* Names, twins and codes.                                                 *)

\* A colour without a name of its own is named by its HEX.
NameKey(name) == IF name \in Mark THEN name ELSE KeyOf[name]

\* A size is stored as its code, whatever was typed.
StoredName(name, mark) ==
    CASE name = Unset -> mark
      [] kind = "size" -> KeyOf[name]
      [] OTHER -> name

\* The entry a new one is a twin of: an exact HEX or a name, or a size once so
\* coded.
IsTwin(new, old) ==
    LET named == NameKey(old.name) = NameKey(new.name)
    IN  CASE kind = "colour" -> old.mark = new.mark \/ (new.name # new.mark /\ named)
          [] kind = "size" ->
               old.mark = new.mark
               /\ (named \/ old.code = [base |-> new.name, suffix |-> 1])
          [] kind = "option" -> old.mark = new.mark /\ named
          [] OTHER -> named

\* The codes a new entry may be given, in order of preference.
Codes(name, mark) ==
    CASE kind = "colour" -> <<[base |-> mark, suffix |-> 1], [base |-> mark, suffix |-> 2]>>
      [] kind = "size" -> <<[base |-> name, suffix |-> 1], [base |-> name, suffix |-> mark]>>
      [] kind = "season" -> <<[base |-> KeyOf[name], suffix |-> 1],
                              [base |-> KeyOf[name], suffix |-> 2]>>
      [] OTHER -> <<NoCode, NoCode>>

Taken(code) == code # NoCode /\ \E e \in Listed : rows[e].code = code

\* The unique indexes.
Admits(e, row) ==
    \A f \in Others(e) :
        /\ row.code = NoCode \/ rows[f].code # row.code
        /\ kind = "colour" => rows[f].name # row.name
        /\ kind \in {"size", "option"} => <<rows[f].mark, rows[f].name>> # <<row.mark, row.name>>

-----------------------------------------------------------------------------
(* Entries.                                                                *)

FreeCode(name, mark) ==
    LET codes == Codes(name, mark)
    IN  IF Taken(codes[1]) THEN codes[2] ELSE codes[1]

\* createColor, createSize, createSeason, createOption, create: the reading; the
\* code of a season is looked for in readings of their own,
AskEntry(p, typed, mark) ==
    LET name == StoredName(typed, mark)
        code == IF kind = "season" THEN NoCode ELSE FreeCode(name, mark)
        row == [name |-> name, mark |-> mark, code |-> code]
    IN  /\ typed = Unset => kind = "colour"
        /\ kind = "season" => mark = AxisMark
        /\ ~Taken(code)
        /\ \A f \in Listed : ~IsTwin(row, rows[f])
        /\ Request(p, [step |-> IF kind = "season" THEN "named" ELSE "create", row |-> row])

\* resolveDictionaryCode
ChooseCode(p) ==
    LET row == desk[p].row
        code == FreeCode(row.name, row.mark)
    IN  /\ desk[p].step = "named"
        /\ ~Taken(code)
        /\ desk' = [desk EXCEPT ![p] = [step |-> "create", row |-> [row EXCEPT !.code = code]]]
        /\ UNCHANGED <<scene, rows, members, chosen, late, outdated>>

\* and the write.
CreateEntry(p, e) ==
    LET r == desk[p]
    IN  /\ r.step = "create"
        /\ rows[e] = Free
        /\ Admits(e, r.row)
        /\ rows' = [rows EXCEPT ![e] = r.row]
        /\ Finish(p, "create")
        /\ UNCHANGED <<members, chosen>>

\* Mutant: only variants are counted.
HeldByVariants(e) == \E u \in Variant : e \in members[u]

InUse(e) == \E u \in Member : e \in members[u]

\* The name belongs to another entry, of the same grid or attribute.
NameTaken(e, name) ==
    \E f \in Others(e) :
        /\ kind \in {"size", "option"} => rows[f].mark = rows[e].mark
        /\ NameKey(rows[f].name) = NameKey(name)

\* updateColor, updateSize, updateSeason, updateOption, update, of a name.
AskName(p, e, typed) ==
    LET name == StoredName(typed, Unset)
    IN  /\ e \in Listed /\ name # rows[e].name
        /\ ~NameTaken(e, name)
        /\ Request(p, [step |-> "edit", entry |-> e, name |-> name, mark |-> Unset,
                       code |-> Unset])

\* Of a mark: another HEX is compared and renames a colour named by its old one;
\* another grid is not; another role only while the attribute is unused.
AskMark(p, e, mark) ==
    /\ kind \in {"colour", "size", "definition"}
    /\ e \in Listed /\ mark # rows[e].mark
    /\ kind = "colour" => \A f \in Others(e) : rows[f].mark # mark
    /\ kind = "definition" => ~InUse(e)
    /\ Request(p, [step |-> "edit", entry |-> e, mark |-> mark, code |-> Unset,
                   name |-> IF rows[e].name \in Mark THEN mark ELSE Unset])

\* Of a code.
AskCode(p, e, code) ==
    /\ kind \in {"colour", "size"}
    /\ e \in Listed /\ code # rows[e].code
    /\ Request(p, [step |-> "edit", entry |-> e, mark |-> Unset, name |-> Unset,
                   code |-> code])

\* The fields the request named are written.
EditEntry(p) ==
    LET r == desk[p]
        old == rows[r.entry]
        row == [name |-> IF r.name = Unset THEN old.name ELSE r.name,
                mark |-> IF r.mark = Unset THEN old.mark ELSE r.mark,
                code |-> IF r.code = Unset THEN old.code ELSE r.code]
    IN  /\ r.step = "edit"
        /\ r.entry \in Listed
        /\ Admits(r.entry, row)
        /\ rows' = [rows EXCEPT ![r.entry] = row]
        /\ Finish(p, "edit")
        /\ UNCHANGED <<members, chosen>>

\* deleteColor, deleteSize, deleteSeason, removeOption, remove.
AskRemoval(p, e) ==
    /\ e \in Listed
    /\ ~InUse(e)
    /\ Request(p, [step |-> "delete", entry |-> e])

\* The values of goods are set to null or deleted with the entry; who is writing
\* such a value holds the entry until the end of the transaction.
RemoveEntry(p) ==
    LET r == desk[p]
    IN  /\ r.step = "delete"
        /\ r.entry \in Listed
        /\ \A q \in Clerk : desk[q].step = "checked" => r.entry \notin desk[q].values
        /\ rows' = [rows EXCEPT ![r.entry] = Removed]
        /\ members' = [u \in Member |-> members[u] \ {r.entry}]
        /\ Finish(p, "delete")
        /\ UNCHANGED chosen

-----------------------------------------------------------------------------
(* Goods.                                                                  *)

\* The product form writes a colour, a size or a season; the foreign key refuses
\* one that is not there.
DescribeMember(p, u, S) ==
    /\ kind \in {"colour", "size", "season"}
    /\ S \subseteq Listed /\ Cardinality(S) <= 1
    /\ desk[p] = AtDesk
    /\ Cardinality(outdated) < MaxCrossed
    /\ members' = [members EXCEPT ![u] = S]
    /\ chosen' = [chosen EXCEPT ![u] = S]
    /\ Finish(p, "assign")
    /\ UNCHANGED rows

\* setVariantValues and setProductValues: resolveValues looks the attributes and
\* options up before the transaction. A variant takes attributes that are axes,
\* a product the others; one option of an attribute.
AskDescription(p, u, S) ==
    /\ kind \in {"option", "definition"}
    /\ S \subseteq Listed
    /\ kind = "option" => \A e, f \in S : rows[e].mark = rows[f].mark => e = f
    /\ kind = "definition" => \A e \in S : rows[e].mark = AxisMark <=> u \in Variant
    /\ S # members[u]
    /\ Request(p, [step |-> "values", member |-> u, values |-> S])

\* Another active variant of the product with the same options.
SameVariants(u, S) ==
    {w \in Active \ {u} : kind = "option" /\ u \in Variant /\ S # {} /\ members[w] = S}

\* The transaction writes the values and reads the variants that are committed;
\* two of one variant wait for each other.
CheckDescription(p) ==
    LET r == desk[p]
    IN  /\ r.step = "values"
        /\ r.values \subseteq Listed
        /\ \A q \in Clerk : desk[q].step = "checked" => desk[q].member # r.member
        /\ SameVariants(r.member, r.values) = {}
        /\ desk' = [desk EXCEPT ![p].step = "checked"]
        /\ UNCHANGED <<scene, rows, members, chosen, late, outdated>>

CommitDescription(p) ==
    LET r == desk[p]
    IN  /\ r.step = "checked"
        /\ members' = [members EXCEPT ![r.member] = r.values]
        /\ chosen' = [chosen EXCEPT ![r.member] = r.values]
        /\ Finish(p, "assign")
        /\ UNCHANGED rows

\* A request is refused, or dies where it is.
DropRequest(p) ==
    /\ desk[p] # AtDesk
    /\ desk' = [desk EXCEPT ![p] = AtDesk]
    /\ late' = [late EXCEPT ![p] = {}]
    /\ UNCHANGED <<scene, rows, members, chosen, outdated>>

AttributeNext ==
    \E p \in Clerk :
       \/ \E s \in scene.names \cup {Unset}, mark \in Mark : AskEntry(p, s, mark)
       \/ \E e \in Entry :
             \/ CreateEntry(p, e)
             \/ \E s \in scene.names : AskName(p, e, s)
             \/ \E mark \in Mark : AskMark(p, e, mark)
             \/ \E base \in scene.codes : AskCode(p, e, [base |-> base, suffix |-> 1])
             \/ AskRemoval(p, e)
       \/ ChooseCode(p)
       \/ EditEntry(p)
       \/ RemoveEntry(p)
       \/ \E u \in scene.goods, S \in SUBSET Entry :
             DescribeMember(p, u, S) \/ AskDescription(p, u, S)
       \/ CheckDescription(p)
       \/ CommitDescription(p)
       \/ DropRequest(p)

AttributeSpec == AttributeInit /\ [][AttributeNext]_attributeVars

-----------------------------------------------------------------------------
Row == [name : Spelling \cup Mark, mark : Mark, code : Code \cup {NoCode}]

AttributeTypeOK ==
    /\ scene \in Scenes
    /\ \A e \in Listed : rows[e] \in Row
    /\ members \in [Member -> SUBSET Entry] /\ chosen \in [Member -> SUBSET Entry]
    /\ \A p \in Clerk :
          desk[p].step \in {"idle", "named", "create", "edit", "delete", "values", "checked"}
    /\ late \in [Clerk -> SUBSET {"create", "edit", "delete", "assign"}]
    /\ outdated \subseteq {"create", "edit", "delete", "assign"}

Pairs == {ef \in Listed \X Listed : ef[1] # ef[2]}
Crossed(what) == what \cap outdated # {}

\* No entry is there twice under two spellings, unless a request wrote on an old
\* reading; and two new colours never share a HEX however they cross, since they
\* would share a code: for that an edit or a removal must have crossed.  Seasons
\* have no such guard: a code is chosen after the names were compared.
NoTwins ==
    \A ef \in Pairs :
        LET a == rows[ef[1]]
            b == rows[ef[2]]
            named == NameKey(a.name) = NameKey(b.name)
        IN  /\ kind = "colour" /\ a.mark = b.mark => Crossed({"edit", "delete"})
            /\ kind = "size" => ~(a.mark = b.mark /\ named)
            /\ kind = "option" /\ a.mark = b.mark /\ named => Crossed({"create", "edit"})
            /\ kind \in {"colour", "season", "definition"} /\ named => Crossed({"create", "edit"})

\* Goods keep what they were given until they are given something else, unless it
\* was given while it was being removed.
GoodsKeepTheirValues == members # chosen => Crossed({"delete"})

\* Two active variants of a product differ in an option, and an attribute that is
\* in use keeps its role, unless two requests crossed.
VariantsDiffer ==
    /\ kind = "option" /\ ~Crossed({"assign", "delete"}) =>
          \A u, w \in Active : u # w /\ members[u] # {} => members[u] # members[w]
    /\ kind = "definition" /\ ~Crossed({"assign", "edit"}) =>
          \A u \in Member : \A e \in members[u] : rows[e].mark = AxisMark <=> u \in Variant

AttributesAgree == NoTwins /\ GoodsKeepTheirValues /\ VariantsDiffer

=============================================================================
