----------------------------- MODULE ClientCards -----------------------------
(***************************************************************************)
(* The cards of a company's clients (src/clients): their code, the groups  *)
(* they are in and their consent to marketing.  A card is created and      *)
(* edited in a transaction at read committed; what a profile says of       *)
(* groups is deleted and written anew, while the update that comes first   *)
(* holds the client's row.  Tags are kept as groups are; names, contacts,  *)
(* sizes and the shop are left out.                                        *)
(***************************************************************************)
EXTENDS Naturals, FiniteSets

CONSTANTS
    Person,         \* clients that may be registered
    Team,           \* ClientGroup rows
    Front,          \* people who edit cards, one request in flight each
    Same            \* what a request does not name

ASSUME CardAssumption == IsFiniteSet(Person) /\ Same \notin BOOLEAN

VARIABLES
    card,           \* Client rows with their ClientGroupLink rows
    front,          \* the request each person has in flight
    wished          \* history: what was last asked of each card, and agreed

cardVars == <<card, front, wished>>

NoCard == [code |-> 0]
Idling == [step |-> "idle"]

CardInit ==
    /\ card = [c \in Person |-> NoCard]
    /\ front = [p \in Front |-> Idling]
    /\ wished = [c \in Person |-> [teams |-> {}, allowed |-> FALSE]]

Registered == {c \in Person : card[c] # NoCard}

At(p, r) == front' = [front EXCEPT ![p] = r]

\* createClient: the transaction counts the clients there are. Consent is dated
\* when it is given, and its refusal when it is not.
AskCard(p, teams, allowed) ==
    /\ front[p] = Idling
    /\ At(p, [step |-> "create", code |-> Cardinality(Registered) + 1, teams |-> teams,
              allowed |-> allowed])
    /\ UNCHANGED <<card, wished>>

\* The unique index lets one of two with the same code in.
CreateCard(p, c) ==
    LET r == front[p]
    IN  /\ r.step = "create"
        /\ card[c] = NoCard
        /\ \A d \in Registered : card[d].code # r.code
        /\ card' = [card EXCEPT ![c] = [code |-> r.code, teams |-> r.teams,
                                        allowed |-> r.allowed, consented |-> r.allowed,
                                        revoked |-> ~r.allowed]]
        /\ wished' = [wished EXCEPT ![c] = [teams |-> r.teams, allowed |-> r.allowed]]
        /\ At(p, Idling)

\* updateClient, of a client that is there.
AskProfile(p, c, teams, allowed) ==
    /\ front[p] = Idling
    /\ c \in Registered
    /\ At(p, [step |-> "edit", card |-> c, teams |-> teams, allowed |-> allowed])
    /\ UNCHANGED <<card, wished>>

\* Nobody's transaction holds the client's row.
Untouched(c) == \A p \in Front : front[p].step = "editing" => front[p].card # c

\* The update takes the row, and the groups there are are deleted;
TakeCard(p) ==
    LET r == front[p]
    IN  /\ r.step = "edit" /\ Untouched(r.card)
        /\ At(p, [r EXCEPT !.step = "editing",
                           !.teams = [old |-> card[r.card].teams, new |-> r.teams]])
        /\ UNCHANGED <<card, wished>>

\* the groups of the request are written, and all is committed.
CommitProfile(p) ==
    LET r == front[p]
        c == r.card
        teams == IF r.teams.new = Same THEN card[c].teams
                 ELSE (card[c].teams \ r.teams.old) \cup r.teams.new
    IN  /\ r.step = "editing"
        /\ card' = [card EXCEPT
              ![c].teams = teams,
              ![c].allowed = IF r.allowed = Same THEN @ ELSE r.allowed,
              ![c].consented = @ \/ r.allowed = TRUE,
              ![c].revoked = IF r.allowed = Same THEN @ ELSE ~r.allowed]
        /\ wished' = [wished EXCEPT
              ![c].teams = IF r.teams.new = Same THEN @ ELSE r.teams.new,
              ![c].allowed = IF r.allowed = Same THEN @ ELSE r.allowed]
        /\ At(p, Idling)

\* A request is refused or dies where it is, and its transaction with it.
DropCard(p) ==
    /\ front[p] # Idling
    /\ At(p, Idling)
    /\ UNCHANGED <<card, wished>>

CardNext ==
    \E p \in Front :
       \/ \E teams \in SUBSET Team, allowed \in BOOLEAN : AskCard(p, teams, allowed)
       \/ \E c \in Person :
             \/ CreateCard(p, c)
             \/ \E teams \in {Same} \cup SUBSET Team, allowed \in {Same} \cup BOOLEAN :
                   AskProfile(p, c, teams, allowed)
       \/ TakeCard(p)
       \/ CommitProfile(p)
       \/ DropCard(p)

CardSpec == CardInit /\ [][CardNext]_cardVars

-----------------------------------------------------------------------------
CardTypeOK ==
    /\ \A c \in Registered :
          card[c] \in [code : 1 .. Cardinality(Person), teams : SUBSET Team,
                       allowed : BOOLEAN, consented : BOOLEAN, revoked : BOOLEAN]
    /\ \A p \in Front : front[p].step \in {"idle", "create", "edit", "editing"}
    /\ wished \in [Person -> [teams : SUBSET Team, allowed : BOOLEAN]]

\* Codes number the clients without a gap, so that a new client always finds the
\* next one free; a client is in the groups of the last profile that named any,
\* whole, however edits overlap; and who may be written to has agreed once and not
\* taken it back since.
CardsAgree ==
    /\ {card[c].code : c \in Registered} = 1 .. Cardinality(Registered)
    /\ \A c \in Registered :
          /\ card[c].teams = wished[c].teams
          /\ card[c].allowed = wished[c].allowed
          /\ card[c].allowed => card[c].consented /\ ~card[c].revoked

=============================================================================
