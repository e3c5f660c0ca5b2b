------------------------------ MODULE Employees ------------------------------
(***************************************************************************)
(* The shops of one employee (UsersService): those an administrator allows *)
(* (UserShopAccess) and the one he works in (User.currentShopId).          *)
(*                                                                         *)
(* Every request puts the user right: it reads his row, works out the      *)
(* shops he may use, which can grant him one, moves him to one of them     *)
(* when his own is not among them, and works the shops out again for its   *)
(* context.  An edit by an administrator reads the row and writes it.  No  *)
(* lock is held between reading and writing in either.                     *)
(***************************************************************************)
EXTENDS Naturals, FiniteSets

CONSTANTS
    Company, Shop, NoShop,
    CompanyOf,        \* the company of a shop
    NoChange,         \* a field the body of an edit leaves out
    Request, Administrator,  \* requests of the employee and edits, at the same time
    MaxEdits          \* bound: edits, and openings and closings of shops

ASSUME EmployeeAssumption ==
    /\ IsFiniteSet(Shop) /\ NoShop \notin Shop /\ CompanyOf \in [Shop -> Company]
    /\ NoChange \notin Company \cup Shop /\ NoChange \notin BOOLEAN
    /\ \A shops \in SUBSET Shop : NoChange # shops
    /\ MaxEdits \in Nat

VARIABLES
    user,             \* User and its UserShopAccess
    open,             \* the shops that are active
    request,
    editing,
    edits,            \* counts the edits and the changes of the shops
    uprooted             \* history: a move crossed a request or another edit

employeeVars == <<user, open, request, editing, edits, uprooted>>

Users == [company : Company, admin : BOOLEAN, access : SUBSET Shop,
          current : Shop \cup {NoShop}, switch : BOOLEAN]

ShopsOf(c) == {s \in Shop : CompanyOf[s] = c}
OpenIn(c) == open \cap ShopsOf(c)

\* The last branch of resolveAvailableShopsForUser: the only shop is granted.
OnlyShop(c) == IF Cardinality(OpenIn(c)) = 1 THEN OpenIn(c) ELSE {}

\* resolveAvailableShopsForUser
Available(u) ==
    IF u.access # {} THEN u.access \cap open
    ELSE IF u.admin THEN OpenIn(u.company)
    ELSE IF u.current \in open THEN {u.current}
    ELSE OnlyShop(u.company)

\* and the accesses it creates, skipDuplicates.
Granted(u) ==
    IF u.access # {} THEN {}
    ELSE IF ~u.admin /\ u.current \in open THEN {u.current}
    ELSE OnlyShop(u.company)

\* resolveCurrentShop: the first of the others, which the names decide.
CurrentShop(u, shops) ==
    IF shops = {} THEN {NoShop}
    ELSE IF u.current \in shops THEN {u.current} ELSE shops

-----------------------------------------------------------------------------
Resting == [step |-> "idle", of |-> CHOOSE u \in Users : TRUE, shops |-> {},
            to |-> NoShop, fresh |-> TRUE]
Requests == [step : {"idle", "read", "resolved", "prepared", "allowed", "answered"},
             of : Users,               \* the row it has read
             shops : SUBSET Shop,      \* the shops it has worked out
             to : Shop \cup {NoShop},  \* the shop it asks to work in
             fresh : BOOLEAN]          \* history: no edit has crossed it
Editings == [step : {"idle", "read"}, of : Users]
Aside == [step |-> "idle", of |-> CHOOSE u \in Users : TRUE]

EmployeeInit ==
    /\ user \in {u \in Users :
           /\ u.access \subseteq ShopsOf(u.company)
           /\ u.current \in u.access \cup {NoShop}
           /\ u.switch => Cardinality(u.access) > 1}
    /\ open = Shop
    /\ request = [r \in Request |-> Resting]
    /\ editing = [e \in Administrator |-> Aside]
    /\ edits = 0
    /\ uprooted = FALSE

SetRequest(r, new) == request' = [request EXCEPT ![r] = new]

\* An edit has changed what the requests are reading.
Stale == [r \in Request |-> [request[r] EXCEPT !.fresh = (request[r].step = "idle")]]

\* So does what a request writes from a row that an edit has overtaken.
StepTo(r, new) ==
    request' = [(IF ~request[r].fresh /\ user' # user THEN Stale ELSE request) EXCEPT ![r] = new]

\* getRequestContext (to = NoShop) and setCurrentShop: the row is read.
ReadUser(r, to) ==
    /\ request[r].step = "idle"
    /\ SetRequest(r, [step |-> "read", of |-> user, shops |-> {}, to |-> to, fresh |-> TRUE])
    /\ UNCHANGED <<user, open, editing, edits, uprooted>>

\* resolveAvailableShopsForUser for the row that was read.
ResolveShops(r) ==
    LET u == request[r].of
    IN  /\ request[r].step = "read"
        /\ user' = [user EXCEPT !.access = @ \cup Granted(u)]
        /\ StepTo(r, [request[r] EXCEPT !.step = "resolved", !.shops = Available(u)])
        /\ UNCHANGED <<open, editing, edits, uprooted>>

\* prepareAuthenticatedUser: what has to change is written, and the row read.
Prepare(r) ==
    LET u == request[r].of
        switch == u.switch /\ Cardinality(request[r].shops) > 1
    IN  /\ request[r].step = "resolved"
        /\ \E s \in CurrentShop(u, request[r].shops) :
               /\ user' = IF u.current = s /\ u.switch = switch THEN user
                          ELSE [user EXCEPT !.current = s, !.switch = switch]
               /\ StepTo(r, [request[r] EXCEPT !.step = "prepared",
                      !.of = IF u.current = s /\ u.switch = switch THEN u ELSE user'])
        /\ UNCHANGED <<open, editing, edits, uprooted>>

\* getRequestContext works the shops out again for the context.
Serve(r) ==
    LET u == request[r].of
    IN  /\ request[r].step = "prepared" /\ request[r].to = NoShop
        /\ user' = [user EXCEPT !.access = @ \cup Granted(u)]
        /\ StepTo(r, [request[r] EXCEPT !.step = "answered", !.shops = Available(u)])
        /\ UNCHANGED <<open, editing, edits, uprooted>>

\* setCurrentShop works them out too, and looks at the shop it is asked for.
AllowShop(r) ==
    LET u == request[r].of
        s == request[r].to
        shops == Available(u)
    IN  /\ request[r].step = "prepared" /\ s # NoShop
        /\ user' = [user EXCEPT !.access = @ \cup Granted(u)]
        /\ StepTo(r, IF /\ s \in OpenIn(u.company) \cap shops
                            /\ u.switch /\ Cardinality(shops) > 1
                         THEN [request[r] EXCEPT !.step = "allowed"] ELSE Resting)
        /\ UNCHANGED <<open, editing, edits, uprooted>>

SwitchShop(r) ==
    /\ request[r].step = "allowed"
    /\ user' = [user EXCEPT !.current = request[r].to]
    /\ StepTo(r, Resting)
    /\ UNCHANGED <<open, editing, edits, uprooted>>

EndRequest(r) ==
    /\ request[r].step = "answered"
    /\ SetRequest(r, Resting)
    /\ UNCHANGED <<user, open, editing, edits, uprooted>>

-----------------------------------------------------------------------------
\* update: the row is read.
ReadForEdit(e) ==
    /\ editing[e].step = "idle" /\ edits < MaxEdits
    /\ editing' = [editing EXCEPT ![e] = [step |-> "read", of |-> user]]
    /\ edits' = edits + 1
    /\ UNCHANGED <<user, open, request, uprooted>>

(* The bodies of edits: the role, by its flag (none is a role without it), the
   right to switch, or the company and the shops. *)
NothingGiven == [company |-> NoChange, role |-> NoChange, allowed |-> NoChange,
                 current |-> NoChange, switch |-> NoChange]
Bodies ==
    {[NothingGiven EXCEPT !.role = admin] : admin \in BOOLEAN}
    \cup {[NothingGiven EXCEPT !.switch = may] : may \in BOOLEAN}
    \cup [company : Company \cup {NoChange}, role : {NoChange},
          allowed : {NoChange} \cup SUBSET Shop, current : Shop \cup {NoChange},
          switch : {NoChange}]

OrElse(field, otherwise) == IF field = NoChange THEN otherwise ELSE field
NewCompany(u, b) == OrElse(b.company, u.company)
ChangesCompany(u, b) == NewCompany(u, b) # u.company
\* Mutant: a move leaves the shops alone.
ShopsGiven(u, b) == b.allowed # NoChange \/ b.current # NoChange
ShopsWritten(u, b) == b.allowed # NoChange \/ b.current # NoChange \/ ChangesCompany(u, b)

\* The shop to fall back to.
Fallback(u, b) == OrElse(b.current, IF ChangesCompany(u, b) THEN NoShop ELSE u.current)

\* resolveAllowedShopsForWrite; an unknown or closed shop is an error.
Explicit(u, b) == OrElse(b.allowed, IF ChangesCompany(u, b) THEN {} ELSE u.access)
AllowedShops(u, b) ==
    IF ~ShopsWritten(u, b) THEN u.access
    ELSE IF Explicit(u, b) # {} THEN Explicit(u, b)
    ELSE IF Fallback(u, b) # NoShop THEN {Fallback(u, b)}
    ELSE OnlyShop(NewCompany(u, b))

\* resolveCurrentShopForWrite
CurrentShopWritten(u, b) ==
    IF ~ShopsWritten(u, b) THEN {u.current}
    ELSE IF Fallback(u, b) # NoShop THEN {Fallback(u, b)}
    ELSE IF AllowedShops(u, b) = {} THEN {NoShop} ELSE AllowedShops(u, b)

Valid(u, b) ==
    ShopsWritten(u, b) =>
        /\ AllowedShops(u, b) \subseteq OpenIn(NewCompany(u, b))
        /\ Fallback(u, b) \in AllowedShops(u, b) \cup {NoShop}

\* The role connected, disconnected, or left as the row has it.
RoleWritten(u, b) ==
    IF b.role # NoChange THEN {b.role}
    ELSE IF ChangesCompany(u, b) THEN {FALSE}
    ELSE IF u.admin THEN {TRUE} ELSE {FALSE, user.admin}

\* Others at work between reading and writing.
Others(e) ==
    \/ \E r \in Request : request[r].step # "idle"
    \/ \E o \in Administrator \ {e} : editing[o].step = "read"

WriteEdit(e, b) ==
    LET u == editing[e].of
        allowed == AllowedShops(u, b)
    IN  /\ editing[e].step = "read" /\ Valid(u, b)
        /\ \E s \in CurrentShopWritten(u, b), admin \in RoleWritten(u, b) :
               user' = [company |-> NewCompany(u, b), admin |-> admin,
                        access |-> IF ShopsWritten(u, b) THEN allowed ELSE user.access,
                        current |-> s,
                        switch |-> OrElse(b.switch, u.switch) /\ Cardinality(allowed) > 1]
        /\ editing' = [editing EXCEPT ![e] = Aside]
        /\ request' = Stale
        /\ uprooted' = (uprooted \/ (user'.company # user.company /\ Others(e)))
        /\ UNCHANGED <<open, edits>>

\* updateShopStatus
SetShopActive(s) ==
    /\ edits < MaxEdits
    /\ open' = IF s \in open THEN open \ {s} ELSE open \cup {s}
    /\ edits' = edits + 1
    /\ request' = Stale
    /\ UNCHANGED <<user, editing, uprooted>>

EmployeeNext ==
    \/ \E r \in Request :
        \/ \E to \in Shop \cup {NoShop} : ReadUser(r, to)
        \/ ResolveShops(r) \/ Prepare(r) \/ Serve(r)
        \/ AllowShop(r) \/ SwitchShop(r) \/ EndRequest(r)
    \/ \E e \in Administrator : ReadForEdit(e) \/ \E b \in Bodies : WriteEdit(e, b)
    \/ \E s \in Shop : SetShopActive(s)

EmployeeSpec == EmployeeInit /\ [][EmployeeNext]_employeeVars

-----------------------------------------------------------------------------
EmployeeTypeOK ==
    /\ user \in Users
    /\ open \subseteq Shop
    /\ request \in [Request -> Requests]
    /\ editing \in [Administrator -> Editings]
    /\ edits \in 0..MaxEdits
    /\ uprooted \in BOOLEAN

(* An employee has access to shops of his own company only, and works in one
   of them, unless he was moved while a request of his or another edit ran:
   these write what they worked out for the other company
   (users.service.ts:1098, 1432, 2867). *)
ShopsOfOwnCompany ==
    ~uprooted => user.access \cup {user.current} \subseteq ShopsOf(user.company) \cup {NoShop}

(* The context of a request names a current shop that is one of its shops, and
   all of them open: a request puts a user whose shop was closed or taken from
   him elsewhere before it works, however many of his requests run.  Only one
   that an edit has crossed, or a request that had read before the edit, may be
   served half old, half new (users.service.ts:1452). *)
ContextHoldsTogether ==
    \A r \in Request :
        LET q == request[r]
        IN  q.step = "answered" /\ q.fresh =>
                /\ q.shops \subseteq open
                /\ q.of.current \in (IF q.shops = {} THEN {NoShop} ELSE q.shops)

(* Both: nobody reads or writes the goods of a shop that is not his. *)
WorksInOwnShops == ShopsOfOwnCompany /\ ContextHoldsTogether

=============================================================================
