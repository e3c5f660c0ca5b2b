-------------------------------- MODULE Roles --------------------------------
(***************************************************************************)
(* The roles of one company and the permissions they grant (RolesService,  *)
(* createDefaultCrmRolesForCompany, PermissionsGuard).                     *)
(*                                                                         *)
(* Setting the permissions of a role deletes its rows and inserts the new  *)
(* ones, in a transaction at READ COMMITTED: a row another transaction     *)
(* inserts after the DELETE began is not deleted, and one it deleted       *)
(* meanwhile is skipped.  The other handlers end in a single statement,    *)
(* which the unique keys of the table make fail, and change nothing, when  *)
(* what they have read is no longer so: they are single actions.           *)
(*                                                                         *)
(* A permission has a slug, which two permissions may share; an operation  *)
(* asks for slugs any of which is enough (PERMISSION_ALIASES).             *)
(***************************************************************************)
EXTENDS Naturals, FiniteSets

CONSTANTS
    Role, RoleName, NoName,
    Permission, Slug, SlugOf,
    Defaults,         \* DEFAULT_CRM_ROLES: the flag and the slugs of each name
    Manager,          \* requests served at the same time
    Seconds,          \* the clock, which the schema keeps in an Int
    LargestInt

ASSUME RoleAssumption ==
    /\ Role # {} /\ NoName \notin RoleName
    /\ SlugOf \in [Permission -> Slug]
    /\ DOMAIN Defaults \subseteq RoleName
    /\ \A n \in DOMAIN Defaults :
           Defaults[n].admin \in BOOLEAN /\ Defaults[n].slugs \subseteq Slug
    /\ Seconds \in Nat /\ LargestInt \in Nat
    /\ Seconds <= LargestInt /\ LargestInt < 1000 * Seconds

VARIABLES
    role,             \* Role: its name, its flag and when it was deleted
    granted,          \* RolePermission, by role
    manager,
    wanted,           \* history: the permissions the last request set
    crossed,          \* history: roles two requests set at once
    removed           \* history: roles a request has removed

roleVars == <<role, granted, manager, wanted, crossed, removed>>

Here(r) == role[r].name # NoName /\ role[r].deletedAt = 0
Named(n) == {r \in Role : role[r].name = n}
NoRole == [name |-> NoName, admin |-> FALSE, deletedAt |-> 0]

Offline == [step |-> "idle", of |-> CHOOSE r \in Role : TRUE, old |-> {}, new |-> {}]
Managers == [step : {"idle", "setting"}, of : Role,
             old : SUBSET Permission,        \* the rows its DELETE takes
             new : SUBSET Permission]

\* buildPermissionIdsBySlug keeps one permission of a slug.
BySlug(s) == CHOOSE p \in Permission : SlugOf[p] = s
DefaultGrants(slugs) == {BySlug(s) : s \in slugs \cap {SlugOf[p] : p \in Permission}}

\* createDefaultCrmRolesForCompany: a company begins with the default roles.
RoleInit ==
    \E f \in [DOMAIN Defaults -> Role] :
        /\ \A n, o \in DOMAIN Defaults : f[n] = f[o] => n = o
        /\ LET Default(r) == {n \in DOMAIN Defaults : f[n] = r}
           IN  /\ role = [r \in Role |->
                      IF Default(r) = {} THEN NoRole
                      ELSE [NoRole EXCEPT !.name = CHOOSE n \in Default(r) : TRUE,
                                          !.admin = \E n \in Default(r) : Defaults[n].admin]]
               /\ granted = [r \in Role |->
                      UNION {DefaultGrants(Defaults[n].slugs) : n \in Default(r)}]
        /\ manager = [m \in Manager |-> Offline]
        /\ wanted = granted
        /\ crossed = {} /\ removed = {}

\* ensureRoleNameIsUnique, and the key (companyId, name) over deleted roles too.
FreeName(n) == Named(n) = {}

-----------------------------------------------------------------------------
\* create: a deleted role of that name is restored, another one is created.
CreateRole(n, admin) ==
    /\ \A r \in Named(n) : ~Here(r)
    /\ \E r \in Role :
        /\ IF FreeName(n) THEN role[r] = NoRole ELSE r \in Named(n)
        /\ role' = [role EXCEPT ![r] = [name |-> n, admin |-> admin, deletedAt |-> 0]]
        /\ removed' = removed \ {r}
    /\ UNCHANGED <<granted, manager, wanted, crossed>>

\* update
UpdateRole(r, n, admin) ==
    /\ Here(r) /\ (n = role[r].name \/ FreeName(n))
    /\ role' = [role EXCEPT ![r].name = n, ![r].admin = admin]
    /\ UNCHANGED <<granted, manager, wanted, crossed, removed>>

\* The columns of User the transaction of remove writes, and those there are.
WrittenOnRemoval == {"crmRoleId", "role"}
UserColumns == {"companyId", "crmRoleId", "platformRole", "currentShopId"}

\* Date.now() is in milliseconds.
RemovalStamp == 1000 * Seconds

\* remove: a statement that fails rolls the transaction back.
RemoveRole(r) ==
    /\ Here(r)
    /\ IF WrittenOnRemoval \subseteq UserColumns /\ RemovalStamp <= LargestInt
       THEN /\ role' = [role EXCEPT ![r].deletedAt = RemovalStamp]
            /\ granted' = [granted EXCEPT ![r] = {}]
            /\ wanted' = [wanted EXCEPT ![r] = {}]
       ELSE UNCHANGED <<role, granted, wanted>>
    /\ removed' = removed \cup {r}
    /\ UNCHANGED <<manager, crossed>>

-----------------------------------------------------------------------------
\* updatePermissions: the role is there, the permissions are known; DELETE.
SetPermissions(m, r, new) ==
    /\ manager[m].step = "idle" /\ Here(r)
    /\ manager' = [manager EXCEPT ![m] =
           [step |-> "setting", of |-> r, old |-> granted[r], new |-> new]]
    /\ IF \E o \in Manager : manager[o].step = "setting" /\ manager[o].of = r
       THEN crossed' = crossed \cup {r} /\ wanted' = [wanted EXCEPT ![r] = {}]
       ELSE UNCHANGED <<crossed, wanted>>
    /\ UNCHANGED <<role, granted, removed>>

\* Mutant: the new rows are added to those there are.
GrantsAdded(m) == granted[manager[m].of] \cup manager[m].new

\* createMany with skipDuplicates, over what DELETE has left.
GrantsSet(m) == (granted[manager[m].of] \ manager[m].old) \cup manager[m].new

CommitPermissions(m) ==
    LET r == manager[m].of
    IN  /\ manager[m].step = "setting"
        /\ granted' = [granted EXCEPT ![r] = GrantsSet(m)]
        /\ wanted' = [wanted EXCEPT ![r] = IF r \in crossed THEN {} ELSE manager[m].new]
        /\ manager' = [o \in Manager |->
               IF o = m THEN Offline
               ELSE IF manager[o].step = "setting" /\ manager[o].of = r
                    THEN [manager[o] EXCEPT !.old = @ \ manager[m].old]
                    ELSE manager[o]]
        /\ UNCHANGED <<role, crossed, removed>>

RoleNext ==
    \/ \E n \in RoleName, admin \in BOOLEAN :
        CreateRole(n, admin) \/ \E r \in Role : UpdateRole(r, n, admin)
    \/ \E r \in Role : RemoveRole(r)
    \/ \E m \in Manager :
        \/ \E r \in Role, new \in SUBSET Permission : SetPermissions(m, r, new)
        \/ CommitPermissions(m)

RoleSpec == RoleInit /\ [][RoleNext]_roleVars

-----------------------------------------------------------------------------
\* PermissionsGuard: an operation that asks for any of these slugs.
Allows(r, slugs) ==
    Here(r) /\ (role[r].admin \/ \E p \in granted[r] : SlugOf[p] \in slugs)

RoleTypeOK ==
    /\ role \in [Role -> [name : RoleName \cup {NoName}, admin : BOOLEAN,
                          deletedAt : {0, RemovalStamp}]]
    /\ {granted, wanted} \subseteq [Role -> SUBSET Permission]
    /\ manager \in [Manager -> Managers]
    /\ crossed \subseteq Role /\ removed \subseteq Role

(* An employee may do exactly what the last request for the permissions of his
   role has left in them, unless two requests for the role crossed: then what
   one has taken away the other may have put back (roles.service.ts:223). *)
AllowsWhatIsWanted ==
    \A r \in Role \ crossed, slugs \in SUBSET Slug :
        Here(r) /\ ~role[r].admin =>
            (Allows(r, slugs) <=> \E p \in wanted[r] : SlugOf[p] \in slugs)

(* A role that a request has removed is gone: docs/api.md:219. *)
RemovedRolesAreGone == \A r \in removed : ~Here(r)
=============================================================================
