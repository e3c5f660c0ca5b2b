---------------------------- MODULE AuthSessions ----------------------------
(***************************************************************************)
(* The sessions of one user (AuthService, UsersService): a login opens a   *)
(* session, a refresh replaces it by a new one, a logout and a change of   *)
(* the password revoke it.                                                 *)
(*                                                                         *)
(* A login and a refresh read the user and the session, wait for bcrypt,   *)
(* for the company and for the shops of the user, and write at the end.    *)
(* The revocation is one UPDATE at READ COMMITTED: the rows it may change  *)
(* are those it sees when it begins; a session committed meanwhile stays.  *)
(*                                                                         *)
(* Passwords are counted.  `opened` of a session is the password its chain *)
(* was opened with, `parent` the session it replaces.  The token a client  *)
(* holds names its session, so a session and its token are one.            *)
(***************************************************************************)
EXTENDS Naturals, FiniteSets

CONSTANTS
    Session, NoSession,
    Caller,           \* requests served at the same time
    MaxPassword       \* bound: changes of the password

ASSUME SessionAssumption == NoSession \notin Session /\ MaxPassword \in Nat

VARIABLES
    session,          \* AuthSession
    password,         \* User.passwordHash, by its number
    able,             \* assertUserCanAuthenticate lets the user in
    caller,
    overlapped        \* history: a login or a refresh ran across a change

sessionVars == <<session, password, able, caller, overlapped>>

NoRow == [there |-> FALSE, revoked |-> FALSE, expired |-> FALSE,
          parent |-> NoSession, opened |-> 0]
SessionRows == [there : BOOLEAN, revoked : BOOLEAN, expired : BOOLEAN,
                parent : Session \cup {NoSession}, opened : 0..MaxPassword]
Callers == [step : {"idle", "comparing", "prepared", "read", "renewing", "revoking"},
            of : Session \cup {NoSession},      \* the session of the request
            seen : 0..MaxPassword,              \* the password it has read
            rows : SUBSET Session]              \* the rows a revocation sees
Waiting == [step |-> "idle", of |-> NoSession, seen |-> 0, rows |-> {}]

SessionInit ==
    /\ session = [s \in Session |-> NoRow]
    /\ password = 0
    /\ able \in BOOLEAN
    /\ caller = [c \in Caller |-> Waiting]
    /\ overlapped = FALSE

\* revokedAt is null and the session has not run out.
Usable(s) == session[s].there /\ ~session[s].revoked /\ ~session[s].expired
Fresh == {s \in Session : ~session[s].there}
Opened(by, parent) == [NoRow EXCEPT !.there = TRUE, !.opened = by, !.parent = parent]

Busy(c) == caller[c].step \in {"comparing", "prepared", "read", "renewing"}
Changing == \E d \in Caller : caller[d].step = "revoking"

SetCaller(c, new) == caller' = [caller EXCEPT ![c] = new]
Answer(c) == SetCaller(c, Waiting)

-----------------------------------------------------------------------------
\* login: the user is looked up and may log in; bcrypt compares the password.
AskLogin(c) ==
    /\ caller[c].step = "idle" /\ able
    /\ SetCaller(c, [Waiting EXCEPT !.step = "comparing", !.seen = password])
    /\ overlapped' = (overlapped \/ Changing)
    /\ UNCHANGED <<session, password, able>>

\* prepareAuthenticatedUserForLogin reads the user again.
PrepareLogin(c) ==
    /\ caller[c].step = "comparing"
    /\ IF able THEN SetCaller(c, [caller[c] EXCEPT !.step = "prepared"]) ELSE Answer(c)
    /\ UNCHANGED <<session, password, able, overlapped>>

\* issueSessionTokens
Login(c) ==
    /\ caller[c].step = "prepared"
    /\ Fresh # {}
    /\ LET new == CHOOSE s \in Fresh : TRUE
       IN  session' = [session EXCEPT ![new] = Opened(caller[c].seen, NoSession)]
    /\ Answer(c)
    /\ UNCHANGED <<password, able, overlapped>>

-----------------------------------------------------------------------------
\* refresh: the session of the token is there and neither revoked nor over.
AskRefresh(c, s) ==
    /\ caller[c].step = "idle" /\ Usable(s)
    /\ SetCaller(c, [Waiting EXCEPT !.step = "read", !.of = s])
    /\ overlapped' = (overlapped \/ Changing)
    /\ UNCHANGED <<session, password, able>>

\* prepareAuthenticatedUser
PrepareRefresh(c) ==
    /\ caller[c].step = "read"
    /\ IF able THEN SetCaller(c, [caller[c] EXCEPT !.step = "renewing"]) ELSE Answer(c)
    /\ UNCHANGED <<session, password, able, overlapped>>

\* Mutant: the token may have been used meanwhile.
ConsumableOnce(s) == session[s].there /\ ~session[s].expired

\* The condition of the updateMany; nothing consumed throws, and rolls back.
Consumable(s) == Usable(s)

Refresh(c) ==
    LET old == caller[c].of
        new == CHOOSE s \in Fresh : TRUE
    IN  /\ caller[c].step = "renewing"
        /\ IF Consumable(old)
           THEN /\ Fresh # {}
                /\ session' = [session EXCEPT ![old].revoked = TRUE,
                                   ![new] = Opened(session[old].opened, old)]
           ELSE UNCHANGED session
        /\ Answer(c)
        /\ UNCHANGED <<password, able, overlapped>>

-----------------------------------------------------------------------------
Logout(s) ==
    /\ session[s].there /\ ~session[s].revoked
    /\ session' = [session EXCEPT ![s].revoked = TRUE]
    /\ UNCHANGED <<password, able, caller, overlapped>>

\* revokeSessionsQuery
ToRevoke(keep) == {s \in Session : session[s].there /\ ~session[s].revoked} \ {keep}

(* update with a password, by an administrator (keep = NoSession), and
   updatePassword by the user in the session keep: a transaction that writes
   the password and begins to revoke. *)
ChangePassword(c, keep) ==
    /\ caller[c].step = "idle"
    /\ keep # NoSession => Usable(keep) /\ able
    /\ ~Changing    \* waits for the row of the user
    /\ password < MaxPassword
    /\ SetCaller(c, [Waiting EXCEPT !.step = "revoking", !.of = keep,
                                    !.rows = ToRevoke(keep)])
    /\ overlapped' = (overlapped \/ \E d \in Caller : Busy(d))
    /\ UNCHANGED <<session, password, able>>

\* and commits; the session that asked goes on under the new password.
CommitPassword(c) ==
    /\ caller[c].step = "revoking"
    /\ password' = password + 1
    /\ session' = [s \in Session |->
           IF s \in caller[c].rows THEN [session[s] EXCEPT !.revoked = TRUE]
           ELSE IF s = caller[c].of THEN [session[s] EXCEPT !.opened = password']
           ELSE session[s]]
    /\ Answer(c)
    /\ overlapped' = (overlapped \/ \E d \in Caller : Busy(d))
    /\ UNCHANGED able

\* updateStatus, remove and restore of the user, or of the company.
SetAble ==
    /\ able' = ~able
    /\ UNCHANGED <<session, password, caller, overlapped>>

Expire(s) ==
    /\ session[s].there /\ ~session[s].expired
    /\ session' = [session EXCEPT ![s].expired = TRUE]
    /\ UNCHANGED <<password, able, caller, overlapped>>

SessionNext ==
    \/ \E c \in Caller :
        \/ AskLogin(c) \/ PrepareLogin(c) \/ Login(c)
        \/ PrepareRefresh(c) \/ Refresh(c)
        \/ \E s \in Session : AskRefresh(c, s)
        \/ \E keep \in Session \cup {NoSession} : ChangePassword(c, keep)
        \/ CommitPassword(c)
    \/ \E s \in Session : Logout(s) \/ Expire(s)
    \/ SetAble

SessionSpec == SessionInit /\ [][SessionNext]_sessionVars

-----------------------------------------------------------------------------
SessionTypeOK ==
    /\ session \in [Session -> SessionRows]
    /\ password \in 0..MaxPassword
    /\ {able, overlapped} \subseteq BOOLEAN
    /\ caller \in [Caller -> Callers]

(* However many requests bring the same refresh token, it is replaced by one
   session, and only when it has been given up (auth.service.ts:206). *)
OneHeir ==
    /\ \A s, t \in Session :
        session[s].there /\ session[t].there /\ session[s].parent = session[t].parent
            => s = t \/ session[s].parent = NoSession
    /\ \A s \in Session : session[s].parent # NoSession => session[session[s].parent].revoked

(* A session opened with an earlier password ends with it, unless a login or a
   refresh ran across the change (users.service.ts:1138, 1315). *)
OldSessionsEndUnlessOverlapped ==
    ~overlapped => \A s \in Session : Usable(s) => session[s].opened = password

(* Sessions do not multiply, and do not outlive what they were opened with. *)
SessionsSucceedAndEnd == OneHeir /\ OldSessionsEndUnlessOverlapped

=============================================================================
