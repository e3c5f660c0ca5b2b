---------------------------- MODULE Subscriptions ----------------------------
(***************************************************************************)
(* One company of the platform (PlatformService, UsersService): its        *)
(* subscription, the payments that extend it, the nightly job that blocks  *)
(* it when it has run out, and the people who work in it.                  *)
(*                                                                         *)
(* A payment, a renewal and the nightly job read the subscription before   *)
(* their transaction and compute from what they have read; an update of    *)
(* the company reads its block before it writes it.  Time is counted in    *)
(* months; what is paid is one month.                                      *)
(*                                                                         *)
(* `manual` is a reason somebody gives, whatever its text.  `paid` are the *)
(* periods of the payments.  History: `crossed`, a payment, renewal or job *)
(* ended while another, or an update of the company, was between its read  *)
(* and its write.                                                          *)
(***************************************************************************)
EXTENDS Naturals, FiniteSets

CONSTANTS
    Employee,
    Clerk,            \* platform requests and jobs under way
    Editor,           \* updates of the company under way
    LastMonth,        \* bound: the clock
    MaxPayments       \* bound

ASSUME SubscriptionAssumption ==
    IsFiniteSet(Employee) /\ LastMonth \in Nat /\ MaxPayments \in Nat

VARIABLES
    month,
    subscription,     \* Subscription: [status, end]
    company,          \* Company: isActive and status say the same
    employee,         \* User: [isActive, blocked, deleted]
    paid, clerk,
    blockRead,        \* what an update of the company under way has read of its block
    crossed

subscriptionVars ==
    <<month, subscription, company, employee, paid, clerk, blockRead, crossed>>

Subscribed == [status : {"active", "expired"}, end : Nat]
\* blockReason is kept with the block.
CompanyState == {"active", "manual", "subscription_expired"}
NotReading == "none"
Employees == [isActive : BOOLEAN, blocked : BOOLEAN, deleted : BOOLEAN]
Tasks == [step : {"idle", "payment", "renewal", "sweep"}, read : Subscribed]
NoTask == [step |-> "idle", read |-> [status |-> "active", end |-> 0]]

Working == [isActive |-> TRUE, blocked |-> FALSE, deleted |-> FALSE]

\* createCompany with a plan: the first month is given.
SubscriptionInit ==
    /\ month = 0
    /\ subscription = [status |-> "active", end |-> 1]
    /\ company = "active"
    /\ employee = [u \in Employee |-> Working]
    /\ paid = {}
    /\ clerk = [c \in Clerk |-> NoTask]
    /\ blockRead = [e \in Editor |-> NotReading]
    /\ crossed = FALSE

\* endDate < startOfToday
Over(sub) == sub.end < month
Running(sub) == sub.status = "active" /\ ~Over(sub)

ReadSubscription(c, what) ==
    /\ clerk[c].step = "idle"
    /\ clerk' = [clerk EXCEPT ![c] = [step |-> what, read |-> subscription]]
    /\ UNCHANGED <<month, subscription, company, employee, paid, blockRead, crossed>>

TaskDone(c) ==
    /\ clerk' = [clerk EXCEPT ![c] = NoTask]
    /\ crossed' = \/ crossed
                  \/ \E d \in Clerk \ {c} : clerk[d].step # "idle"
                  \/ \E e \in Editor : blockRead[e] # NotReading
    /\ UNCHANGED <<month, blockRead>>

-----------------------------------------------------------------------------
BlockEmployees ==
    employee' = [u \in Employee |->
        [employee[u] EXCEPT !.isActive = FALSE, !.blocked = TRUE]]

Unblocked(u) == IF employee[u].deleted THEN employee[u]
                ELSE [employee[u] EXCEPT !.isActive = TRUE, !.blocked = FALSE]

UnblockCompanyRows ==
    /\ company' = "active"
    /\ employee' = [u \in Employee |-> Unblocked(u)]

\* Mutant: a month is paid from today on.
PeriodStartToday(sub) == month

\* The month that is added begins where the subscription ends, or today.
PeriodStart(sub) == IF Running(sub) THEN sub.end ELSE month

Extended(sub) == [status |-> "active", end |-> PeriodStart(sub) + 1]

\* createPayment
AskPayment(c) == Cardinality(paid) < MaxPayments /\ ReadSubscription(c, "payment")

CreatePayment(c) ==
    LET read == clerk[c].read
    IN  /\ clerk[c].step = "payment"
        /\ paid' = paid \cup {[start |-> PeriodStart(read), nth |-> Cardinality(paid)]}
        /\ subscription' = Extended(read)
        /\ UnblockCompanyRows
        /\ TaskDone(c)

\* renewSubscription: the same without a payment.
AskRenewal(c) == subscription.end < LastMonth /\ ReadSubscription(c, "renewal")

Renew(c) ==
    /\ clerk[c].step = "renewal"
    /\ subscription' = Extended(clerk[c].read)
    /\ UnblockCompanyRows
    /\ TaskDone(c)
    /\ UNCHANGED paid

-----------------------------------------------------------------------------
Expiring == subscription.status = "active" /\ Over(subscription)

\* checkExpiredSubscriptions, every night and on request
AskSweep(c) == Expiring /\ ReadSubscription(c, "sweep")

\* Mutant: the company is blocked, and its subscription forgotten.
ExpiredKept(sub) == sub

Expired(sub) == [sub EXCEPT !.status = "expired"]

Sweep(c) ==
    /\ clerk[c].step = "sweep"
    /\ subscription' = Expired(subscription)
    /\ company' = "subscription_expired"
    /\ BlockEmployees
    /\ TaskDone(c)
    /\ UNCHANGED paid

-----------------------------------------------------------------------------
\* blockCompany, unblockCompany
BlockCompany ==
    /\ company' = "manual"
    /\ BlockEmployees
    /\ UNCHANGED <<month, subscription, paid, clerk, blockRead, crossed>>

UnblockCompany ==
    /\ UnblockCompanyRows
    /\ UNCHANGED <<month, subscription, paid, clerk, blockRead, crossed>>

\* updateCompany, updateCompanyStatus read the company
AskUpdate(e) ==
    /\ blockRead[e] = NotReading
    /\ blockRead' = [blockRead EXCEPT ![e] = company]
    /\ UNCHANGED <<month, subscription, company, employee, paid, clerk, crossed>>

\* and write it, and no employee: a reason that was read is kept.
UpdateCompany(e, active) ==
    /\ blockRead[e] # NotReading
    /\ company' = IF active THEN "active"
                  ELSE IF blockRead[e] = "active" THEN "manual" ELSE blockRead[e]
    /\ blockRead' = [blockRead EXCEPT ![e] = NotReading]
    /\ UNCHANGED <<month, subscription, employee, paid, clerk, crossed>>

SetEmployee(u, row) ==
    /\ employee' = [employee EXCEPT ![u] = row]
    /\ UNCHANGED <<month, subscription, company, paid, clerk, blockRead, crossed>>

\* updateStatus and update of a user write isActive and not status.
UpdateStatus(u, isActive) ==
    ~employee[u].deleted /\ SetEmployee(u, [employee[u] EXCEPT !.isActive = isActive])

RemoveUser(u) ==
    /\ ~employee[u].deleted
    /\ SetEmployee(u, [employee[u] EXCEPT !.isActive = FALSE, !.deleted = TRUE])

RestoreUser(u) == SetEmployee(u, [employee[u] EXCEPT !.isActive = TRUE, !.deleted = FALSE])

\* create with the telephone number of a deleted user
CreateUser(u, isActive) ==
    /\ employee[u].deleted
    /\ SetEmployee(u, [isActive |-> isActive, blocked |-> ~isActive, deleted |-> FALSE])

NextMonth ==
    /\ month < LastMonth
    /\ month' = month + 1
    /\ UNCHANGED <<subscription, company, employee, paid, clerk, blockRead, crossed>>

FinishTask(c) == CreatePayment(c) \/ Renew(c) \/ Sweep(c)

SubscriptionNext ==
    \/ \E c \in Clerk : AskPayment(c) \/ AskRenewal(c) \/ AskSweep(c) \/ FinishTask(c)
    \/ \E e \in Editor : AskUpdate(e) \/ \E b \in BOOLEAN : UpdateCompany(e, b)
    \/ BlockCompany \/ UnblockCompany
    \/ \E u \in Employee :
        \/ RemoveUser(u) \/ RestoreUser(u)
        \/ \E b \in BOOLEAN : UpdateStatus(u, b) \/ CreateUser(u, b)
    \/ NextMonth

(* The job comes every night, and what has begun is finished. *)
SubscriptionFairness ==
    /\ \A c \in Clerk : WF_subscriptionVars(FinishTask(c))
    /\ WF_subscriptionVars(\E c \in Clerk : AskSweep(c))

SubscriptionSpec ==
    SubscriptionInit /\ [][SubscriptionNext]_subscriptionVars /\ SubscriptionFairness

-----------------------------------------------------------------------------
SubscriptionTypeOK ==
    /\ month \in 0..LastMonth
    /\ subscription \in Subscribed
    /\ company \in CompanyState
    /\ employee \in [Employee -> Employees]
    /\ IsFiniteSet(paid) /\ paid \subseteq [start : Nat, nth : Nat]
    /\ clerk \in [Clerk -> Tasks]
    /\ blockRead \in [Editor -> CompanyState \cup {NotReading}]
    /\ crossed \in BOOLEAN

(* Every payment buys a month of its own, a subscription is marked expired only
   when it is over, and a company is blocked for it only while it is: unless two
   of payment, renewal and nightly job ran at once, or one of them ended between
   the read and the write of an update of the company, which may then put an old
   block back (platform.service.ts:994, 854, 917, 195, 311). *)
PaidMonthsCount ==
    ~crossed =>
        /\ \A p, q \in paid : p.start = q.start => p = q
        /\ subscription.status = "expired" => Over(subscription)
        /\ company = "subscription_expired" => subscription.status = "expired"

(* A subscription that has run out is noticed: it is extended or it expires, and
   when it expires the company stops (platform.service.ts:917). *)
ExpiryIsNoticed == Expiring ~> ~Expiring

=============================================================================
