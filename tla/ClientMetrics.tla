--------------------------- MODULE ClientMetrics ---------------------------
(***************************************************************************)
(* What the client pages say a client has bought (src/clients), next to    *)
(* what the sales service wrote into the client's record.  The pages add   *)
(* up the papers of Adjustments anew, each in its own way, and fall back   *)
(* on the record when there are none.  Names, birthdays and the other      *)
(* columns are left out, and so is the filter by shops.                    *)
(***************************************************************************)
EXTENDS Adjustments

NoMetric == [visits |-> 0]

LeastOf(S) == CHOOSE n \in S : \A k \in S : n <= k
GreatestOf(S) == CHOOSE n \in S : \A k \in S : k <= n

\* completedSaleWhere: sales and exchanges, returned or not.
Completed == Purchases(papers)

\* loadClientMetrics: groupBy of the client's papers; no papers, no group.
Metric ==
    LET dates == {papers[i].at : i \in Completed}
    IN  IF Completed = {} THEN NoMetric
        ELSE [total |-> SumOver([i \in Completed |-> papers[i].payable], Completed),
              visits |-> Cardinality(Completed),
              last |-> GreatestOf(dates), first |-> LeastOf(dates)]

\* toClientListItem, toCustomersListItem.
ListItem ==
    IF Metric = NoMetric THEN books
    ELSE [total |-> Metric.total, visits |-> Metric.visits, last |-> Metric.last]

\* getListStats: clients who came once.
NeverCameBack == Metric.visits > 0 /\ Metric.visits <= 1

\* buildClientDashboard: one by one over the papers and their lines.
Dashboard ==
    LET payable == [i \in Completed |-> papers[i].payable]
    IN  [visits |-> Cardinality(Completed),
         total |-> SumOver(payable, Completed),
         top |-> GreatestOf({0} \cup {payable[i] : i \in Completed}),
         units |-> SumOver([i \in Completed |-> Sum(papers[i].units)], Completed),
         dates |-> {papers[i].at : i \in Completed}]

\* getHistory, of the purchases of a period; debts are in ClientAccounts.
History(from, to) == {i \in Completed : papers[i].at \in from .. to}

\* getPreferences: how often a product was bought, and when last.
Preference(g) ==
    LET with == {i \in Completed : papers[i].units[g] > 0}
    IN  [count |-> Cardinality(with),
         last |-> IF with = {} THEN 0 ELSE GreatestOf({papers[i].at : i \in with})]

\* matchesMetricFilters: clients who bought since a moment, and who did not; the
\* second takes whoever never bought.
BoughtSince(t) == ListItem.visits > 0 /\ ListItem.last >= t
InactiveSince(t) == ListItem.visits = 0 \/ ListItem.last <= t

-----------------------------------------------------------------------------
\* The pages agree with each other and with the record, which the sales service
\* keeps: the same visits, the same last purchase, and the record is worth what
\* the pages say without what was returned.  The record may be behind, and a
\* purchase without lines is in no product's history.
MetricsAgree ==
    LET returned == SumOver([i \in DOMAIN papers |-> papers[i].payable],
                            LiveOfType(papers, {"return"}))
        history == History(0, LastMinute + Ahead)
    IN  /\ Dashboard.visits = Metric.visits /\ Cardinality(history) = Metric.visits
        /\ NeverCameBack <=> Dashboard.visits = 1
        /\ Metric # NoMetric =>
              /\ Dashboard.total = Metric.total
              /\ Dashboard.top <= Metric.total
              /\ Dashboard.dates \subseteq Metric.first .. Metric.last
              /\ (\A i \in Completed : Sum(papers[i].units) > 0) =>
                    GreatestOf({Preference(g).last : g \in Good}) = Metric.last
              /\ \A g \in Good : Preference(g).count <= Metric.visits
        /\ ~behind =>
              /\ books.visits = Dashboard.visits
              /\ books.last = ListItem.last
              /\ books.total = Positive(Dashboard.total - returned)
              /\ \A t \in Minutes :
                    /\ BoughtSince(t) <=> History(t, LastMinute + Ahead) # {}
                    /\ InactiveSince(t) <=> History(t + 1, LastMinute + Ahead) = {}

=============================================================================
