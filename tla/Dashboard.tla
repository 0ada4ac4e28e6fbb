-------------------------------- MODULE Dashboard --------------------------------
(***************************************************************************)
(* dashboard/app.py, and the endpoint it polls, GET /metrics/dashboard in  *)
(* api/routes.py: what the operators see of the cost ledger.               *)
(*                                                                         *)
(* A page asks the gateway and is answered by whichever worker accepts the *)
(* connection; the reply, or generated data if there is none in time, is   *)
(* cached for all pages for four seconds.  How long an entry is used is    *)
(* left open: `cached' is replaced at any time.                            *)
(***************************************************************************)
EXTENDS CostLedger

CONSTANT RecentLimit   \* records in a reply: 25

ASSUME DashboardAssumption == RecentLimit \in Nat \ {0}

VARIABLE cached   \* the entry of fetch_dashboard_data in st.cache_data

dashboardVars == <<vars, cached>>

RoundTo == 100   \* micro-dollars in the fourth decimal

\* The multiples of RoundTo that are nearest to a cost; a tie falls either way.
Rounded(cost) ==
  LET below == (cost \div RoundTo) * RoundTo
  IN  {c \in {below, below + RoundTo} : 2 * (c - cost) <= RoundTo /\ 2 * (cost - c) <= RoundTo}

\* A variant ends in Slip when it is a bug a run must catch: no specification
\* uses it.
GetSummarySlip(w) ==   \* the totals of the workers are added up
  {[summary[w] EXCEPT !.total_cost_usd =
      FoldSet(LAMBDA v, sum : sum + summary[v].total_cost_usd, 0, alive)]}

\* get_summary
GetSummary(w) ==
  {[summary[w] EXCEPT !.total_cost_usd = c] : c \in Rounded(summary[w].total_cost_usd)}

GetRecentRecordsSlip(w) ==   \* [-limit:-1]
  LET count == Len(records[w])
  IN  Reverse(SubSeq(records[w], IF count > RecentLimit THEN count - RecentLimit + 1 ELSE 1,
                     count - 1))

\* get_recent_records: the newest come first.
GetRecentRecords(w) ==
  LET count == Len(records[w])
  IN  Reverse(SubSeq(records[w], IF count > RecentLimit THEN count - RecentLimit + 1 ELSE 1, count))

\* dashboard_metrics, with the parts that Gateway models as one value each
DashboardMetrics(w) ==
  {[cost_summary |-> s, recent_usage |-> GetRecentRecords(w),
    circuit_breaker |-> "its metrics", redis_healthy |-> "its flag",
    is_mock |-> FALSE] : s \in GetSummary(w)}

\* _generate_mock_dataset
MockDataset ==
  [cost_summary |-> [total_cost_usd |-> "generated", total_requests |-> "generated",
                     cost_by_user |-> "generated", cost_by_model |-> "generated"],
   recent_usage |-> "generated", circuit_breakers |-> "generated",
   redis_healthy |-> "generated", is_mock |-> TRUE]

\* fetch_dashboard_data, when the cached entry has expired: a worker answers
\* within the time-out, or no usable answer comes.
Fetch ==
  /\ \/ \E w \in alive : cached' \in DashboardMetrics(w)
     \/ cached' = MockDataset
  /\ UNCHANGED vars

\* Whether the data are live, and whether Redis is said to be connected
Sidebar(data) == [simulated |-> data.is_mock, redis |-> data.redis_healthy]

\* The card of the amount spent, labelled "Today": the total of all time
Spent(data) == data.cost_summary.total_cost_usd

\* The pie and the bars
SpendByModel(data) == data.cost_summary.cost_by_model
SpendByUser(data) == data.cost_summary.cost_by_user

\* The cards of the breakers; a reply has no "circuit_breakers".
BreakerCards(data) ==
  IF "circuit_breakers" \in DOMAIN data THEN data.circuit_breakers ELSE <<>>

\* The table of recent requests
LedgerTable(data) == data.recent_usage

\* What a page shows of its data, before amounts are formatted; the traffic,
\* the alert, the threat log and the requests per minute are generated on every
\* page.
Page(data) ==
  [sidebar |-> Sidebar(data), spent |-> Spent(data),
   by_model |-> SpendByModel(data), breakers |-> BreakerCards(data),
   by_user |-> SpendByUser(data), ledger |-> LedgerTable(data)]

\* The dashboard may be started before the gateway has answered anything.
DashboardInit == Init /\ cached = MockDataset

DashboardNext ==
  \/ Next /\ UNCHANGED cached
  \/ Fetch

DashboardSpec == DashboardInit /\ [][DashboardNext]_dashboardVars
--------------------------------------------------------------------------------
page == Page(cached)

Near(shown, cost) == 2 * (shown - cost) <= RoundTo /\ 2 * (cost - shown) <= RoundTo

\* The parts of a live page agree, though they are kept separately and
\* whatever failed, died or was replayed: the pie, the bars and the amount
\* spent are of one sum, and it is that of the table, as long as the table has
\* room for every record.
PageAddsUp ==
  ~page.sidebar.simulated =>
    LET known == cached.cost_summary.total_requests
        spent == Total(page.by_user)
    IN  /\ Total(page.by_model) = spent /\ Near(page.spent, spent)
        /\ Len(page.ledger) = IF known < RecentLimit THEN known ELSE RecentLimit
        /\ CostOf(page.ledger) <= spent
        /\ known <= RecentLimit => CostOf(page.ledger) = spent

\* The most that a request can have cost.
Charge(r) == Max({record.cost_usd : record \in NewRecords(r)})

\* However stale the page and whichever worker answered it, if it is built from
\* a reply it never shows more than was spent on all requests completed so far:
\* nothing is counted twice by two workers, by a replay or by a table.  Whether
\* it was spent today, as the card says, no reply tells.
NeverOverstates ==
  ~page.sidebar.simulated =>
    LET completed == {r \in Requests : outcome[r] # "none"}
        budget == Total([r \in completed |-> Charge(r)])
    IN  /\ 2 * page.spent <= 2 * budget + RoundTo
        /\ CostOf(page.ledger) <= budget
================================================================================
