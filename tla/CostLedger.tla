------------------------------- MODULE CostLedger -------------------------------
(***************************************************************************)
(* services/cost_tracker.py, class CostTracker: each worker process of the *)
(* gateway keeps the usage records and their summary in memory, appends    *)
(* every record to the one ledger file they share, and rebuilds its memory *)
(* from that file when it starts.                                          *)
(*                                                                         *)
(* The file is the sequence of the pieces that were written to it.  A      *)
(* write that is cut short (disk full, the process killed) leaves a piece  *)
(* that is not a whole record, or a whole record without its newline; the  *)
(* next append, by whichever worker, continues the same line.              *)
(*                                                                         *)
(* record_usage runs without suspending and under a lock, so it is one     *)
(* step of its worker, split only by the ways in which it can fail.        *)
(***************************************************************************)
EXTENDS Pricing, Totals, Sequences, FiniteSets, SequencesExt

CONSTANTS
  Workers,    \* gateway processes
  Requests,   \* completed AI requests
  Usage       \* username, model, input_tokens and output_tokens of each

ASSUME LedgerAssumption ==
  /\ IsFiniteSet(Requests)
  /\ \A r \in Requests : Usage[r].input_tokens \in Nat /\ Usage[r].output_tokens \in Nat

Users == {Usage[r].username : r \in Requests}
Models == {Usage[r].model : r \in Requests}

VARIABLES
  alive,      \* the workers that are running
  records,    \* _records of each worker
  summary,    \* _summary of each worker
  file,       \* the pieces in the ledger file
  outcome     \* what the client was told about each request

vars == <<alive, records, summary, file, outcome>>

Outcomes == {"none", "acked", "failed", "dropped"}

EmptySummary ==
  [total_cost_usd |-> 0, total_requests |-> 0,
   total_input_tokens |-> 0, total_output_tokens |-> 0,
   cost_by_user |-> [u \in Users |-> 0], cost_by_model |-> [m \in Models |-> 0]]

Init ==
  /\ alive = Workers
  /\ records = [w \in Workers |-> <<>>]
  /\ summary = [w \in Workers |-> EmptySummary]
  /\ file = <<>>
  /\ outcome = [r \in Requests |-> "none"]

\* A variant ends in Slip when it is a bug a run must catch: no specification
\* uses it.
ApplySlip(s, record) ==   \* the cost of a user is overwritten, not added to
  LET u == Usage[record.request]
  IN  [s EXCEPT !.total_cost_usd = @ + record.cost_usd,
                !.total_requests = @ + 1,
                !.total_input_tokens = @ + u.input_tokens,
                !.total_output_tokens = @ + u.output_tokens,
                !.cost_by_user[u.username] = record.cost_usd,
                !.cost_by_model[u.model] = @ + record.cost_usd]

\* _apply_to_summary
Apply(s, record) ==
  LET u == Usage[record.request]
  IN  [s EXCEPT !.total_cost_usd = @ + record.cost_usd,
                !.total_requests = @ + 1,
                !.total_input_tokens = @ + u.input_tokens,
                !.total_output_tokens = @ + u.output_tokens,
                !.cost_by_user[u.username] = @ + record.cost_usd,
                !.cost_by_model[u.model] = @ + record.cost_usd]

\* What a write of a record leaves in the file: all of it, all but the newline,
\* a part of it, or nothing.
Written(record, extent) ==
  CASE extent = "line"     -> <<[record |-> record, whole |-> TRUE, newline |-> TRUE]>>
    [] extent = "unended"  -> <<[record |-> record, whole |-> TRUE, newline |-> FALSE]>>
    [] extent = "fragment" -> <<[record |-> record, whole |-> FALSE, newline |-> FALSE]>>
    [] extent = "nothing"  -> <<>>

\* The usage record of a request, for each cost calculate_cost can return.
NewRecords(r) ==
  {[request |-> r, cost_usd |-> c] :
     c \in CalculateCost(Usage[r].model, Usage[r].input_tokens, Usage[r].output_tokens)}

\* The in-memory half of record_usage
Remember(w, record) ==
  /\ records' = [records EXCEPT ![w] = Append(@, record)]
  /\ summary' = [summary EXCEPT ![w] = Apply(@, record)]

RecordUsageUnendedSlip(w, r) ==   \* no newline
  /\ w \in alive /\ outcome[r] = "none"
  /\ \E record \in NewRecords(r) :
       /\ Remember(w, record)
       /\ file' = file \o Written(record, "unended")
  /\ outcome' = [outcome EXCEPT ![r] = "acked"]
  /\ UNCHANGED alive

RecordUsageTruncateSlip(w, r) ==   \* open("w") for open("a")
  /\ w \in alive /\ outcome[r] = "none"
  /\ \E record \in NewRecords(r) :
       /\ Remember(w, record)
       /\ file' = Written(record, "line")
  /\ outcome' = [outcome EXCEPT ![r] = "acked"]
  /\ UNCHANGED alive

\* record_usage; the client is answered 200.
RecordUsage(w, r) ==
  /\ w \in alive /\ outcome[r] = "none"
  /\ \E record \in NewRecords(r) :
       /\ Remember(w, record)
       /\ file' = file \o Written(record, "line")
  /\ outcome' = [outcome EXCEPT ![r] = "acked"]
  /\ UNCHANGED alive

\* The open, the write or the close raises, after the memory was updated; the
\* client is answered 500, whatever has got into the file.
RecordFails(w, r) ==
  /\ w \in alive /\ outcome[r] = "none"
  /\ \E record \in NewRecords(r), extent \in {"line", "unended", "fragment", "nothing"} :
       /\ Remember(w, record)
       /\ file' = file \o Written(record, extent)
  /\ outcome' = [outcome EXCEPT ![r] = "failed"]
  /\ UNCHANGED alive

Forget(w) ==
  /\ alive' = alive \ {w}
  /\ records' = [records EXCEPT ![w] = <<>>]
  /\ summary' = [summary EXCEPT ![w] = EmptySummary]

\* The process dies between two requests,
Crash(w) ==
  /\ w \in alive
  /\ Forget(w)
  /\ UNCHANGED <<file, outcome>>

\* or somewhere in record_usage, or after it and before the answer is sent.
CrashWriting(w, r) ==
  /\ w \in alive /\ outcome[r] = "none"
  /\ \E record \in NewRecords(r), extent \in {"line", "unended", "fragment"} :
       file' = file \o Written(record, extent)
  /\ outcome' = [outcome EXCEPT ![r] = "dropped"]
  /\ Forget(w)

\* A line is parsed if it consists of one whole record.
Parsed(pieces, i) ==
  /\ pieces[i].whole
  /\ i = 1 \/ pieces[i - 1].newline
  /\ i = Len(pieces) \/ pieces[i].newline

\* The records that _load_existing_ledger finds, in the order of the file.
Replay(pieces) ==
  FoldLeft(LAMBDA found, i :
             IF Parsed(pieces, i) THEN Append(found, pieces[i].record) ELSE found,
           <<>>, [i \in DOMAIN pieces |-> i])

BootSlip(w) ==   \* the ledger is replayed on top of what is in memory
  /\ alive' = alive \cup {w}
  /\ records' = [records EXCEPT ![w] = @ \o Replay(file)]
  /\ summary' = [summary EXCEPT ![w] = FoldLeft(Apply, @, Replay(file))]
  /\ UNCHANGED <<file, outcome>>

\* A worker starts: CostTracker.__init__ and _load_existing_ledger
Boot(w) ==
  /\ w \notin alive
  /\ alive' = alive \cup {w}
  /\ records' = [records EXCEPT ![w] = Replay(file)]
  /\ summary' = [summary EXCEPT ![w] = FoldLeft(Apply, EmptySummary, Replay(file))]
  /\ UNCHANGED <<file, outcome>>

Next ==
  \E w \in Workers :
    \/ \E r \in Requests : RecordUsage(w, r)
    \/ \E r \in Requests : RecordFails(w, r)
    \/ Crash(w)
    \/ \E r \in Requests : CrashWriting(w, r)
    \/ Boot(w)

Spec == Init /\ [][Next]_vars
--------------------------------------------------------------------------------
Counts == 0 .. Cardinality(Requests)

\* Type invariant of the ledger and of the workers' memories.
TypeOK ==
  /\ alive \subseteq Workers
  /\ \A w \in Workers :
       /\ \A i \in DOMAIN records[w] :
            records[w][i] \in UNION {NewRecords(r) : r \in Requests}
       /\ DOMAIN summary[w] = DOMAIN EmptySummary
       /\ summary[w].total_requests \in Counts
  /\ \A i \in DOMAIN file :
       /\ file[i].record \in UNION {NewRecords(r) : r \in Requests}
       /\ file[i].newline => file[i].whole
  /\ outcome \in [Requests -> Outcomes]

CostOf(s) == Total([i \in DOMAIN s |-> s[i].cost_usd])
CostOfUser(s, u) ==
  Total([i \in DOMAIN s |-> IF Usage[s[i].request].username = u THEN s[i].cost_usd ELSE 0])
CostOfModel(s, m) ==
  Total([i \in DOMAIN s |-> IF Usage[s[i].request].model = m THEN s[i].cost_usd ELSE 0])

InputTokensOf(s) == Total([i \in DOMAIN s |-> Usage[s[i].request].input_tokens])
OutputTokensOf(s) == Total([i \in DOMAIN s |-> Usage[s[i].request].output_tokens])

Summarises(sum, s) ==
  /\ sum.total_requests = Len(s)
  /\ sum.total_input_tokens = InputTokensOf(s)
  /\ sum.total_output_tokens = OutputTokensOf(s)
  /\ sum.total_cost_usd = CostOf(s)
  /\ \A u \in Users : sum.cost_by_user[u] = CostOfUser(s, u)
  /\ \A m \in Models : sum.cost_by_model[m] = CostOfModel(s, m)

\* The O(1) summary agrees with the records it summarises, through failures,
\* crashes and replays, in all six totals: requests, tokens in and out, and the
\* cost as a whole, by user and by model.
SummaryMatches == \A w \in Workers : Summarises(summary[w], records[w])

Once(s) == \A i, j \in DOMAIN s : s[i].request = s[j].request => i = j

\* No request is billed twice, in a worker's memory or by a replay.
BilledOnce == Once(Replay(file)) /\ \A w \in Workers : Once(records[w])

RequestsIn(s) == {s[k].request : k \in DOMAIN s}

Found == RequestsIn(Replay(file))
Acked == {r \in Requests : outcome[r] = "acked"}
Broken == {r \in Requests : outcome[r] \in {"failed", "dropped"}}

\* A request whose write was cut off can take with it at most the one
\* acknowledged record that is appended to its line; without such a request,
\* the replay finds every acknowledged record.
LossBounded == Cardinality(Acked \ Found) <= Cardinality(Broken)

\* An acknowledged record that a replay would find is found ever after.
StaysFound == [][Acked \cap Found \subseteq Found']_vars

\* The ledger as the documentation words it (cost_tracker.py:78-79, "rebuilt by
\* replaying the ledger file -- giving us crash-safety", README.md:230,
\* "crash-safe ledger replay"): a replay finds every acknowledged request.
AckedIsFound == Acked \subseteq Found
================================================================================
