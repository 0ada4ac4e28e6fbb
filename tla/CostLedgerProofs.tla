---------------------------- MODULE CostLedgerProofs ----------------------------
(***************************************************************************)
(* What the ledger and the dashboard promise, for any number of workers,   *)
(* requests, users and models and any finite set of requests, from         *)
(* LedgerAssumption and DashboardAssumption.                               *)
(*                                                                         *)
(* A memory is right when its records are of different requests and its    *)
(* summary is their sum (MemoryInv); the file is right when no request is  *)
(* written twice and only a request that failed leaves a piece without a   *)
(* newline (FileInv).  One more record keeps a memory right, a replay of   *)
(* a right file makes a right memory, whatever accidents the file has      *)
(* seen, and a page shows a part of one right memory.                      *)
(*                                                                         *)
(* Sums, replays and summaries are folds; TotalProofs says what they       *)
(* compute.                                                                *)
(***************************************************************************)
EXTENDS Dashboard, TotalProofs

--------------------------------------------------------------------------------
(***************************************************************************)
(* The records and their costs.                                            *)
(***************************************************************************)
\* A usage record that record_usage can make, and a piece of the ledger file
Record == UNION {NewRecords(r) : r \in Requests}

Piece == [record : Record, whole : BOOLEAN, newline : BOOLEAN]

\* PRICING_TABLE and DEFAULT_PRICING hold whole numbers.
LEMMA PricesTyped ==
  ASSUME NEW model
  PROVE  PriceOf(model).input \in Nat /\ PriceOf(model).output \in Nat
<1>1. \A m \in DOMAIN PRICING_TABLE :
        PRICING_TABLE[m].input \in Nat /\ PRICING_TABLE[m].output \in Nat
  BY DEF PRICING_TABLE
<1>2. QED
  BY <1>1 DEF PriceOf, DEFAULT_PRICING

\* A request's records name it and cost a whole number of micro-dollars, at most
\* the charge.
LEMMA NewRecordFacts ==
  ASSUME NEW r \in Requests
  PROVE  /\ Charge(r) \in Nat
         /\ \A record \in NewRecords(r) :
              /\ record \in Record
              /\ record.request = r
              /\ record.cost_usd \in Nat
              /\ record.cost_usd <= Charge(r)
<1> DEFINE p == PriceOf(Usage[r].model)
           exact == Usage[r].input_tokens * p.input + Usage[r].output_tokens * p.output
           C == {exact \div 2, (exact + 1) \div 2}
<1>1. exact \in Nat
  <2>1. p.input \in Nat /\ p.output \in Nat
    BY PricesTyped
  <2>2. Usage[r].input_tokens \in Nat /\ Usage[r].output_tokens \in Nat
    BY LedgerAssumption
  <2> HIDE DEF p
  <2>3. QED
    BY <2>1, <2>2
<1>2. NewRecords(r) = {[request |-> r, cost_usd |-> c] : c \in C}
  BY DEF NewRecords, CalculateCost
<1> HIDE DEF exact
<1>3. C \in SUBSET (0 .. exact + 1) /\ C # {}
  BY <1>1
<1> HIDE DEF C
<1>4. {record.cost_usd : record \in NewRecords(r)} = C
  <2>1. ASSUME NEW c \in C PROVE \E record \in NewRecords(r) : record.cost_usd = c
    <3>1. [request |-> r, cost_usd |-> c] \in NewRecords(r)
      BY <1>2
    <3>2. QED
      BY <3>1
  <2>2. \A record \in NewRecords(r) : record.cost_usd \in C
    BY <1>2
  <2>3. QED
    BY <2>1, <2>2, Zenon
<1>5. Max(C) \in C /\ \A c \in C : Max(C) >= c
  <2>1. exact + 1 \in Nat
    BY <1>1
  <2>2. QED
    BY <1>3, <2>1, MaxIn
<1>6. Charge(r) = Max(C)
  BY <1>4 DEF Charge
<1>7. QED
  BY <1>1, <1>2, <1>3, <1>5, <1>6 DEF Record

\* The same of a record whose request is not named: it costs what its request may.
LEMMA RecordFacts ==
  ASSUME NEW record \in Record
  PROVE  /\ record.request \in Requests
         /\ record.cost_usd \in Nat
         /\ record.cost_usd <= Charge(record.request)
         /\ Charge(record.request) \in Nat
<1>1. PICK r \in Requests : record \in NewRecords(r)
  BY DEF Record
<1>2. QED
  BY <1>1, NewRecordFacts

\* Users and Models are finite.
LEMMA NamesFinite == IsFiniteSet(Users) /\ IsFiniteSet(Models)
<1>1. [r \in Requests |-> Usage[r].username] \in Surjection(Requests, Users)
  BY DEF Surjection, Users
<1>2. [r \in Requests |-> Usage[r].model] \in Surjection(Requests, Models)
  BY DEF Surjection, Models
<1>3. QED
  BY <1>1, <1>2, FS_Surjection, LedgerAssumption

\* The user and the model of a record have their places in the summary.
LEMMA RecordNames ==
  ASSUME NEW record \in Record
  PROVE  Usage[record.request].username \in Users /\ Usage[record.request].model \in Models
  BY RecordFacts DEF Users, Models
--------------------------------------------------------------------------------
(***************************************************************************)
(* The summary of one more record.                                         *)
(***************************************************************************)
\* What a CostSummary may hold
Summaries ==
  [total_cost_usd : Int, total_requests : Int,
   total_input_tokens : Int, total_output_tokens : Int,
   cost_by_user : [Users -> Int], cost_by_model : [Models -> Int]]

\* _apply_to_summary, field by field
LEMMA ApplyFields ==
  ASSUME NEW s \in Summaries, NEW record \in Record
  PROVE  LET u == Usage[record.request].username
             m == Usage[record.request].model
             t == Apply(s, record)
         IN  /\ t.total_cost_usd = s.total_cost_usd + record.cost_usd
             /\ t.total_requests = s.total_requests + 1
             /\ t.total_input_tokens
                  = s.total_input_tokens + Usage[record.request].input_tokens
             /\ t.total_output_tokens
                  = s.total_output_tokens + Usage[record.request].output_tokens
             /\ t.cost_by_user = [s.cost_by_user EXCEPT ![u] = @ + record.cost_usd]
             /\ t.cost_by_model = [s.cost_by_model EXCEPT ![m] = @ + record.cost_usd]
  BY DEF Apply, Summaries

\* _apply_to_summary keeps the type of a summary.
LEMMA ApplyTyped ==
  ASSUME NEW s \in Summaries, NEW record \in Record
  PROVE  Apply(s, record) \in Summaries
<1> DEFINE u == Usage[record.request]
<1>1. u.input_tokens \in Nat /\ u.output_tokens \in Nat /\ record.cost_usd \in Int
  BY RecordFacts, LedgerAssumption
<1>2. /\ Apply(s, record).cost_by_user \in [Users -> Int]
      /\ Apply(s, record).cost_by_model \in [Models -> Int]
  <2>1. s.cost_by_user \in [Users -> Int] /\ s.cost_by_model \in [Models -> Int]
    BY DEF Summaries
  <2>2. u.username \in Users /\ u.model \in Models
    BY RecordNames
  <2>3. /\ Apply(s, record).cost_by_user
              = [s.cost_by_user EXCEPT ![u.username] = @ + record.cost_usd]
        /\ Apply(s, record).cost_by_model
              = [s.cost_by_model EXCEPT ![u.model] = @ + record.cost_usd]
    BY ApplyFields
  <2> HIDE DEF u
  <2>4. QED
    BY <1>1, <2>1, <2>2, <2>3
<1> DEFINE t == Apply(s, record)
<1>3. /\ t.total_cost_usd \in Int /\ t.total_requests \in Int
      /\ t.total_input_tokens \in Int /\ t.total_output_tokens \in Int
  BY <1>1 DEF Apply, Summaries
<1>4. t = [total_cost_usd |-> t.total_cost_usd, total_requests |-> t.total_requests,
           total_input_tokens |-> t.total_input_tokens,
           total_output_tokens |-> t.total_output_tokens,
           cost_by_user |-> t.cost_by_user, cost_by_model |-> t.cost_by_model]
  <2>1. DOMAIN t = {"total_cost_usd", "total_requests", "total_input_tokens",
                    "total_output_tokens", "cost_by_user", "cost_by_model"}
        /\ t = [x \in DOMAIN t |-> t[x]]
    BY DEF Apply, Summaries
  <2> HIDE DEF t
  <2>2. QED
    BY <2>1
<1> HIDE DEF t
<1>5. QED
  BY <1>2, <1>3, <1>4 DEF Summaries, t

\* A new CostSummary has the type of a summary.
LEMMA EmptyTyped == EmptySummary \in Summaries
  BY DEF EmptySummary, Summaries

\* A cost that depends on the record only, summed over a sequence
LEMMA CostAppend ==
  ASSUME NEW s \in Seq(Record), NEW record \in Record, NEW cost \in [Record -> Int]
  PROVE  LET t == Append(s, record)
         IN  Total([i \in DOMAIN t |-> cost[t[i]]])
               = Total([i \in DOMAIN s |-> cost[s[i]]]) + cost[record]
<1> DEFINE t == Append(s, record)
           n == Len(s)
           f == [i \in DOMAIN t |-> cost[t[i]]]
           e == [i \in DOMAIN s |-> cost[s[i]]]
<1>1. n \in Nat /\ DOMAIN s = 1 .. n /\ DOMAIN t = 1 .. n + 1 /\ t \in Seq(Record)
      /\ t[n + 1] = record
  OBVIOUS
<1>2. f \in [1 .. n + 1 -> Int] /\ e \in [1 .. n -> Int]
  BY <1>1
<1>3. f[n + 1] = cost[record] /\ \A i \in 1 .. n : e[i] = f[i]
  BY <1>1
<1>4. Total(f) = Total(e) + f[n + 1]
  <2> HIDE DEF f, e, n
  <2> QED
    BY <1>1, <1>2, <1>3, TotalLast
<1>5. QED
  BY <1>3, <1>4


\* One more record adds its cost to the sum of all,
LEMMA CostOfAppend ==
  ASSUME NEW s \in Seq(Record), NEW record \in Record
  PROVE  CostOf(Append(s, record)) = CostOf(s) + record.cost_usd
<1> DEFINE cost == [a \in Record |-> a.cost_usd]
<1>1. cost \in [Record -> Int] /\ cost[record] = record.cost_usd
  BY RecordFacts
<1>2. ASSUME NEW t \in Seq(Record)
      PROVE  CostOf(t) = Total([i \in DOMAIN t |-> cost[t[i]]])
  <2>1. \A i \in DOMAIN t : t[i].cost_usd = cost[t[i]]
    OBVIOUS
  <2> HIDE DEF cost
  <2>2. QED
    BY <2>1 DEF CostOf
<1>3. Append(s, record) \in Seq(Record)
  OBVIOUS
<1> HIDE DEF cost
<1>4. QED
  BY <1>1, <1>2, <1>3, CostAppend

\* to the sum of its user and no other,
LEMMA CostOfUserAppend ==
  ASSUME NEW s \in Seq(Record), NEW record \in Record, NEW u
  PROVE  CostOfUser(Append(s, record), u)
           = CostOfUser(s, u) + IF Usage[record.request].username = u THEN record.cost_usd ELSE 0
<1> DEFINE cost == [a \in Record |-> IF Usage[a.request].username = u THEN a.cost_usd ELSE 0]
<1>1. cost \in [Record -> Int]
      /\ cost[record] = IF Usage[record.request].username = u THEN record.cost_usd ELSE 0
  BY RecordFacts
<1>2. ASSUME NEW t \in Seq(Record)
      PROVE  CostOfUser(t, u) = Total([i \in DOMAIN t |-> cost[t[i]]])
  <2>1. \A i \in DOMAIN t :
          cost[t[i]] = IF Usage[t[i].request].username = u THEN t[i].cost_usd ELSE 0
    OBVIOUS
  <2> HIDE DEF cost
  <2>2. QED
    BY <2>1 DEF CostOfUser
<1>3. Append(s, record) \in Seq(Record)
  OBVIOUS
<1> HIDE DEF cost
<1>4. QED
  BY <1>1, <1>2, <1>3, CostAppend

\* and to the sum of its model and no other.
LEMMA CostOfModelAppend ==
  ASSUME NEW s \in Seq(Record), NEW record \in Record, NEW m
  PROVE  CostOfModel(Append(s, record), m)
           = CostOfModel(s, m) + IF Usage[record.request].model = m THEN record.cost_usd ELSE 0
<1> DEFINE cost == [a \in Record |-> IF Usage[a.request].model = m THEN a.cost_usd ELSE 0]
<1>1. cost \in [Record -> Int]
      /\ cost[record] = IF Usage[record.request].model = m THEN record.cost_usd ELSE 0
  BY RecordFacts
<1>2. ASSUME NEW t \in Seq(Record)
      PROVE  CostOfModel(t, m) = Total([i \in DOMAIN t |-> cost[t[i]]])
  <2>1. \A i \in DOMAIN t :
          cost[t[i]] = IF Usage[t[i].request].model = m THEN t[i].cost_usd ELSE 0
    OBVIOUS
  <2> HIDE DEF cost
  <2>2. QED
    BY <2>1 DEF CostOfModel
<1>3. Append(s, record) \in Seq(Record)
  OBVIOUS
<1> HIDE DEF cost
<1>4. QED
  BY <1>1, <1>2, <1>3, CostAppend

\* Its tokens are added to those of the rest.
LEMMA TokensOfAppend ==
  ASSUME NEW s \in Seq(Record), NEW record \in Record
  PROVE  LET t == Append(s, record)
             u == Usage[record.request]
         IN  /\ InputTokensOf(t) = InputTokensOf(s) + u.input_tokens
             /\ OutputTokensOf(t) = OutputTokensOf(s) + u.output_tokens
<1> DEFINE in == [a \in Record |-> Usage[a.request].input_tokens]
           out == [a \in Record |-> Usage[a.request].output_tokens]
<1>1. /\ in \in [Record -> Int] /\ in[record] = Usage[record.request].input_tokens
      /\ out \in [Record -> Int] /\ out[record] = Usage[record.request].output_tokens
  BY RecordFacts, LedgerAssumption
<1>2. ASSUME NEW t \in Seq(Record)
      PROVE  /\ InputTokensOf(t) = Total([i \in DOMAIN t |-> in[t[i]]])
             /\ OutputTokensOf(t) = Total([i \in DOMAIN t |-> out[t[i]]])
  <2>1. \A i \in DOMAIN t : /\ Usage[t[i].request].input_tokens = in[t[i]]
                             /\ Usage[t[i].request].output_tokens = out[t[i]]
    OBVIOUS
  <2> HIDE DEF in, out
  <2>2. QED
    BY <2>1 DEF InputTokensOf, OutputTokensOf
<1>3. Append(s, record) \in Seq(Record)
  OBVIOUS
<1> HIDE DEF in, out
<1>4. QED
  BY <1>1, <1>2, <1>3, CostAppend

\* The summary of no record, and of one more
LEMMA SummarisesNone == Summarises(EmptySummary, <<>>)
<1>1. IsFiniteSet({}) /\ DOMAIN <<>> = {}
  BY FS_EmptySet
<1>2. ASSUME NEW f, DOMAIN f = {}, f = [x \in {} |-> 0] PROVE Total(f) = 0
  BY <1>1, <1>2, TotalZero
<1>3. CostOf(<<>>) = 0 /\ (\A u : CostOfUser(<<>>, u) = 0) /\ (\A m : CostOfModel(<<>>, m) = 0)
  BY <1>1, <1>2 DEF CostOf, CostOfUser, CostOfModel
<1>4. InputTokensOf(<<>>) = 0 /\ OutputTokensOf(<<>>) = 0
  BY <1>1, <1>2 DEF InputTokensOf, OutputTokensOf
<1>5. QED
  BY <1>3, <1>4 DEF Summarises, EmptySummary

\* _apply_to_summary turns the summary of some records into that of one more.
LEMMA SummarisesApply ==
  ASSUME NEW s \in Seq(Record), NEW sum \in Summaries, Summarises(sum, s), NEW record \in Record
  PROVE  Summarises(Apply(sum, record), Append(s, record))
<1> DEFINE t == Apply(sum, record)
           c == record.cost_usd
<1>1. c \in Int
  BY RecordFacts
<1>2. t.total_requests = Len(Append(s, record)) /\ t.total_cost_usd = CostOf(Append(s, record))
  <2>1. /\ t.total_cost_usd = sum.total_cost_usd + record.cost_usd
        /\ t.total_requests = sum.total_requests + 1
    BY ApplyFields
  <2>2. sum.total_cost_usd = CostOf(s) /\ sum.total_requests = Len(s)
    BY DEF Summarises
  <2>3. CostOf(Append(s, record)) = CostOf(s) + record.cost_usd
        /\ Len(Append(s, record)) = Len(s) + 1
    BY CostOfAppend
  <2> HIDE DEF t
  <2>4. QED
    BY <2>1, <2>2, <2>3
<1>3. ASSUME NEW u \in Users PROVE t.cost_by_user[u] = CostOfUser(Append(s, record), u)
  <2> DEFINE v == Usage[record.request].username
             f == sum.cost_by_user
  <2>1. f \in [Users -> Int] /\ f[u] = CostOfUser(s, u)
    BY DEF Summaries, Summarises
  <2>2. t.cost_by_user = [f EXCEPT ![v] = @ + c]
    BY ApplyFields
  <2>3. CostOfUser(Append(s, record), u) = CostOfUser(s, u) + IF v = u THEN c ELSE 0
    BY CostOfUserAppend
  <2> HIDE DEF v, f, t, c
  <2>4. QED
    BY <1>1, <2>1, <2>2, <2>3
<1>4. ASSUME NEW m \in Models PROVE t.cost_by_model[m] = CostOfModel(Append(s, record), m)
  <2> DEFINE v == Usage[record.request].model
             f == sum.cost_by_model
  <2>1. f \in [Models -> Int] /\ f[m] = CostOfModel(s, m)
    BY DEF Summaries, Summarises
  <2>2. t.cost_by_model = [f EXCEPT ![v] = @ + c]
    BY ApplyFields
  <2>3. CostOfModel(Append(s, record), m) = CostOfModel(s, m) + IF v = m THEN c ELSE 0
    BY CostOfModelAppend
  <2> HIDE DEF v, f, t, c
  <2>4. QED
    BY <1>1, <2>1, <2>2, <2>3
<1>5. /\ t.total_input_tokens = InputTokensOf(Append(s, record))
      /\ t.total_output_tokens = OutputTokensOf(Append(s, record))
  <2>1. /\ t.total_input_tokens = sum.total_input_tokens + Usage[record.request].input_tokens
        /\ t.total_output_tokens = sum.total_output_tokens + Usage[record.request].output_tokens
    BY ApplyFields
  <2> HIDE DEF t
  <2>2. QED
    BY <2>1, TokensOfAppend DEF Summarises
<1>6. QED
  BY <1>2, <1>3, <1>4, <1>5 DEF Summarises

\* The pie and the bars of a summary are of the sum it states.
BreakdownsAddUp(sum) ==
  /\ Total(sum.cost_by_user) = sum.total_cost_usd
  /\ Total(sum.cost_by_model) = sum.total_cost_usd

\* An empty summary's shares add up,
LEMMA BreakdownsNone == BreakdownsAddUp(EmptySummary)
  BY NamesFinite, TotalZero DEF BreakdownsAddUp, EmptySummary

\* and go on adding up after _apply_to_summary.
LEMMA BreakdownsApply ==
  ASSUME NEW sum \in Summaries, BreakdownsAddUp(sum), NEW record \in Record
  PROVE  BreakdownsAddUp(Apply(sum, record))
<1> DEFINE c == record.cost_usd
           t == Apply(sum, record)
           u == Usage[record.request].username
           m == Usage[record.request].model
<1>1. c \in Int /\ u \in Users /\ m \in Models
  BY RecordFacts, RecordNames
<1>2. /\ t.total_cost_usd = sum.total_cost_usd + c
      /\ t.cost_by_user = [sum.cost_by_user EXCEPT ![u] = @ + c]
      /\ t.cost_by_model = [sum.cost_by_model EXCEPT ![m] = @ + c]
  BY ApplyFields
<1>3. sum.cost_by_user \in [Users -> Int] /\ sum.cost_by_model \in [Models -> Int]
  BY DEF Summaries
<1> HIDE DEF c, t, u, m
<1>4. Total([sum.cost_by_user EXCEPT ![u] = @ + c]) = Total(sum.cost_by_user) + c
  BY <1>1, <1>3, NamesFinite, TotalUpdate
<1>5. Total([sum.cost_by_model EXCEPT ![m] = @ + c]) = Total(sum.cost_by_model) + c
  BY <1>1, <1>3, NamesFinite, TotalUpdate
<1>6. QED
  BY <1>2, <1>4, <1>5 DEF BreakdownsAddUp, t
--------------------------------------------------------------------------------
(***************************************************************************)
(* The two folds of _load_existing_ledger, as what they have computed      *)
(* after each element.                                                     *)
(***************************************************************************)
\* The summaries after each prefix of the records end in the folded one.
LEMMA ApplyPrefixes ==
  ASSUME NEW s \in Seq(Record), NEW base \in Summaries
  PROVE  \E p \in [0 .. Len(s) -> Summaries] :
           /\ p[0] = base
           /\ p[Len(s)] = FoldLeft(Apply, base, s)
           /\ \A k \in 1 .. Len(s) : p[k] = Apply(p[k - 1], s[k])
<1> DEFINE n == Len(s)
           step == [x \in (1 .. n) \X Summaries |-> Apply(x[2], s[x[1]])]
           IsIt(h) ==
             h = [T \in SUBSET DOMAIN s |->
                    IF T = {} THEN base ELSE Apply(h[T \ {Max(T)}], s[Max(T)])]
           g == CHOOSE h : IsIt(h)
<1>1. FoldLeft(Apply, base, s) = g[DOMAIN s]
  BY DEF FoldLeft, MapThenFoldSet
<1>2. n \in Nat /\ DOMAIN s = 1 .. n
  OBVIOUS
<1>3. step \in [(1 .. n) \X Summaries -> Summaries]
      /\ \A x \in 1 .. n, v \in Summaries : step[<<x, v>>] = Apply(v, s[x])
  BY ApplyTyped
<1>4. \A T \in SUBSET (1 .. n) : T # {} => Max(T) \in 1 .. n
  <2> SUFFICES ASSUME NEW T \in SUBSET (1 .. n), T # {} PROVE Max(T) \in 1 .. n
    OBVIOUS
  <2>1. T \in SUBSET (0 .. n)
    OBVIOUS
  <2>2. Max(T) \in T
    BY <1>2, <2>1, MaxIn
  <2>3. QED
    BY <2>2
<1>5. IsIt(g)
  <2>1. PICK h \in [SUBSET (1 .. n) -> Summaries] : FoldsUp(h, n, Summaries, base, step)
    <3> HIDE DEF n, step
    <3> QED
      BY <1>2, <1>3, FoldUpExists
  <2> HIDE DEF n, step
  <2>2. ASSUME NEW T \in SUBSET (1 .. n), T # {} PROVE h[T] = Apply(h[T \ {Max(T)}], s[Max(T)])
    <3>1. h[T \ {Max(T)}] \in Summaries
      BY <2>1
    <3>2. h[T] = step[<<Max(T), h[T \ {Max(T)}]>>]
      BY <2>2, <3>1, <2>1 DEF FoldsUp
    <3>3. QED
      BY <1>3, <1>4, <2>2, <3>1, <3>2
  <2>3. IsIt(h)
    BY <1>2, <2>1, <2>2 DEF FoldsUp
  <2>4. QED
    <3> HIDE DEF IsIt
    <3> QED
      BY <2>3
<1> HIDE DEF n, step, g
<1>6. FoldsUp(g, n, Summaries, base, step)
  <2>1. g[{}] = base
    BY <1>5
  <2>2. ASSUME NEW T \in SUBSET (1 .. n), T # {}, g[T \ {Max(T)}] \in Summaries
        PROVE  g[T] = step[<<Max(T), g[T \ {Max(T)}]>>]
    BY <1>2, <1>3, <1>4, <1>5, <2>2
  <2>3. QED
    BY <2>1, <2>2 DEF FoldsUp
<1>7. PICK p : Steps(p, g, n, Summaries, base, step)
  <2>1. n \in Nat /\ step \in [(1 .. n) \X Summaries -> Summaries]
    BY <1>2, <1>3
  <2>2. QED
    BY <1>6, <2>1, FoldSteps
<1>8. ASSUME NEW k \in 1 .. n PROVE p[k] = Apply(p[k - 1], s[k])
  <2>1. k - 1 \in 0 .. n
    BY <1>2
  <2>2. QED
    BY <1>3, <1>7, <2>1 DEF Steps
<1>9. QED
  BY <1>1, <1>2, <1>7, <1>8 DEF Steps, n

\* _load_existing_ledger goes through the file line by line: what it has found
\* after k pieces depends on what it had found before and on the k-th.
LEMMA ReplayPrefixes ==
  ASSUME NEW pieces \in Seq(Piece)
  PROVE  \E p \in [0 .. Len(pieces) -> Seq(Record)] :
           /\ p[0] = <<>>
           /\ p[Len(pieces)] = Replay(pieces)
           /\ \A k \in 1 .. Len(pieces) :
                p[k] = IF Parsed(pieces, k) THEN Append(p[k - 1], pieces[k].record) ELSE p[k - 1]
<1> DEFINE Parse(found, i) ==
             IF Parsed(pieces, i) THEN Append(found, pieces[i].record) ELSE found
           n == Len(pieces)
           index == [i \in DOMAIN pieces |-> i]
           step == [x \in (1 .. n) \X Seq(Record) |-> Parse(x[2], x[1])]
           IsIt(h) ==
             h = [T \in SUBSET DOMAIN index |->
                    IF T = {} THEN <<>> ELSE Parse(h[T \ {Max(T)}], index[Max(T)])]
           g == CHOOSE h : IsIt(h)
<1>0. ASSUME NEW i \in 1 .. n, NEW found \in Seq(Record) PROVE Parse(found, i) \in Seq(Record)
  <2>1. pieces[i] \in Piece
    OBVIOUS
  <2>2. pieces[i].record \in Record
    <3> HIDE DEF Record
    <3> QED
      BY <2>1 DEF Piece
  <2>3. QED
    BY <2>2
<1>1. Replay(pieces) = g[DOMAIN index]
  BY DEF Replay, FoldLeft, MapThenFoldSet
<1>2. n \in Nat /\ DOMAIN index = 1 .. n /\ \A i \in 1 .. n : index[i] = i
  OBVIOUS
<1>3. step \in [(1 .. n) \X Seq(Record) -> Seq(Record)]
      /\ \A x \in 1 .. n, v \in Seq(Record) : step[<<x, v>>] = Parse(v, x)
  BY <1>0
<1>4. \A T \in SUBSET (1 .. n) : T # {} => Max(T) \in 1 .. n
  <2> SUFFICES ASSUME NEW T \in SUBSET (1 .. n), T # {} PROVE Max(T) \in 1 .. n
    OBVIOUS
  <2>1. T \in SUBSET (0 .. n)
    OBVIOUS
  <2>2. Max(T) \in T
    BY <1>2, <2>1, MaxIn
  <2>3. QED
    BY <2>2
<1>5. IsIt(g)
  <2>1. PICK h \in [SUBSET (1 .. n) -> Seq(Record)] : FoldsUp(h, n, Seq(Record), <<>>, step)
    <3>1. <<>> \in Seq(Record)
      OBVIOUS
    <3> HIDE DEF n, step
    <3>2. QED
      BY <1>2, <1>3, <3>1, FoldUpExists
  <2> HIDE DEF n, step
  <2>2. ASSUME NEW T \in SUBSET (1 .. n), T # {} PROVE h[T] = Parse(h[T \ {Max(T)}], Max(T))
    <3>1. h[T \ {Max(T)}] \in Seq(Record)
      BY <2>1
    <3>2. h[T] = step[<<Max(T), h[T \ {Max(T)}]>>]
      BY <2>2, <3>1, <2>1 DEF FoldsUp
    <3> HIDE DEF Parse
    <3>3. QED
      BY <1>3, <1>4, <2>2, <3>1, <3>2
  <2>3. IsIt(h)
    <3>1. \A T \in SUBSET (1 .. n) : T # {} => index[Max(T)] = Max(T)
      BY <1>2, <1>4
    <3> HIDE DEF index, Parse
    <3>2. QED
      BY <1>2, <2>1, <2>2, <3>1 DEF FoldsUp
  <2>4. QED
    <3> HIDE DEF IsIt
    <3> QED
      BY <2>3
<1> HIDE DEF n, step, g, index, Parse
<1>6. FoldsUp(g, n, Seq(Record), <<>>, step)
  <2>1. g[{}] = <<>>
    BY <1>5
  <2>2. ASSUME NEW T \in SUBSET (1 .. n), T # {}, g[T \ {Max(T)}] \in Seq(Record)
        PROVE  g[T] = step[<<Max(T), g[T \ {Max(T)}]>>]
    <3>1. g[T] = Parse(g[T \ {Max(T)}], index[Max(T)])
      BY <1>2, <1>5, <2>2
    <3>2. Max(T) \in 1 .. n /\ index[Max(T)] = Max(T)
      BY <1>2, <1>4, <2>2
    <3>3. QED
      BY <1>3, <2>2, <3>1, <3>2
  <2>3. QED
    BY <2>1, <2>2 DEF FoldsUp
<1>7. PICK p : Steps(p, g, n, Seq(Record), <<>>, step)
  <2>1. n \in Nat /\ step \in [(1 .. n) \X Seq(Record) -> Seq(Record)]
    BY <1>2, <1>3
  <2>2. <<>> \in Seq(Record)
    OBVIOUS
  <2>3. QED
    BY <1>6, <2>1, <2>2, FoldSteps
<1>8. ASSUME NEW k \in 1 .. n PROVE p[k] = Parse(p[k - 1], k)
  <2>1. k - 1 \in 0 .. n
    BY <1>2
  <2>2. QED
    BY <1>3, <1>7, <2>1 DEF Steps
<1>9. QED
  BY <1>1, <1>2, <1>7, <1>8 DEF Steps, n, Parse

\* A start leaves the summary of the records that were replayed.
LEMMA ReplaySummarised ==
  ASSUME NEW s \in Seq(Record)
  PROVE  LET sum == FoldLeft(Apply, EmptySummary, s)
         IN  sum \in Summaries /\ Summarises(sum, s) /\ BreakdownsAddUp(sum)
<1>1. PICK p \in [0 .. Len(s) -> Summaries] :
        /\ p[0] = EmptySummary
        /\ p[Len(s)] = FoldLeft(Apply, EmptySummary, s)
        /\ \A k \in 1 .. Len(s) : p[k] = Apply(p[k - 1], s[k])
  BY EmptyTyped, ApplyPrefixes
<1> DEFINE Good(k) == Summarises(p[k], SubSeq(s, 1, k)) /\ BreakdownsAddUp(p[k])
           N == {k \in Nat : k <= Len(s) => Good(k)}
<1>2. 0 \in N
  <2>1. SubSeq(s, 1, 0) = <<>>
    OBVIOUS
  <2>2. QED
    BY <1>1, <2>1, SummarisesNone, BreakdownsNone
<1>3. ASSUME NEW k \in Nat, k \in N PROVE k + 1 \in N
  <2> SUFFICES ASSUME k + 1 <= Len(s) PROVE Good(k + 1)
    OBVIOUS
  <2>1. p[k] \in Summaries /\ p[k + 1] = Apply(p[k], s[k + 1])
    <3>1. k \in 0 .. Len(s) /\ k + 1 \in 1 .. Len(s) /\ (k + 1) - 1 = k
      OBVIOUS
    <3>2. QED
      BY <1>1, <3>1
  <2>2. SubSeq(s, 1, k) \in Seq(Record) /\ s[k + 1] \in Record
        /\ SubSeq(s, 1, k + 1) = Append(SubSeq(s, 1, k), s[k + 1])
    OBVIOUS
  <2>3. Good(k)
    BY <1>3
  <2>4. QED
    BY <2>1, <2>2, <2>3, SummarisesApply, BreakdownsApply
<1>4. Good(Len(s))
  <2>1. Nat \subseteq N
    <3> HIDE DEF N
    <3> QED
      BY <1>2, <1>3, Induction
  <2>2. Len(s) \in Nat
    OBVIOUS
  <2>3. QED
    BY <2>1, <2>2
<1>5. SubSeq(s, 1, Len(s)) = s /\ Len(s) \in 0 .. Len(s)
  BY SubSeqFull
<1>6. QED
  BY <1>1, <1>4, <1>5
--------------------------------------------------------------------------------
(***************************************************************************)
(* What a replay finds.                                                    *)
(***************************************************************************)
\* One more record adds its request, and no request twice if it was not there.
LEMMA RequestsAppend ==
  ASSUME NEW s \in Seq(Record), NEW record \in Record
  PROVE  /\ RequestsIn(Append(s, record)) = RequestsIn(s) \cup {record.request}
         /\ Once(s) /\ record.request \notin RequestsIn(s) => Once(Append(s, record))
<1> DEFINE t == Append(s, record)
<1>1. /\ DOMAIN s = 1 .. Len(s) /\ DOMAIN t = 1 .. Len(s) + 1 /\ Len(s) \in Nat
      /\ t[Len(s) + 1] = record /\ \A i \in 1 .. Len(s) : t[i] = s[i]
  OBVIOUS
<1> HIDE DEF t
<1>2. RequestsIn(t) = RequestsIn(s) \cup {record.request}
  <2>1. \A i \in DOMAIN t : t[i].request \in RequestsIn(s) \cup {record.request}
    BY <1>1 DEF RequestsIn
  <2>2. RequestsIn(s) \subseteq RequestsIn(t) /\ record.request \in RequestsIn(t)
    <3>1. \A i \in DOMAIN s : i \in DOMAIN t /\ t[i] = s[i]
      BY <1>1
    <3>2. Len(s) + 1 \in DOMAIN t
      BY <1>1
    <3>3. QED
      BY <1>1, <3>1, <3>2 DEF RequestsIn
  <2>3. QED
    BY <2>1, <2>2 DEF RequestsIn
<1>3. ASSUME Once(s), record.request \notin RequestsIn(s),
             NEW i \in DOMAIN t, NEW j \in DOMAIN t, t[i].request = t[j].request
      PROVE  i = j
  <2>1. CASE i \in DOMAIN s /\ j \in DOMAIN s
    BY <1>1, <1>3, <2>1 DEF Once
  <2>2. CASE i \in DOMAIN s /\ j = Len(s) + 1
    BY <1>1, <1>3, <2>2 DEF RequestsIn
  <2>3. CASE j \in DOMAIN s /\ i = Len(s) + 1
    BY <1>1, <1>3, <2>3 DEF RequestsIn
  <2>4. QED
    BY <1>1, <2>1, <2>2, <2>3
<1>4. QED
  BY <1>2, <1>3 DEF Once, t

\* The requests of the pieces up to k that are parsed
ParsedUpTo(pieces, k) == {pieces[i].record.request : i \in {j \in 1 .. k : Parsed(pieces, j)}}

\* No request is written twice.
Distinct(pieces) ==
  \A i, j \in DOMAIN pieces : pieces[i].record.request = pieces[j].record.request => i = j

\* A replay finds the requests of the pieces that are parsed, no others, and
\* each once when each was written once.
LEMMA ReplayFacts ==
  ASSUME NEW pieces \in Seq(Piece)
  PROVE  /\ Replay(pieces) \in Seq(Record)
         /\ RequestsIn(Replay(pieces)) = ParsedUpTo(pieces, Len(pieces))
         /\ Distinct(pieces) => Once(Replay(pieces))
<1> DEFINE n == Len(pieces)
<1>1. n \in Nat /\ DOMAIN pieces = 1 .. n
  OBVIOUS
<1>2. \A i \in 1 .. n : pieces[i].record \in Record
  <2>1. \A i \in 1 .. n : pieces[i] \in Piece
    OBVIOUS
  <2> HIDE DEF n, Record
  <2>2. QED
    BY <2>1 DEF Piece
<1>3. PICK p \in [0 .. n -> Seq(Record)] :
        /\ p[0] = <<>>
        /\ p[n] = Replay(pieces)
        /\ \A k \in 1 .. n :
             p[k] = IF Parsed(pieces, k) THEN Append(p[k - 1], pieces[k].record) ELSE p[k - 1]
  BY ReplayPrefixes
<1> DEFINE Good(k) == /\ RequestsIn(p[k]) = ParsedUpTo(pieces, k)
                      /\ Distinct(pieces) => Once(p[k])
           N == {k \in Nat : k <= n => Good(k)}
<1>4. 0 \in N
  <2>1. RequestsIn(<<>>) = {} /\ Once(<<>>)
    BY DEF RequestsIn, Once
  <2>2. ParsedUpTo(pieces, 0) = {}
    BY DEF ParsedUpTo
  <2>3. QED
    BY <1>3, <2>1, <2>2
<1>5. ASSUME NEW k \in Nat, k \in N PROVE k + 1 \in N
  <2> SUFFICES ASSUME k + 1 <= n PROVE Good(k + 1)
    OBVIOUS
  <2> DEFINE r == pieces[k + 1].record
  <2>1. k + 1 \in 1 .. n /\ (k + 1) - 1 = k /\ Good(k)
    BY <1>1, <1>5
  <2>2. p[k] \in Seq(Record) /\ r \in Record
    BY <1>1, <1>2, <1>3, <2>1
  <2>3. p[k + 1] = IF Parsed(pieces, k + 1) THEN Append(p[k], r) ELSE p[k]
    BY <1>3, <2>1
  <2>4. ParsedUpTo(pieces, k + 1)
          = IF Parsed(pieces, k + 1) THEN ParsedUpTo(pieces, k) \cup {r.request}
                                     ELSE ParsedUpTo(pieces, k)
    <3>1. 1 .. k + 1 = (1 .. k) \cup {k + 1}
      OBVIOUS
    <3>2. QED
      BY <3>1 DEF ParsedUpTo
  <2>5. Distinct(pieces) => r.request \notin ParsedUpTo(pieces, k)
    <3> SUFFICES ASSUME Distinct(pieces), NEW i \in 1 .. k, r.request = pieces[i].record.request
                 PROVE  FALSE
      BY DEF ParsedUpTo
    <3>1. i \in DOMAIN pieces /\ k + 1 \in DOMAIN pieces /\ i # k + 1
      BY <1>1, <2>1
    <3>2. QED
      BY <3>1 DEF Distinct
  <2> HIDE DEF r
  <2>6. QED
    BY <2>1, <2>2, <2>3, <2>4, <2>5, RequestsAppend
<1>6. Good(n)
  <2>1. Nat \subseteq N
    <3> HIDE DEF N
    <3> QED
      BY <1>4, <1>5, Induction
  <2>2. QED
    BY <1>1, <2>1
<1>7. n \in 0 .. n
  BY <1>1
<1>8. QED
  BY <1>3, <1>6, <1>7
--------------------------------------------------------------------------------
(***************************************************************************)
(* The inductive invariant.                                                *)
(*                                                                         *)
(* A request is written once, because it is recorded at most once, and     *)
(* while it has no outcome nothing of it is in the file or in a memory.    *)
(* Only a request that failed or was dropped leaves a piece without a      *)
(* newline; one that was acknowledged has a whole line's piece.            *)
(***************************************************************************)
\* The ledger file, given what the clients were told
FileInv(pieces, told) ==
  /\ Distinct(pieces)
  /\ \A i \in DOMAIN pieces :
       /\ told[pieces[i].record.request] # "none"
       /\ pieces[i].newline => pieces[i].whole
       /\ ~pieces[i].newline => told[pieces[i].record.request] \in {"failed", "dropped"}
  /\ \A r \in Requests : told[r] = "acked" =>
       \E i \in DOMAIN pieces : pieces[i].record.request = r /\ pieces[i].newline

\* A worker's records and summary, given what the clients were told
MemoryInv(s, sum, told) ==
  /\ Once(s)
  /\ \A r \in RequestsIn(s) : told[r] # "none"
  /\ Summarises(sum, s)
  /\ BreakdownsAddUp(sum)

LedgerInv ==
  /\ alive \subseteq Workers
  /\ records \in [Workers -> Seq(Record)]
  /\ summary \in [Workers -> Summaries]
  /\ file \in Seq(Piece)
  /\ outcome \in [Requests -> Outcomes]
  /\ FileInv(file, outcome)
  /\ \A w \in Workers : MemoryInv(records[w], summary[w], outcome)

\* What an acknowledged request needs to be found: its piece, and nothing on
\* the line before it.
LEMMA FoundPiece ==
  ASSUME NEW pieces \in Seq(Piece), NEW r
  PROVE  r \in RequestsIn(Replay(pieces))
           <=> \E i \in DOMAIN pieces : Parsed(pieces, i) /\ pieces[i].record.request = r
  BY ReplayFacts DEF ParsedUpTo

\* A write keeps the file's invariant and everything that was to be found.
LEMMA FileGrows ==
  ASSUME NEW pieces \in Seq(Piece), NEW told \in [Requests -> Outcomes], FileInv(pieces, told),
         NEW r \in Requests, told[r] = "none", NEW record \in NewRecords(r),
         NEW extent \in {"line", "unended", "fragment", "nothing"},
         NEW answer \in {"acked", "failed", "dropped"}, answer = "acked" => extent = "line"
  PROVE  LET more == pieces \o Written(record, extent)
             told2 == [told EXCEPT ![r] = answer]
         IN  /\ more \in Seq(Piece)
             /\ FileInv(more, told2)
             /\ \A q \in RequestsIn(Replay(pieces)) :
                  told[q] = "acked" => q \in RequestsIn(Replay(more))
<1> DEFINE told2 == [told EXCEPT ![r] = answer]
<1>1. record \in Record /\ record.request = r
  BY NewRecordFacts
<1>2. \A i \in DOMAIN pieces :
        /\ pieces[i] \in Piece /\ pieces[i].record.request \in Requests
        /\ pieces[i].record.request # r
        /\ told2[pieces[i].record.request] = told[pieces[i].record.request]
  <2> SUFFICES ASSUME NEW i \in DOMAIN pieces
               PROVE  /\ pieces[i] \in Piece /\ pieces[i].record.request \in Requests
                      /\ pieces[i].record.request # r
    OBVIOUS
  <2>1. pieces[i] \in Piece
    OBVIOUS
  <2>2. pieces[i].record \in Record
    <3> HIDE DEF Record
    <3> QED
      BY <2>1 DEF Piece
  <2>3. QED
    BY <2>1, <2>2, RecordFacts DEF FileInv
<1>3. told2[r] = answer /\ \A q \in Requests : q # r => told2[q] = told[q]
  OBVIOUS
<1>4. CASE extent = "nothing"
  <2>1. pieces \o Written(record, extent) = pieces
    BY <1>4 DEF Written
  <2>2. FileInv(pieces, told2)
    BY <1>2, <1>3, <1>4 DEF FileInv
  <2>3. QED
    BY <2>1, <2>2
<1>5. CASE extent # "nothing"
  <2> DEFINE piece == [record |-> record, whole |-> extent # "fragment", newline |-> extent = "line"]
             more == Append(pieces, piece)
             n == Len(pieces)
  <2>1. Written(record, extent) = <<piece>>
    BY <1>5 DEF Written
  <2>2. piece \in Piece
    BY <1>1 DEF Piece
  <2>3. pieces \o Written(record, extent) = more /\ more \in Seq(Piece)
    <3> HIDE DEF piece
    <3> QED
      BY <2>1, <2>2
  <2>4. /\ n \in Nat /\ DOMAIN pieces = 1 .. n /\ DOMAIN more = 1 .. n + 1 /\ Len(more) = n + 1
        /\ more[n + 1] = piece /\ \A i \in 1 .. n : more[i] = pieces[i]
    <3> HIDE DEF piece
    <3> QED
      BY <2>2
  <2>5. /\ piece.record.request = r
        /\ piece.newline => piece.whole
        /\ piece.newline <=> extent = "line"
    BY <1>1
  <2> HIDE DEF piece, more, n
  <2>6. Distinct(more)
    <3> SUFFICES ASSUME NEW i \in DOMAIN more, NEW j \in DOMAIN more,
                        more[i].record.request = more[j].record.request
                 PROVE  i = j
      BY DEF Distinct
    <3>1. CASE i \in 1 .. n /\ j \in 1 .. n
      BY <2>4, <3>1 DEF FileInv, Distinct
    <3>2. CASE i = n + 1 /\ j \in 1 .. n
      BY <1>1, <1>2, <2>4, <3>2 DEF piece
    <3>3. CASE j = n + 1 /\ i \in 1 .. n
      BY <1>1, <1>2, <2>4, <3>3 DEF piece
    <3>4. QED
      BY <2>4, <3>1, <3>2, <3>3
  <2>7. ASSUME NEW i \in DOMAIN more
        PROVE  /\ told2[more[i].record.request] # "none"
               /\ more[i].newline => more[i].whole
               /\ ~more[i].newline => told2[more[i].record.request] \in {"failed", "dropped"}
    <3>1. CASE i \in 1 .. n
      BY <1>2, <2>4, <3>1 DEF FileInv
    <3>2. CASE i = n + 1
      <4>1. more[i] = piece /\ told2[more[i].record.request] = answer
        BY <1>3, <2>4, <2>5, <3>2
      <4>2. ~piece.newline => answer \in {"failed", "dropped"}
        BY <2>5
      <4>3. QED
        BY <2>5, <4>1, <4>2
    <3>3. QED
      BY <2>4, <3>1, <3>2
  <2>8. ASSUME NEW q \in Requests, told2[q] = "acked"
        PROVE  \E i \in DOMAIN more : more[i].record.request = q /\ more[i].newline
    <3>1. CASE q = r
      <4>1. n + 1 \in DOMAIN more /\ more[n + 1].record.request = q /\ more[n + 1].newline
        <5>1. piece.newline
          BY <1>3, <2>5, <2>8, <3>1
        <5>2. QED
          BY <2>4, <2>5, <3>1, <5>1
      <4>2. QED
        BY <4>1
    <3>2. CASE q # r
      <4>1. PICK i \in DOMAIN pieces : pieces[i].record.request = q /\ pieces[i].newline
        BY <1>3, <2>8, <3>2 DEF FileInv
      <4>2. i \in DOMAIN more /\ more[i] = pieces[i]
        BY <2>4
      <4>3. QED
        BY <4>1, <4>2
    <3>3. QED
      BY <3>1, <3>2
  <2>9. FileInv(more, told2)
    BY <2>6, <2>7, <2>8 DEF FileInv
  <2>10. ASSUME NEW q \in RequestsIn(Replay(pieces)), told[q] = "acked"
         PROVE  q \in RequestsIn(Replay(more))
    <3>1. PICK i \in DOMAIN pieces : Parsed(pieces, i) /\ pieces[i].record.request = q
      BY <2>10, FoundPiece
    <3>2. pieces[i].newline
      BY <2>10, <3>1 DEF FileInv
    <3>3. i \in DOMAIN more /\ Parsed(more, i) /\ more[i].record.request = q
      <4>1. i \in 1 .. n /\ (i # 1 => i - 1 \in 1 .. n)
        BY <2>4
      <4>2. more[i] = pieces[i] /\ (i # 1 => more[i - 1] = pieces[i - 1])
        BY <2>4, <4>1
      <4>3. QED
        BY <2>4, <3>1, <3>2, <4>1, <4>2 DEF Parsed
    <3>4. QED
      BY <2>3, <3>3, FoundPiece
  <2>11. QED
    BY <2>3, <2>9, <2>10
<1>6. QED
  BY <1>4, <1>5

\* A memory without records, one that stays, one that is rebuilt and one with a
\* new record
LEMMA MemoryEmpty ==
  ASSUME NEW told
  PROVE  MemoryInv(<<>>, EmptySummary, told)
  BY SummarisesNone, BreakdownsNone DEF MemoryInv, Once, RequestsIn

\* An answer to another worker's request leaves a memory right.
LEMMA MemoryKept ==
  ASSUME NEW told \in [Requests -> Outcomes], NEW r \in Requests, NEW answer, answer # "none",
         NEW s \in Seq(Record), NEW sum, MemoryInv(s, sum, told)
  PROVE  MemoryInv(s, sum, [told EXCEPT ![r] = answer])
<1>1. RequestsIn(s) \subseteq Requests
  <2>1. \A k \in DOMAIN s : s[k] \in Record
    OBVIOUS
  <2>2. QED
    BY <2>1, RecordFacts DEF RequestsIn
<1>2. \A q \in RequestsIn(s) : [told EXCEPT ![r] = answer][q] # "none"
  BY <1>1 DEF MemoryInv
<1>3. QED
  BY <1>2 DEF MemoryInv

\* _load_existing_ledger makes a right memory of a right file.
LEMMA MemoryRebuilt ==
  ASSUME NEW pieces \in Seq(Piece), NEW told \in [Requests -> Outcomes], FileInv(pieces, told)
  PROVE  /\ FoldLeft(Apply, EmptySummary, Replay(pieces)) \in Summaries
         /\ MemoryInv(Replay(pieces), FoldLeft(Apply, EmptySummary, Replay(pieces)), told)
<1> DEFINE s == Replay(pieces)
           sum == FoldLeft(Apply, EmptySummary, s)
<1>1. s \in Seq(Record) /\ Once(s)
  BY ReplayFacts DEF FileInv
<1>2. sum \in Summaries /\ Summarises(sum, s) /\ BreakdownsAddUp(sum)
  <2> HIDE DEF s
  <2> QED
    BY <1>1, ReplaySummarised
<1>3. \A q \in RequestsIn(s) : told[q] # "none"
  BY FoundPiece DEF FileInv
<1> HIDE DEF s, sum
<1>4. MemoryInv(s, sum, told)
  BY <1>1, <1>2, <1>3 DEF MemoryInv
<1>5. QED
  BY <1>2, <1>4 DEF s, sum

\* record_usage keeps a memory right, because its request has no outcome yet and
\* so is not in it.
LEMMA MemoryGrows ==
  ASSUME NEW told \in [Requests -> Outcomes], NEW r \in Requests, told[r] = "none",
         NEW answer, answer # "none", NEW record \in NewRecords(r),
         NEW s \in Seq(Record), NEW sum \in Summaries, MemoryInv(s, sum, told)
  PROVE  /\ Append(s, record) \in Seq(Record)
         /\ Apply(sum, record) \in Summaries
         /\ MemoryInv(Append(s, record), Apply(sum, record), [told EXCEPT ![r] = answer])
<1> DEFINE told2 == [told EXCEPT ![r] = answer]
<1>1. record \in Record /\ record.request = r
  BY NewRecordFacts
<1>2. MemoryInv(s, sum, told2)
  BY MemoryKept
<1>3. r \notin RequestsIn(s) /\ told2[r] # "none"
  BY DEF MemoryInv
<1> HIDE DEF told2
<1>4. Once(Append(s, record)) /\ \A q \in RequestsIn(Append(s, record)) : told2[q] # "none"
  BY <1>1, <1>2, <1>3, RequestsAppend DEF MemoryInv
<1>5. Append(s, record) \in Seq(Record) /\ Apply(sum, record) \in Summaries
  BY <1>1, ApplyTyped
<1>6. Summarises(Apply(sum, record), Append(s, record)) /\ BreakdownsAddUp(Apply(sum, record))
  BY <1>1, <1>2, SummarisesApply, BreakdownsApply DEF MemoryInv
<1>7. QED
  BY <1>4, <1>5, <1>6 DEF MemoryInv, told2

\* The ledger's invariant holds of the first start with an empty file.
LEMMA InitLedger == Init => LedgerInv
<1> SUFFICES ASSUME Init PROVE LedgerInv
  OBVIOUS
<1>1. FileInv(<<>>, outcome)
  BY DEF Init, FileInv, Distinct
<1>2. \A w \in Workers : MemoryInv(records[w], summary[w], outcome)
  BY MemoryEmpty DEF Init
<1>3. QED
  BY <1>1, <1>2, EmptyTyped DEF Init, LedgerInv, Outcomes

\* A request is recorded in the memory of w and written, or fails to be.
LEMMA RecordStep ==
  ASSUME LedgerInv, NEW w \in Workers, NEW r \in Requests, outcome[r] = "none",
         NEW record \in NewRecords(r), Remember(w, record),
         NEW extent \in {"line", "unended", "fragment", "nothing"},
         file' = file \o Written(record, extent),
         NEW answer \in {"acked", "failed", "dropped"}, answer = "acked" => extent = "line",
         outcome' = [outcome EXCEPT ![r] = answer], UNCHANGED alive
  PROVE  LedgerInv' /\ (Acked \cap Found \subseteq Found')
<1> USE DEF LedgerInv
<1>1. /\ file' \in Seq(Piece)
      /\ FileInv(file', outcome')
      /\ \A q \in RequestsIn(Replay(file)) : outcome[q] = "acked" => q \in RequestsIn(Replay(file'))
  BY FileGrows
<1>2. outcome' \in [Requests -> Outcomes]
  BY DEF Outcomes
<1>3. /\ Append(records[w], record) \in Seq(Record)
      /\ Apply(summary[w], record) \in Summaries
      /\ MemoryInv(Append(records[w], record), Apply(summary[w], record), outcome')
  BY MemoryGrows
<1>4. ASSUME NEW v \in Workers, v # w PROVE MemoryInv(records[v], summary[v], outcome')
  BY MemoryKept
<1>5. /\ records' = [records EXCEPT ![w] = Append(@, record)]
      /\ summary' = [summary EXCEPT ![w] = Apply(@, record)]
  BY DEF Remember
<1>6. records' \in [Workers -> Seq(Record)] /\ summary' \in [Workers -> Summaries]
  BY <1>3, <1>5
<1>7. \A v \in Workers : MemoryInv(records'[v], summary'[v], outcome')
  BY <1>3, <1>4, <1>5
<1>8. QED
  BY <1>1, <1>2, <1>6, <1>7 DEF Acked, Found

\* A worker forgets, with a write or without one.
LEMMA ForgetStep ==
  ASSUME LedgerInv, NEW w \in Workers, Forget(w), file' \in Seq(Piece),
         outcome' \in [Requests -> Outcomes], FileInv(file', outcome'),
         \A v \in Workers : MemoryInv(records[v], summary[v], outcome')
  PROVE  LedgerInv'
<1>1. /\ alive' = alive \ {w}
      /\ records' = [records EXCEPT ![w] = <<>>]
      /\ summary' = [summary EXCEPT ![w] = EmptySummary]
  BY DEF Forget
<1>2. records' \in [Workers -> Seq(Record)] /\ summary' \in [Workers -> Summaries]
  BY <1>1, EmptyTyped DEF LedgerInv
<1>3. \A v \in Workers : MemoryInv(records'[v], summary'[v], outcome')
  BY <1>1, MemoryEmpty DEF LedgerInv
<1>4. QED
  BY <1>1, <1>2, <1>3 DEF LedgerInv

\* Every step keeps the invariant, and what was acknowledged and found.
LEMMA NextLedger == LedgerInv /\ [Next]_vars => LedgerInv' /\ (Acked \cap Found \subseteq Found')
<1> SUFFICES ASSUME LedgerInv, [Next]_vars
             PROVE  LedgerInv' /\ (Acked \cap Found \subseteq Found')
  OBVIOUS
<1>1. ASSUME NEW w \in Workers, NEW r \in Requests, RecordUsage(w, r)
      PROVE  LedgerInv' /\ (Acked \cap Found \subseteq Found')
  BY <1>1, RecordStep DEF RecordUsage
<1>2. ASSUME NEW w \in Workers, NEW r \in Requests, RecordFails(w, r)
      PROVE  LedgerInv' /\ (Acked \cap Found \subseteq Found')
  BY <1>2, RecordStep DEF RecordFails
<1>3. ASSUME NEW w \in Workers, Crash(w)
      PROVE  LedgerInv' /\ (Acked \cap Found \subseteq Found')
  <2>1. Forget(w) /\ file' = file /\ outcome' = outcome
    BY <1>3 DEF Crash
  <2>2. LedgerInv'
    BY <2>1, ForgetStep DEF LedgerInv
  <2>3. QED
    BY <2>1, <2>2 DEF Found
<1>4. ASSUME NEW w \in Workers, NEW r \in Requests, CrashWriting(w, r)
      PROVE  LedgerInv' /\ (Acked \cap Found \subseteq Found')
  <2>1. PICK record \in NewRecords(r), extent \in {"line", "unended", "fragment"} :
          file' = file \o Written(record, extent)
    BY <1>4 DEF CrashWriting
  <2>2. outcome[r] = "none" /\ outcome' = [outcome EXCEPT ![r] = "dropped"] /\ Forget(w)
    BY <1>4 DEF CrashWriting
  <2>3. /\ file' \in Seq(Piece)
        /\ FileInv(file', outcome')
        /\ \A q \in RequestsIn(Replay(file)) :
             outcome[q] = "acked" => q \in RequestsIn(Replay(file'))
    BY <2>1, <2>2, FileGrows DEF LedgerInv
  <2>4. outcome' \in [Requests -> Outcomes]
    BY <2>2 DEF LedgerInv, Outcomes
  <2>5. \A v \in Workers : MemoryInv(records[v], summary[v], outcome')
    BY <2>2, MemoryKept DEF LedgerInv
  <2>6. LedgerInv'
    BY <2>2, <2>3, <2>4, <2>5, ForgetStep
  <2>7. QED
    BY <2>3, <2>6 DEF Acked, Found
<1>5. ASSUME NEW w \in Workers, Boot(w)
      PROVE  LedgerInv' /\ (Acked \cap Found \subseteq Found')
  <2> DEFINE s == Replay(file)
             sum == FoldLeft(Apply, EmptySummary, s)
  <2>1. /\ alive' = alive \cup {w} /\ file' = file /\ outcome' = outcome
        /\ records' = [records EXCEPT ![w] = s]
        /\ summary' = [summary EXCEPT ![w] = sum]
    BY <1>5 DEF Boot
  <2>2. s \in Seq(Record) /\ sum \in Summaries /\ MemoryInv(s, sum, outcome)
    BY ReplayFacts, MemoryRebuilt DEF LedgerInv
  <2> HIDE DEF s, sum
  <2>3. records' \in [Workers -> Seq(Record)] /\ summary' \in [Workers -> Summaries]
    BY <2>1, <2>2 DEF LedgerInv
  <2>4. \A v \in Workers : MemoryInv(records'[v], summary'[v], outcome')
    BY <2>1, <2>2 DEF LedgerInv
  <2>5. QED
    BY <2>1, <2>3, <2>4 DEF LedgerInv, Found
<1>6. CASE UNCHANGED vars
  BY <1>6 DEF vars, LedgerInv, Found
<1>7. QED
  BY <1>1, <1>2, <1>3, <1>4, <1>5, <1>6 DEF Next

\* The ledger's invariant holds in every reachable state.
THEOREM LedgerInvariant == Spec => []LedgerInv
<1>1. LedgerInv /\ [Next]_vars => LedgerInv'
  BY NextLedger
<1>2. QED
  BY InitLedger, <1>1, PTL DEF Spec
--------------------------------------------------------------------------------
(***************************************************************************)
(* What it implies.                                                        *)
(***************************************************************************)
\* A memory holds at most one record of each request.
LEMMA OnceBounded ==
  ASSUME NEW s \in Seq(Record), Once(s)
  PROVE  Len(s) <= Cardinality(Requests) /\ Cardinality(Requests) \in Nat
<1> DEFINE b == [i \in 1 .. Len(s) |-> s[i].request]
<1>1. \A i \in 1 .. Len(s) : s[i] \in Record /\ s[i].request \in Requests
  <2>1. \A i \in 1 .. Len(s) : s[i] \in Record
    OBVIOUS
  <2>2. QED
    BY <2>1, RecordFacts
<1>2. b \in Injection(1 .. Len(s), Requests)
  BY <1>1 DEF Injection, IsInjective, Once
<1>3. Cardinality(1 .. Len(s)) <= Cardinality(Requests)
  BY <1>2, FS_Injection, LedgerAssumption
<1>4. Cardinality(1 .. Len(s)) = Len(s)
  <2>1. Len(s) \in Nat
    OBVIOUS
  <2> HIDE DEF b
  <2>2. QED
    BY <2>1, FS_Interval
<1>5. QED
  BY <1>3, <1>4, FS_CardinalityType, LedgerAssumption

\* The invariant implies the type; the number of requests in a summary is
\* bounded because its records are of different requests.
LEMMA LedgerTypes == LedgerInv => TypeOK
<1> SUFFICES ASSUME LedgerInv PROVE TypeOK
  OBVIOUS
<1>1. ASSUME NEW w \in Workers
      PROVE  /\ \A i \in DOMAIN records[w] : records[w][i] \in Record
             /\ DOMAIN summary[w] = DOMAIN EmptySummary
             /\ summary[w].total_requests \in Counts
  <2>1. records[w] \in Seq(Record) /\ summary[w] \in Summaries
        /\ MemoryInv(records[w], summary[w], outcome)
    BY DEF LedgerInv
  <2>2. \A i \in DOMAIN records[w] : records[w][i] \in Record
    <3> HIDE DEF Record
    <3> QED
      BY <2>1
  <2>3. DOMAIN summary[w] = DOMAIN EmptySummary
    BY <2>1 DEF Summaries, EmptySummary
  <2>4. summary[w].total_requests = Len(records[w]) /\ Len(records[w]) \in Nat
    BY <2>1 DEF MemoryInv, Summarises
  <2>5. Len(records[w]) <= Cardinality(Requests) /\ Cardinality(Requests) \in Nat
    BY <2>1, OnceBounded DEF MemoryInv
  <2>6. QED
    BY <2>2, <2>3, <2>4, <2>5 DEF Counts
<1>2. ASSUME NEW i \in DOMAIN file
      PROVE  file[i].record \in Record /\ (file[i].newline => file[i].whole)
  <2>1. file[i] \in Piece
    BY DEF LedgerInv
  <2>2. file[i].record \in Record
    <3> HIDE DEF Record
    <3> QED
      BY <2>1 DEF Piece
  <2>3. QED
    BY <2>2 DEF LedgerInv, FileInv
<1>3. alive \subseteq Workers /\ outcome \in [Requests -> Outcomes]
  BY DEF LedgerInv
<1>4. QED
  BY <1>1, <1>2, <1>3 DEF TypeOK, Record

\* The lost records are, one to one, behind the pieces of requests that broke.
LEMMA LedgerLosses == LedgerInv => LossBounded
<1> SUFFICES ASSUME LedgerInv PROVE LossBounded
  OBVIOUS
<1> DEFINE n == Len(file)
           Lost == Acked \ Found
           Behind(r, i) == file[i].record.request = r /\ i # 1 /\ ~file[i - 1].newline
           at == [r \in Lost |-> CHOOSE i \in 1 .. n : Behind(r, i)]
           b == [r \in Lost |-> file[at[r] - 1].record.request]
<1>1. file \in Seq(Piece) /\ n \in Nat /\ DOMAIN file = 1 .. n /\ FileInv(file, outcome)
  BY DEF LedgerInv
<1>2. ASSUME NEW r \in Lost PROVE \E i \in 1 .. n : Behind(r, i)
  <2>1. r \in Requests /\ outcome[r] = "acked" /\ r \notin RequestsIn(Replay(file))
    BY <1>2 DEF Acked, Found
  <2>2. PICK i \in 1 .. n : file[i].record.request = r /\ file[i].newline
    BY <1>1, <2>1 DEF FileInv
  <2>3. file[i].whole /\ ~Parsed(file, i)
    BY <1>1, <2>1, <2>2, FoundPiece DEF FileInv
  <2>4. i # 1 /\ ~file[i - 1].newline
    BY <2>2, <2>3 DEF Parsed
  <2>5. QED
    BY <2>2, <2>4
<1>3. ASSUME NEW r \in Lost PROVE at[r] \in 1 .. n /\ Behind(r, at[r])
  BY <1>2
<1>4. ASSUME NEW r \in Lost PROVE at[r] - 1 \in 1 .. n /\ b[r] \in Broken
  <2>1. at[r] - 1 \in 1 .. n
    BY <1>3
  <2>2. file[at[r] - 1] \in Piece
    BY <1>1, <2>1
  <2>3. file[at[r] - 1].record \in Record
    <3> HIDE DEF Record, at
    <3> QED
      BY <2>2 DEF Piece
  <2>4. b[r] \in Requests /\ b[r] = file[at[r] - 1].record.request
    BY <2>3, RecordFacts
  <2>5. outcome[b[r]] \in {"failed", "dropped"}
    BY <1>1, <1>3, <2>1, <2>4 DEF FileInv
  <2>6. QED
    BY <2>1, <2>4, <2>5 DEF Broken
<1>5. ASSUME NEW r \in Lost, NEW q \in Lost, b[r] = b[q] PROVE r = q
  <2>1. at[r] - 1 = at[q] - 1
    <3>1. /\ at[r] - 1 \in DOMAIN file /\ at[q] - 1 \in DOMAIN file
          /\ file[at[r] - 1].record.request = file[at[q] - 1].record.request
      BY <1>1, <1>4, <1>5
    <3> HIDE DEF at
    <3>2. QED
      BY <1>1, <3>1 DEF FileInv, Distinct
  <2>2. at[r] = at[q]
    <3>1. at[r] \in Nat /\ at[q] \in Nat
      BY <1>3
    <3> HIDE DEF at
    <3>2. QED
      BY <2>1, <3>1
  <2>3. QED
    BY <1>3, <2>2
<1>6. b \in Injection(Lost, Broken)
  <2>1. b \in [Lost -> Broken]
    BY <1>4
  <2> HIDE DEF b, Lost
  <2>2. QED
    BY <1>5, <2>1 DEF Injection, IsInjective
<1>7. IsFiniteSet(Broken)
  BY LedgerAssumption, FS_Subset DEF Broken
<1>8. QED
  BY <1>6, <1>7, FS_Injection DEF LossBounded

\* TypeOK: the type invariant of the ledger.
THEOREM LedgerTyped == Spec => []TypeOK
  BY LedgerInvariant, LedgerTypes, PTL

\* SummaryMatches: what get_summary answers agrees with the records, however
\* many there are and however often they were replayed.
THEOREM SummariesMatch == Spec => []SummaryMatches
<1>1. LedgerInv => SummaryMatches
  BY DEF LedgerInv, MemoryInv, SummaryMatches
<1>2. QED
  BY LedgerInvariant, <1>1, PTL

\* BilledOnce: no request is billed twice, in a memory or by a replay.
THEOREM NothingBilledTwice == Spec => []BilledOnce
<1>1. LedgerInv => BilledOnce
  BY ReplayFacts DEF LedgerInv, FileInv, MemoryInv, BilledOnce
<1>2. QED
  BY LedgerInvariant, <1>1, PTL

\* LossBounded: a broken write takes with it at most one acknowledged record.
THEOREM LossesBounded == Spec => []LossBounded
  BY LedgerInvariant, LedgerLosses, PTL

\* StaysFound: what a replay would find it finds ever after.
THEOREM RecordsStayFound == Spec => StaysFound
<1>1. LedgerInv /\ [Next]_vars => [Acked \cap Found \subseteq Found']_vars
  BY NextLedger
<1>2. QED
  BY LedgerInvariant, <1>1, PTL DEF Spec, StaysFound
--------------------------------------------------------------------------------
(***************************************************************************)
(* The dashboard.                                                          *)
(***************************************************************************)
\* A sequence costs no more than one with all its records.
LEMMA CostWithin ==
  ASSUME NEW s \in Seq(Record), NEW t \in Seq(Record),
         NEW b \in [DOMAIN s -> DOMAIN t], \A i, j \in DOMAIN s : b[i] = b[j] => i = j,
         \A i \in DOMAIN s : s[i] = t[b[i]]
  PROVE  CostOf(s) <= CostOf(t)
<1> DEFINE D == DOMAIN s
           E == DOMAIN t
           f == [i \in D |-> s[i].cost_usd]
           e == [i \in E |-> t[i].cost_usd]
<1>1. IsFiniteSet(D) /\ IsFiniteSet(E)
  <2>1. D = 1 .. Len(s) /\ Len(s) \in Nat /\ E = 1 .. Len(t) /\ Len(t) \in Nat
    OBVIOUS
  <2>2. QED
    BY <2>1, FS_Interval
<1>2. (\A i \in D : s[i] \in Record) /\ (\A i \in E : t[i] \in Record)
  OBVIOUS
<1>3. f \in [D -> Int] /\ e \in [E -> Nat]
  BY <1>2, RecordFacts
<1>4. \A i \in D : f[i] <= e[b[i]]
  BY <1>2, RecordFacts
<1> HIDE DEF f, e, D, E
<1>5. Total(f) <= Total(e)
  <2>1. b \in [D -> E] /\ \A i, j \in D : b[i] = b[j] => i = j
    BY DEF D, E
  <2>2. QED
    BY <1>1, <1>3, <1>4, <2>1, TotalInto
<1>6. QED
  BY <1>5 DEF CostOf, f, e, D, E

\* Records of different requests cost no more than those requests were charged.
LEMMA CostWithinCharges ==
  ASSUME NEW s \in Seq(Record), Once(s), NEW C \in SUBSET Requests, RequestsIn(s) \subseteq C
  PROVE  CostOf(s) <= Total([r \in C |-> Charge(r)])
<1> DEFINE D == DOMAIN s
           f == [i \in D |-> s[i].cost_usd]
           e == [r \in C |-> Charge(r)]
           b == [i \in D |-> s[i].request]
<1>1. IsFiniteSet(D) /\ IsFiniteSet(C)
  <2>1. D = 1 .. Len(s) /\ Len(s) \in Nat
    OBVIOUS
  <2>2. QED
    BY <2>1, FS_Interval, FS_Subset, LedgerAssumption
<1>2. \A i \in D : s[i] \in Record
  OBVIOUS
<1>3. f \in [D -> Int] /\ e \in [C -> Nat]
  BY <1>2, RecordFacts, NewRecordFacts
<1>4. b \in [D -> C] /\ \A i, j \in D : b[i] = b[j] => i = j
  BY DEF Once, RequestsIn
<1>5. \A i \in D : f[i] <= e[b[i]]
  BY <1>2, <1>4, RecordFacts
<1> HIDE DEF f, e, D, b
<1>6. Total(f) <= Total(e)
  BY <1>1, <1>3, <1>4, <1>5, TotalInto
<1>7. QED
  BY <1>6 DEF CostOf, f, e, D

\* The cost of records is a number.
LEMMA CostTyped ==
  ASSUME NEW s \in Seq(Record)
  PROVE  CostOf(s) \in Int
<1>1. [i \in DOMAIN s |-> s[i].cost_usd] \in [DOMAIN s -> Int]
  <2>1. \A i \in DOMAIN s : s[i] \in Record
    OBVIOUS
  <2>2. QED
    BY <2>1, RecordFacts
<1>2. IsFiniteSet(DOMAIN s)
  <2>1. DOMAIN s = 1 .. Len(s) /\ Len(s) \in Nat
    OBVIOUS
  <2>2. QED
    BY <2>1, FS_Interval
<1>3. QED
  BY <1>1, <1>2, TotalType DEF CostOf

\* What a completed request may have cost, in all
Budget(C) == Total([r \in C |-> Charge(r)])

\* Of more requests more may have been spent.
LEMMA BudgetGrows ==
  ASSUME NEW C \in SUBSET Requests, NEW B \in SUBSET C
  PROVE  Budget(B) \in Int /\ Budget(C) \in Int /\ Budget(B) <= Budget(C)
<1> DEFINE f == [r \in B |-> Charge(r)]
           e == [r \in C |-> Charge(r)]
           b == [r \in B |-> r]
<1>1. IsFiniteSet(B) /\ IsFiniteSet(C)
  BY FS_Subset, LedgerAssumption
<1>2. f \in [B -> Int] /\ e \in [C -> Nat] /\ e \in [C -> Int]
  BY NewRecordFacts
<1>3. b \in [B -> C] /\ \A q, r \in B : b[q] = b[r] => q = r
  OBVIOUS
<1>4. \A r \in B : f[r] <= e[b[r]]
  BY NewRecordFacts
<1> HIDE DEF f, e, b
<1>5. Total(f) <= Total(e)
  BY <1>1, <1>2, <1>3, <1>4, TotalInto
<1>6. Total(f) \in Int /\ Total(e) \in Int
  BY <1>1, <1>2, TotalType
<1>7. QED
  BY <1>5, <1>6 DEF Budget, f, e

\* get_recent_records, of the records s
Recent(s) ==
  Reverse(SubSeq(s, IF Len(s) > RecentLimit THEN Len(s) - RecentLimit + 1 ELSE 1, Len(s)))

\* get_recent_records shows different records of the memory, the last ones, and
\* all of them as long as the table has room.
LEMMA RecentFacts ==
  ASSUME NEW s \in Seq(Record)
  PROVE  /\ Recent(s) \in Seq(Record)
         /\ Len(Recent(s)) = IF Len(s) < RecentLimit THEN Len(s) ELSE RecentLimit
         /\ Once(s) => Once(Recent(s))
         /\ RequestsIn(Recent(s)) \subseteq RequestsIn(s)
         /\ CostOf(Recent(s)) <= CostOf(s)
         /\ Len(s) <= RecentLimit => CostOf(Recent(s)) = CostOf(s)
<1> DEFINE n == Len(s)
           from == IF n > RecentLimit THEN n - RecentLimit + 1 ELSE 1
           size == IF n < RecentLimit THEN n ELSE RecentLimit
           part == SubSeq(s, from, n)
           t == Recent(s)
<1>1. n \in Nat /\ DOMAIN s = 1 .. n /\ RecentLimit \in Nat \ {0} /\ size \in 0 .. n
  BY DashboardAssumption
<1>2. /\ part \in Seq(Record) /\ Len(part) = size
      /\ \A i \in 1 .. size : part[i] = s[from + i - 1]
  <2>1. from \in Int /\ from >= 1 /\ size = IF from <= n THEN n - from + 1 ELSE 0
    <3> HIDE DEF n
    <3>1. CASE n > RecentLimit
      BY <1>1, <3>1
    <3>2. CASE ~(n > RecentLimit)
      BY <1>1, <3>2
    <3>3. QED
      BY <3>1, <3>2
  <2>2. \A i \in from .. n : s[i] \in Record
    BY <1>1, <2>1
  <2> HIDE DEF from, size
  <2>3. /\ part \in Seq(Record) /\ Len(part) = IF from <= n THEN n - from + 1 ELSE 0
        /\ \A i \in 1 .. n - from + 1 : part[i] = s[from + i - 1]
    BY <1>1, <2>1, <2>2, SubSeqProperties
  <2>4. QED
    BY <1>1, <2>1, <2>3
<1>3. t = [i \in 1 .. size |-> part[size - i + 1]]
  BY <1>2 DEF Recent, Reverse
<1>4. \A i \in 1 .. size : n - i + 1 \in 1 .. n /\ t[i] = s[n - i + 1]
  <2> SUFFICES ASSUME NEW i \in 1 .. size PROVE n - i + 1 \in 1 .. n /\ t[i] = s[n - i + 1]
    OBVIOUS
  <2>1. n - i + 1 \in 1 .. n /\ size - i + 1 \in 1 .. size
    BY <1>1
  <2>2. t[i] = part[size - i + 1]
    <3> HIDE DEF t, part, size
    <3> QED
      BY <1>3
  <2>3. part[size - i + 1] = s[from + (size - i + 1) - 1]
    <3> HIDE DEF part, size, from
    <3> QED
      BY <1>2, <2>1
  <2>4. from + (size - i + 1) - 1 = n - i + 1
    <3> HIDE DEF n
    <3>1. CASE n > RecentLimit
      BY <1>1, <3>1
    <3>2. CASE ~(n > RecentLimit)
      BY <1>1, <3>2
    <3>3. QED
      BY <3>1, <3>2
  <2>5. QED
    BY <2>1, <2>2, <2>3, <2>4
<1> HIDE DEF t, part
<1>5. t \in Seq(Record) /\ Len(t) = size /\ DOMAIN t = 1 .. size
  <2>1. \A i \in 1 .. size : part[size - i + 1] \in Record
    <3> SUFFICES ASSUME NEW i \in 1 .. size PROVE part[size - i + 1] \in Record
      OBVIOUS
    <3>1. size - i + 1 \in 1 .. size
      BY <1>1
    <3>2. QED
      BY <1>2, <3>1
  <2> HIDE DEF size
  <2>2. QED
    BY <1>1, <1>3, <2>1
<1> HIDE DEF n, size, from
<1> DEFINE b == [i \in 1 .. size |-> n - i + 1]
<1>6. b \in [DOMAIN t -> DOMAIN s] /\ (\A i, j \in DOMAIN t : b[i] = b[j] => i = j)
      /\ \A i \in DOMAIN t : t[i] = s[b[i]]
  BY <1>1, <1>4, <1>5
<1>7. Once(s) => Once(t)
  <2> HIDE DEF b
  <2> QED
    BY <1>6 DEF Once
<1>8. RequestsIn(t) \subseteq RequestsIn(s)
  <2> HIDE DEF b
  <2> QED
    BY <1>6 DEF RequestsIn
<1>9. CostOf(t) <= CostOf(s)
  <2> HIDE DEF b
  <2> QED
    BY <1>5, <1>6, CostWithin
<1>10. ASSUME n <= RecentLimit PROVE CostOf(s) <= CostOf(t)
  <2>1. size = n
    BY <1>1, <1>10 DEF size
  <2>2. b \in [DOMAIN s -> DOMAIN t] /\ (\A i, j \in DOMAIN s : b[i] = b[j] => i = j)
        /\ \A i \in DOMAIN s : s[i] = t[b[i]]
    <3>1. b \in [1 .. n -> 1 .. n] /\ \A i, j \in 1 .. n : b[i] = b[j] => i = j
      BY <1>1, <2>1
    <3>2. ASSUME NEW i \in 1 .. n PROVE s[i] = t[b[i]]
      <4>1. n - i + 1 \in 1 .. n /\ n - (n - i + 1) + 1 = i /\ b[i] = n - i + 1
        BY <1>1, <2>1
      <4>2. QED
        BY <1>4, <2>1, <4>1
    <3> HIDE DEF b
    <3>3. QED
      BY <1>1, <1>5, <2>1, <3>1, <3>2
  <2> HIDE DEF b
  <2>3. QED
    BY <1>5, <2>2, CostWithin
<1>11. CostOf(s) \in Int /\ CostOf(t) \in Int
  BY <1>5, CostTyped
<1>12. QED
  BY <1>1, <1>5, <1>7, <1>8, <1>9, <1>10, <1>11 DEF t, n, size

\* A live reply of a worker, as a page shows it
LEMMA LiveReply ==
  ASSUME NEW w \in Workers, NEW s \in Seq(Record), s = records[w],
         NEW sum \in Summaries, sum = summary[w], MemoryInv(s, sum, outcome),
         NEW data \in DashboardMetrics(w)
  PROVE  /\ ~Page(data).sidebar.simulated
         /\ Page(data).spent \in Int /\ Near(Page(data).spent, CostOf(s))
         /\ Total(Page(data).by_user) = CostOf(s) /\ Total(Page(data).by_model) = CostOf(s)
         /\ Page(data).ledger = Recent(s)
         /\ data.cost_summary.total_requests = Len(s)
<1>1. PICK c \in Rounded(sum.total_cost_usd) :
        data = [cost_summary |-> [sum EXCEPT !.total_cost_usd = c],
                recent_usage |-> GetRecentRecords(w),
                circuit_breaker |-> "its metrics", redis_healthy |-> "its flag",
                is_mock |-> FALSE]
  BY DEF DashboardMetrics, GetSummary
<1>2. /\ data.cost_summary.total_cost_usd = c
      /\ data.cost_summary.total_requests = sum.total_requests
      /\ data.cost_summary.cost_by_user = sum.cost_by_user
      /\ data.cost_summary.cost_by_model = sum.cost_by_model
  BY <1>1 DEF Summaries
<1>3. data.recent_usage = Recent(s) /\ data.is_mock = FALSE
  BY <1>1 DEF GetRecentRecords, Recent
<1>4. /\ sum.total_cost_usd = CostOf(s) /\ sum.total_requests = Len(s)
      /\ Total(sum.cost_by_user) = CostOf(s) /\ Total(sum.cost_by_model) = CostOf(s)
  BY DEF MemoryInv, Summarises, BreakdownsAddUp
<1>5. CostOf(s) \in Int
  BY CostTyped
<1>6. c \in Int /\ Near(c, CostOf(s))
  BY <1>4, <1>5 DEF Rounded, Near, RoundTo
<1>7. QED
  BY <1>2, <1>3, <1>4, <1>6 DEF Page, Sidebar, Spent, SpendByModel, SpendByUser, LedgerTable

Completed == {r \in Requests : outcome[r] # "none"}

\* What is remembered of a live page to compare it with later outcomes
DashboardInv ==
  /\ LedgerInv
  /\ PageAddsUp
  /\ NeverOverstates
  /\ ~page.sidebar.simulated => page.spent \in Int /\ page.ledger \in Seq(Record)

\* A page of generated data says so.
LEMMA SimulatedPage == Page(MockDataset).sidebar.simulated
  BY DEF Page, MockDataset, Sidebar

\* The dashboard's invariant holds before the first fetch,
LEMMA InitDashboard == DashboardInit => DashboardInv
<1> SUFFICES ASSUME DashboardInit PROVE DashboardInv
  OBVIOUS
<1>1. page.sidebar.simulated
  BY SimulatedPage DEF DashboardInit, page
<1>2. LedgerInv
  BY InitLedger DEF DashboardInit
<1>3. QED
  BY <1>1, <1>2 DEF DashboardInv, PageAddsUp, NeverOverstates

\* A reply of a worker whose memory satisfies the invariant
LEMMA FetchLive ==
  ASSUME LedgerInv, UNCHANGED vars, NEW w \in Workers, cached' \in DashboardMetrics(w)
  PROVE  /\ PageAddsUp' /\ NeverOverstates'
         /\ page'.spent \in Int /\ page'.ledger \in Seq(Record)
<1> DEFINE s == records[w]
           sum == summary[w]
<1>1. s \in Seq(Record) /\ sum \in Summaries /\ MemoryInv(s, sum, outcome)
  BY DEF LedgerInv
<1>2. /\ page'.spent \in Int /\ Near(page'.spent, CostOf(s))
      /\ Total(page'.by_user) = CostOf(s) /\ Total(page'.by_model) = CostOf(s)
      /\ page'.ledger = Recent(s)
      /\ cached'.cost_summary.total_requests = Len(s)
  BY <1>1, LiveReply DEF page
<1>3. /\ Recent(s) \in Seq(Record) /\ Once(Recent(s))
      /\ RequestsIn(Recent(s)) \subseteq RequestsIn(s)
      /\ Len(Recent(s)) = IF Len(s) < RecentLimit THEN Len(s) ELSE RecentLimit
      /\ CostOf(Recent(s)) <= CostOf(s)
      /\ Len(s) <= RecentLimit => CostOf(Recent(s)) = CostOf(s)
  BY <1>1, RecentFacts DEF MemoryInv
<1>4. PageAddsUp'
  BY <1>2, <1>3 DEF PageAddsUp
<1>5. RequestsIn(s) \subseteq Completed
  <2>1. \A k \in DOMAIN s : s[k] \in Record
    BY <1>1
  <2>2. QED
    BY <1>1, <2>1, RecordFacts DEF MemoryInv, RequestsIn, Completed
<1>6. CostOf(s) <= Budget(Completed) /\ CostOf(Recent(s)) <= Budget(Completed)
  BY <1>1, <1>3, <1>5, CostWithinCharges DEF MemoryInv, Budget, Completed
<1>7. CostOf(s) \in Int /\ Budget(Completed) \in Int
  BY <1>1, CostTyped, BudgetGrows DEF Completed
<1>8. 2 * page'.spent <= 2 * Budget(Completed) + RoundTo
  <2>1. 2 * (page'.spent - CostOf(s)) <= RoundTo
    BY <1>2 DEF Near
  <2>2. QED
    BY <1>2, <1>6, <1>7, <2>1 DEF RoundTo
<1>9. {r \in Requests : outcome'[r] # "none"} = Completed
  BY DEF vars, Completed
<1>10. NeverOverstates'
  BY <1>2, <1>6, <1>8, <1>9 DEF NeverOverstates, Budget
<1>11. QED
  BY <1>2, <1>3, <1>4, <1>10

\* Outcomes are final, so that the budget of a cached page only grows.
LEMMA OutcomesStay == Next => Completed \subseteq Completed'
<1>1. ASSUME NEW r \in Requests, NEW answer, answer # "none",
             outcome' = [outcome EXCEPT ![r] = answer]
      PROVE  Completed \subseteq Completed'
  BY <1>1 DEF Completed
<1>2. QED
  BY <1>1 DEF Next, RecordUsage, RecordFails, Crash, CrashWriting, Boot, Completed

\* is kept by every step of the workers and by every fetch,
LEMMA NextDashboard == DashboardInv /\ [DashboardNext]_dashboardVars => DashboardInv'
<1> SUFFICES ASSUME DashboardInv, [DashboardNext]_dashboardVars PROVE DashboardInv'
  OBVIOUS
<1>1. CASE Next /\ UNCHANGED cached
  <2>1. LedgerInv'
    BY <1>1, NextLedger DEF DashboardInv
  <2>2. page' = page /\ PageAddsUp'
    BY <1>1 DEF DashboardInv, PageAddsUp, page
  <2>3. /\ Budget(Completed) \in Int /\ Budget(Completed') \in Int
        /\ Budget(Completed) <= Budget(Completed')
    <3>1. Completed \subseteq Completed' /\ Completed' \subseteq Requests
      BY <1>1, OutcomesStay DEF Completed
    <3>2. QED
      BY <3>1, BudgetGrows
  <2>4. NeverOverstates'
    <3> SUFFICES ASSUME ~page.sidebar.simulated
                 PROVE  /\ 2 * page.spent <= 2 * Budget(Completed') + RoundTo
                        /\ CostOf(page.ledger) <= Budget(Completed')
      BY <2>2 DEF NeverOverstates, Budget, Completed
    <3>1. /\ 2 * page.spent <= 2 * Budget(Completed) + RoundTo
          /\ CostOf(page.ledger) <= Budget(Completed)
      BY DEF DashboardInv, NeverOverstates, Budget, Completed
    <3>2. page.spent \in Int /\ CostOf(page.ledger) \in Int
      BY CostTyped DEF DashboardInv
    <3>3. QED
      BY <2>3, <3>1, <3>2 DEF RoundTo
  <2>5. QED
    BY <2>1, <2>2, <2>4 DEF DashboardInv
<1>2. CASE Fetch
  <2>1. LedgerInv'
    BY <1>2 DEF Fetch, vars, DashboardInv, LedgerInv
  <2>2. CASE cached' = MockDataset
    <3>1. page'.sidebar.simulated
      BY <2>2, SimulatedPage DEF page
    <3>2. QED
      BY <2>1, <3>1 DEF DashboardInv, PageAddsUp, NeverOverstates
  <2>3. ASSUME NEW w \in alive, cached' \in DashboardMetrics(w) PROVE DashboardInv'
    <3>1. w \in Workers /\ UNCHANGED vars
      BY <1>2 DEF Fetch, DashboardInv, LedgerInv
    <3>2. QED
      BY <2>1, <2>3, <3>1, FetchLive DEF DashboardInv
  <2>4. QED
    BY <1>2, <2>2, <2>3 DEF Fetch
<1>3. CASE UNCHANGED dashboardVars
  BY <1>3 DEF dashboardVars, vars, DashboardInv, LedgerInv, PageAddsUp, NeverOverstates, page
<1>4. QED
  BY <1>1, <1>2, <1>3 DEF DashboardNext

\* and so holds in every reachable state.
THEOREM DashboardInvariant == DashboardSpec => []DashboardInv
  BY InitDashboard, NextDashboard, PTL DEF DashboardSpec

\* PageAddsUp: the amounts of a live page, kept separately, are of one sum.
THEOREM PagesAddUp == DashboardSpec => []PageAddsUp
<1>1. DashboardInv => PageAddsUp
  BY DEF DashboardInv
<1>2. QED
  BY DashboardInvariant, <1>1, PTL

\* NeverOverstates: no page, however stale, shows more than was spent.
THEOREM PagesNeverOverstate == DashboardSpec => []NeverOverstates
<1>1. DashboardInv => NeverOverstates
  BY DEF DashboardInv
<1>2. QED
  BY DashboardInvariant, <1>1, PTL
================================================================================
