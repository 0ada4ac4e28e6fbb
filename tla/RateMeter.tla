------------------------------- MODULE RateMeter -------------------------------
(***************************************************************************)
(* The rate limiter with a meter on it, to say what it lets through.       *)
(*                                                                         *)
(* The meter is auxiliary: `base' is the stamp of the first command Redis  *)
(* executed, `regress' the sum of all the steps backwards that the stored  *)
(* timestamp has made (the script stores the stamp of the command even     *)
(* when it is older than the one it finds), `log' what Redis executed, and *)
(* `local_grants' the tokens taken from each local bucket since its pod    *)
(* started, and `local_base' the time of the first of them.                *)
(***************************************************************************)
EXTENDS RateLimiter, Sequences, FiniteSets

VARIABLES base, regress, log, local_grants, local_base

redisMeter == <<base, regress, log>>
localMeter == <<local_grants, local_base>>
meterVars == <<limiterVars, redisMeter, localMeter>>

MeterInit ==
  /\ Init
  /\ base = 0 /\ regress = 0 /\ log = <<>>
  /\ local_grants = [p \in Pods |-> 0]
  /\ local_base = [p \in Pods |-> 0]

MeteredExecute(r) ==
  /\ Execute(r)
  /\ base' = IF expires = 0 THEN stamp[r] ELSE base
  /\ regress' = IF expires # 0 /\ stamp[r] < timestamp
                THEN regress + (timestamp - stamp[r]) ELSE regress
  /\ log' = Append(log, [stamp |-> stamp[r], granted |-> granted'[r]])
  /\ UNCHANGED localMeter

MeteredDegrade(r) ==
  /\ Degrade(r)
  /\ local_grants' = IF phase'[r] = "admitted_locally"
                     THEN [local_grants EXCEPT ![at[r]] = @ + 1] ELSE local_grants
  /\ local_base' = IF local_tokens[at[r]] = Capacity   \* not used yet
                   THEN [local_base EXCEPT ![at[r]] = Clock(at[r])] ELSE local_base
  /\ UNCHANGED redisMeter

MeteredRestart(p) ==
  /\ Restart(p)
  /\ local_grants' = [local_grants EXCEPT ![p] = 0]
  /\ local_base' = [local_base EXCEPT ![p] = 0]
  /\ UNCHANGED redisMeter

Unmetered(r) == Send(r) \/ Lose(r) \/ Receive(r)

MeteredNext ==
  \/ \E r \in Checks : MeteredExecute(r)
  \/ \E r \in Checks : MeteredDegrade(r)
  \/ \E p \in Pods : MeteredRestart(p)
  \/ (\E r \in Checks : Unmetered(r)) /\ UNCHANGED <<redisMeter, localMeter>>
  \/ Tick /\ UNCHANGED <<redisMeter, localMeter>>

MeteredSpec == MeterInit /\ [][MeteredNext]_meterVars
-------------------------------------------------------------------------------
Granted == {r \in Checks : granted[r]}
Admitted == {r \in Checks : phase[r] = "admitted"}

\* What the shared bucket admits, over any period, in any interleaving of the
\* pods' commands: at most its capacity, what the clocks have refilled, and
\* what out-of-order stamps have refilled twice.  A restart, a lost reply, a
\* command that outlives its check and the expiry of the key grant nothing more.
FleetBound ==
  IF expires = 0 THEN Admitted = {}
  ELSE Cost * Cardinality(Admitted) + tokens
         <= Capacity + (timestamp - base) + regress

\* Each pod, by itself and since it started, admits no more than its local
\* bucket's capacity and what its own clock has refilled.
LocalBound ==
  \A p \in Pods :
    IF local_tokens[p] = Capacity THEN local_grants[p] = 0
    ELSE Cost * local_grants[p] + local_tokens[p]
           <= Capacity + (Clock(p) - local_base[p])

\* The commands that count against the one at n: all that Redis executed since
\* it last saw a stamp a whole refill (Capacity units) older.
Since(n) ==
  {k \in 1 .. n - 1 : \A j \in k .. n - 1 : log[j].stamp > log[n].stamp - Capacity}

\* Redis refuses no client for nothing: behind every refusal of the script there
\* are, in the time it takes to refill the bucket, grants of all but a fraction
\* of it.  What a pod refuses by its local bucket is not in the log.
NoFalseRefusal ==
  \A n \in DOMAIN log : ~log[n].granted =>
    Cost * Cardinality({k \in Since(n) : log[k].granted}) > Capacity - Cost

\* The rate as the documentation words it (rate_limiter.py:13-20, "enforcing a
\* strict long-run average rate"): the capacity and what the time since the
\* system started has refilled, when all clocks agree.
StrictRate ==
  MaxSkew = 0 => Cost * Cardinality(Admitted) <= Capacity + now
===============================================================================
