------------------------------ MODULE RateLimiter ------------------------------
(***************************************************************************)
(* middleware/rate_limiter.py, class RateLimiter: the token bucket of one  *)
(* user, shared in Redis by every gateway process (a pod), and the         *)
(* in-memory bucket each pod falls back to when Redis fails it.            *)
(*                                                                         *)
(* A check reads its pod's clock, then suspends in `await client.eval'.    *)
(* The command travels to Redis, is executed there atomically, and the     *)
(* reply travels back; the pod gives up on an error or a socket timeout at *)
(* any of these points, without being able to recall the command.          *)
(*                                                                         *)
(* One tick refills one unit, and a token costs Cost units (the free tier: *)
(* 5 tokens a minute, so a unit is a second's refill and Cost is 12).      *)
(***************************************************************************)
EXTENDS Integers

CONSTANTS
  Pods,          \* gateway processes
  Checks,        \* calls of RateLimiter.check for the one user
  Capacity,      \* tier_config.capacity, in units
  Cost,          \* units in a token
  TTL,           \* the EXPIRE of the bucket key (3600 s)
  CheckTimeout,  \* ticks after which the pod has a reply or an error
  MaxLag,        \* ticks after which Redis has executed, or never will, a command
  Skew,          \* how far each pod's clock is ahead of the slowest
  MaxSkew,
  MaxTime        \* bound: the clock stops here

ASSUME LimiterAssumption ==
  /\ Capacity \in Nat /\ Cost \in Nat \ {0} /\ Cost <= Capacity
  /\ CheckTimeout \in Nat /\ MaxLag \in Nat
  /\ MaxSkew \in Nat /\ Skew \in [Pods -> 0 .. MaxSkew]
  /\ MaxTime \in Nat
  \* an expired bucket would have refilled anyway
  /\ TTL \in Nat \ {0} /\ TTL >= Capacity + MaxLag + MaxSkew

VARIABLES
  now,              \* true time
  tokens, timestamp,  \* the two fields of the Redis hash
  expires,          \* when the key disappears
  at,               \* the pod the load balancer gave each check to
  phase,            \* where each check is in its pod
  command,          \* where the EVAL of each check is
  stamp,            \* the `now' argument of that EVAL, while it travels
  sent_at,          \* the true time at which it was read
  granted,          \* `allowed', as computed in Redis
  local_tokens, local_timestamp,  \* _local_buckets of each pod
  redis_healthy     \* _redis_healthy of each pod

bucket == <<tokens, timestamp, expires>>
local == <<local_tokens, local_timestamp>>
limiterVars == <<now, bucket, at, phase, command, stamp, sent_at, granted,
                 local, redis_healthy>>

Clock(p) == now + Skew[p]

\* A full bucket and no bucket at all answer alike, so the local buckets are
\* full from the start and the Redis hash is one that has expired.
Init ==
  /\ now = 0
  /\ tokens = Capacity /\ timestamp = 0 /\ expires = 0
  /\ at \in [Checks -> Pods]
  /\ phase = [r \in Checks |-> "idle"]
  /\ command = [r \in Checks |-> "none"]
  /\ stamp = [r \in Checks |-> 0]
  /\ sent_at = [r \in Checks |-> 0]
  /\ granted = [r \in Checks |-> FALSE]
  /\ local_tokens = [p \in Pods |-> Capacity]
  /\ local_timestamp = [p \in Pods |-> 0]
  /\ redis_healthy = [p \in Pods |-> TRUE]

\* A variant ends in Slip when it is a bug a run must catch: no specification
\* uses it.
FilledSlip(level, then, t) == level + (t - then)   \* no clamps

NeverFilledSlip(level, then, t) == level   \* nothing is refilled

\* The refilled level of a bucket: min(capacity, tokens + max(0, now - last)).
Filled(level, then, t) ==
  LET sum == level + (IF t > then THEN t - then ELSE 0)
  IN  IF sum < Capacity THEN sum ELSE Capacity

\* _redis_token_bucket_check, up to its await
Send(r) ==
  /\ phase[r] = "idle"
  /\ phase' = [phase EXCEPT ![r] = "waiting"]
  /\ command' = [command EXCEPT ![r] = "travelling"]
  /\ stamp' = [stamp EXCEPT ![r] = Clock(at[r])]
  /\ sent_at' = [sent_at EXCEPT ![r] = now]
  /\ UNCHANGED <<now, bucket, at, granted, local, redis_healthy>>

KeyExists == now < expires

Level(t) == IF KeyExists THEN Filled(tokens, timestamp, t) ELSE Capacity

\* _TOKEN_BUCKET_LUA, executed by Redis for a check that may have given up
Execute(r) ==
  LET level == Level(stamp[r])
      allowed == level >= Cost
  IN  /\ command[r] = "travelling"
      /\ command' = [command EXCEPT ![r] = "executed"]
      /\ granted' = [granted EXCEPT ![r] = allowed]
      /\ tokens' = IF allowed THEN level - Cost ELSE level
      /\ timestamp' = stamp[r]
      /\ expires' = now + TTL
      /\ stamp' = [stamp EXCEPT ![r] = 0]
      /\ UNCHANGED <<now, at, phase, sent_at, local, redis_healthy>>

\* The command never reaches Redis.
Lose(r) ==
  /\ command[r] = "travelling"
  /\ command' = [command EXCEPT ![r] = "lost"]
  /\ stamp' = [stamp EXCEPT ![r] = 0]
  /\ UNCHANGED <<now, bucket, at, phase, sent_at, granted, local, redis_healthy>>

Verdict(allowed) == IF allowed THEN "admitted" ELSE "refused"

ReceiveSlip(r) ==   \* the reply is awaited, but not read
  /\ phase[r] = "waiting" /\ command[r] = "executed"
  /\ phase' = [phase EXCEPT ![r] = "admitted"]
  /\ redis_healthy' = [redis_healthy EXCEPT ![at[r]] = TRUE]
  /\ UNCHANGED <<now, bucket, at, command, stamp, sent_at, granted, local>>

\* The reply arrives in time; enforce_rate_limit admits or answers 429.
Receive(r) ==
  /\ phase[r] = "waiting" /\ command[r] = "executed"
  /\ phase' = [phase EXCEPT ![r] = Verdict(granted[r])]
  /\ redis_healthy' = [redis_healthy EXCEPT ![at[r]] = TRUE]
  /\ UNCHANGED <<now, bucket, at, command, stamp, sent_at, granted, local>>

DegradeSlip(r) ==   \* the timestamp of the local bucket is not stored
  LET p == at[r]
      level == Filled(local_tokens[p], local_timestamp[p], Clock(p))
      allowed == level >= Cost
  IN  /\ phase[r] = "waiting"
      /\ phase' = [phase EXCEPT ![r] = IF allowed THEN "admitted_locally" ELSE "refused"]
      /\ local_tokens' = [local_tokens EXCEPT ![p] = IF allowed THEN level - Cost ELSE level]
      /\ redis_healthy' = [redis_healthy EXCEPT ![p] = FALSE]
      /\ UNCHANGED <<now, bucket, at, command, stamp, sent_at, granted, local_timestamp>>

\* An error or a timeout: _local_token_bucket_check decides.
Degrade(r) ==
  LET p == at[r]
      level == Filled(local_tokens[p], local_timestamp[p], Clock(p))
      allowed == level >= Cost
  IN  /\ phase[r] = "waiting"
      /\ phase' = [phase EXCEPT ![r] = IF allowed THEN "admitted_locally" ELSE "refused"]
      /\ local_tokens' = [local_tokens EXCEPT ![p] = IF allowed THEN level - Cost ELSE level]
      /\ local_timestamp' = [local_timestamp EXCEPT ![p] = Clock(p)]
      /\ redis_healthy' = [redis_healthy EXCEPT ![p] = FALSE]
      /\ UNCHANGED <<now, bucket, at, command, stamp, sent_at, granted>>

\* A pod restarts: its checks are dropped, its memory is fresh.
Restart(p) ==
  /\ phase' = [r \in Checks |-> IF at[r] = p /\ phase[r] = "waiting"
                                THEN "dropped" ELSE phase[r]]
  /\ local_tokens' = [local_tokens EXCEPT ![p] = Capacity]
  /\ local_timestamp' = [local_timestamp EXCEPT ![p] = 0]
  /\ redis_healthy' = [redis_healthy EXCEPT ![p] = TRUE]
  /\ UNCHANGED <<now, bucket, at, command, stamp, sent_at, granted>>

\* Time passes, but no check outwaits its timeout and no command its lag.
Tick ==
  /\ now < MaxTime
  /\ \A r \in Checks :
       /\ phase[r] = "waiting" => now < sent_at[r] + CheckTimeout
       /\ command[r] = "travelling" => now < sent_at[r] + MaxLag
  /\ now' = now + 1
  /\ UNCHANGED <<bucket, at, phase, command, stamp, sent_at, granted, local,
                 redis_healthy>>

Next ==
  \/ \E r \in Checks : Send(r) \/ Execute(r) \/ Lose(r) \/ Receive(r) \/ Degrade(r)
  \/ \E p \in Pods : Restart(p)
  \/ Tick

Spec == Init /\ [][Next]_limiterVars
-------------------------------------------------------------------------------
\* Type invariant of the limiter.
TypeOK ==
  /\ now \in Nat
  /\ tokens \in 0 .. Capacity /\ timestamp \in Nat /\ expires \in Nat
  /\ at \in [Checks -> Pods]
  /\ phase \in [Checks -> {"idle", "waiting", "admitted", "admitted_locally", "refused", "dropped"}]
  /\ command \in [Checks -> {"none", "travelling", "executed", "lost"}]
  /\ stamp \in [Checks -> Nat]
  /\ sent_at \in [Checks -> Nat]
  /\ granted \in [Checks -> BOOLEAN]
  /\ local_tokens \in [Pods -> 0 .. Capacity]
  /\ local_timestamp \in [Pods -> Nat]
  /\ redis_healthy \in [Pods -> BOOLEAN]
===============================================================================
