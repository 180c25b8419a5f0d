----------------------------- MODULE Throttling -----------------------------
(***************************************************************************)
(* The rate limiter (middleware/rate_limit.rs) over the Redis slot         *)
(* (services/redis.rs), for one key, and the bandwidth bucket of one       *)
(* address (middleware/upload_bandwidth.rs).  Time is a small clock, and   *)
(* seconds and bytes are small numbers.                                    *)
(***************************************************************************)
EXTENDS Naturals, Sequences, FiniteSets, SequencesExt, FiniteSetsExt

CONSTANTS
  Policies,      \* limits in use: [max, window, block] of check_with
  Ranges,        \* Range headers: [first, last], with Nothing for what is not there
  MinCharge, MaxCharge, OpenCharge, NoRangeCharge,
  MaxBytes,      \* MAX_BYTES_PER_SEC_PER_IP
  ByteWindow,    \* WINDOW_SECS
  CleanupEvery,  \* CLEANUP_INTERVAL
  MaxTime,       \* bound: the clock
  MaxChecks,     \* bound: requests
  Nothing

VARIABLES
  policy,        \* the limit at work, or Nothing when it is the bandwidth
  now,
  memory,        \* cache: the entry of the key, or Nothing
  counter,       \* rl:c: its count and when it expires, or Nothing
  block,         \* rl:b: when it expires
  slot,          \* SharedRedis: "disabled", "pending" or "connected"
  bucket,        \* the bucket of the address, or Nothing
  ops,           \* ops_since_cleanup
  log            \* history: what each backend answered, and when

limitVars == <<policy, now, memory, counter, block, slot, bucket, ops, log>>

Backends == {"memory", "redis", "bytes"}
Entries == [ends : Nat, count : Nat, until : Nat \cup {Nothing}]
Counters == [count : Nat, ends : Nat]
Buckets == [bytes : Nat, ends : Nat]

\* A limit lets at least one attempt pass (at max_attempts of one check_with refuses all,
\* and no handler asks for it), what is measured is a number, and Nothing is not what it
\* stands for.
ASSUME ThrottleAssumption ==
  /\ \A p \in Policies : p.max \in Nat \ {0, 1} /\ p.window \in Nat /\ p.block \in Nat
  /\ \A r \in Ranges \ {Nothing} : {r.first, r.last} \subseteq Nat \cup {Nothing}
  /\ {MinCharge, MaxCharge, OpenCharge, NoRangeCharge, MaxBytes, ByteWindow} \subseteq Nat
  /\ Nothing \notin Policies \cup Nat \cup Entries \cup Counters \cup Buckets

Answer(was, bytes) == [was |-> was, time |-> now, bytes |-> bytes]
Checked == FoldSet(LAMBDA b, n : n + Len(log[b]), 0, Backends)

LimitInit ==
  /\ policy \in Policies \cup {Nothing}
  /\ now = 0
  /\ memory = Nothing
  /\ counter = Nothing
  /\ block = 0
  /\ slot \in IF policy = Nothing THEN {"disabled"} ELSE {"disabled", "pending", "connected"}
  /\ bucket = Nothing
  /\ ops = 0
  /\ log = [b \in Backends |-> <<>>]

Tick ==
  /\ now < MaxTime
  /\ now' = now + 1
  /\ UNCHANGED <<policy, memory, counter, block, slot, bucket, ops, log>>

-----------------------------------------------------------------------------
\* check_memory: the entry after one attempt at time t.
Fresh(t) == [ends |-> t + policy.window, count |-> 0, until |-> Nothing]
Blocked(e, t) == e.until # Nothing /\ t < e.until

Counted(entry, t) ==
  LET e == IF entry = Nothing \/ entry.until # Nothing \/ t >= entry.ends THEN Fresh(t) ELSE entry
  IN [e EXCEPT !.count = @ + 1, !.until = IF e.count + 1 >= policy.max THEN t + policy.block ELSE Nothing]

MemoryRefuses(entry, t) == entry # Nothing /\ Blocked(entry, t)
MemoryPasses(entry, t) == ~MemoryRefuses(entry, t) /\ Counted(entry, t).until = Nothing

CheckMemory ==
  /\ memory' = IF MemoryRefuses(memory, now) THEN memory ELSE Counted(memory, now)

FromMemory == Answer(IF MemoryPasses(memory, now) THEN "passed"
                     ELSE IF MemoryRefuses(memory, now) THEN "blocked" ELSE "limited", 0)

\* RATE_LIMIT_SCRIPT, in one step: the block, the counter with its lifetime, and
\* at the limit the counter goes, whether or not there is a block to apply.
Hits(c, t) == IF c # Nothing /\ t < c.ends THEN c.count + 1 ELSE 1
RedisPasses(c, b, t) == t >= b /\ Hits(c, t) < policy.max

RunScript ==
  IF now < block THEN UNCHANGED <<counter, block>>
  ELSE LET hits == Hits(counter, now)
       IN /\ counter' = IF hits >= policy.max THEN Nothing
                        ELSE [count |-> hits, ends |-> IF hits = 1 THEN now + policy.window ELSE counter.ends]
          /\ block' = IF hits >= policy.max /\ policy.block > 0 THEN now + policy.block ELSE block

FromRedis == Answer(IF RedisPasses(counter, block, now) THEN "passed"
                    ELSE IF now < block THEN "blocked" ELSE "limited", 0)

Attempts == policy # Nothing /\ Checked < MaxChecks

\* check_with: Redis where the slot has it.
CheckRedis ==
  /\ Attempts
  /\ slot = "connected"
  /\ RunScript
  /\ log' = [log EXCEPT !["redis"] = Append(@, FromRedis)]
  /\ UNCHANGED <<policy, now, memory, slot, bucket, ops>>

\* Its error, before the script ran or after, is answered from memory.
CheckFallsBack ==
  /\ Attempts
  /\ slot = "connected"
  /\ CheckMemory
  /\ \/ /\ RunScript
        /\ log' = [log EXCEPT !["memory"] = Append(@, FromMemory), !["redis"] = Append(@, FromRedis)]
     \/ /\ UNCHANGED <<counter, block>>
        /\ log' = [log EXCEPT !["memory"] = Append(@, FromMemory)]
  /\ UNCHANGED <<policy, now, slot, bucket, ops>>

CheckWithoutRedis ==
  /\ Attempts
  /\ slot # "connected"
  /\ CheckMemory
  /\ log' = [log EXCEPT !["memory"] = Append(@, FromMemory)]
  /\ UNCHANGED <<policy, now, counter, block, slot, bucket, ops>>

\* reset, after a login that succeeded: both backends, or memory alone when the
\* DEL fails.
ResetKey ==
  /\ policy # Nothing
  /\ Checked > 0
  /\ memory' = Nothing
  /\ \/ /\ slot = "connected"
        /\ counter' = Nothing /\ block' = 0
        /\ log' = [b \in Backends |-> <<>>]
     \/ /\ UNCHANGED <<counter, block>>
        /\ log' = [log EXCEPT !["memory"] = <<>>]
  /\ UNCHANGED <<policy, now, slot, bucket, ops>>

\* A mutant: an entry goes with its window.
WindowOver(entry) == now >= entry.ends

Expired(entry) == now >= entry.ends /\ ~Blocked(entry, now)

CleanupExpired ==
  /\ memory # Nothing
  /\ Expired(memory)
  /\ memory' = Nothing
  /\ UNCHANGED <<policy, now, counter, block, slot, bucket, ops, log>>

-----------------------------------------------------------------------------
\* The slot: init tries once, a background task goes on trying, and the first
\* connection that is published stays.
PublishConnection ==
  /\ slot = "pending"
  /\ slot' = "connected"
  /\ UNCHANGED <<policy, now, memory, counter, block, bucket, ops, log>>

\* What a restart keeps is in Redis.
Restart ==
  /\ policy # Nothing
  /\ memory # Nothing
  /\ memory' = Nothing
  /\ slot' \in IF slot = "disabled" THEN {"disabled"} ELSE {"pending", "connected"}
  /\ log' = [log EXCEPT !["memory"] = <<>>]
  /\ UNCHANGED <<policy, now, counter, block, bucket, ops>>

-----------------------------------------------------------------------------
\* approx_range_bytes: a finite range by its span, within limits.
Clamped(n) == Min({Max({n, MinCharge}), MaxCharge})
RangeCharge(r) == IF r = Nothing \/ r.first = Nothing THEN NoRangeCharge
                  ELSE IF r.last = Nothing THEN OpenCharge
                  ELSE Clamped(IF r.last > r.first THEN r.last - r.first ELSE 0)

\* IpBandwidth::check, with the cleanup it does every so often.
Kept(b) == IF ops >= CleanupEvery /\ b # Nothing /\ now >= b.ends THEN Nothing ELSE b
Refilled(b) == IF b = Nothing \/ now >= b.ends THEN [bytes |-> 0, ends |-> now + ByteWindow] ELSE b

CheckBandwidth ==
  /\ policy = Nothing
  /\ Checked < MaxChecks
  /\ \E r \in Ranges :
       LET b == Refilled(Kept(bucket))
           charged == b.bytes + RangeCharge(r)
           ok == charged <= MaxBytes
       IN /\ bucket' = IF ok THEN [b EXCEPT !.bytes = charged] ELSE b
          /\ log' = [log EXCEPT !["bytes"] = Append(@, Answer(IF ok THEN "passed" ELSE "limited", RangeCharge(r)))]
  /\ ops' = IF ops >= CleanupEvery THEN 0 ELSE ops + 1
  /\ UNCHANGED <<policy, now, memory, counter, block, slot>>

LimitNext ==
  \/ Tick
  \/ CheckRedis \/ CheckFallsBack \/ CheckWithoutRedis
  \/ ResetKey \/ CleanupExpired \/ PublishConnection \/ Restart
  \/ CheckBandwidth

LimitSpec == LimitInit /\ [][LimitNext]_limitVars

-----------------------------------------------------------------------------
Within(s, t, span) == {k \in DOMAIN s : s[k].time \in t .. t + span - 1}

\* Each backend by itself: what passes in any span of a window is at most twice
\* what a window allows, and as much again for every refusal in it (a block of no
\* time, as the chat and the guest accounts have it, only starts the count again);
\* a refusal at the limit is followed by no pass for the time of the block; and
\* an attempt after both times are over would pass.
AttemptsThrottled == policy # Nothing => \A b \in {"memory", "redis"} :
  LET s == log[b]
      later == now + policy.window + policy.block
  IN /\ \A t \in 0..now :
          LET span == Within(s, t, policy.window)
              passed == {k \in span : s[k].was = "passed"}
          IN Cardinality(passed) <= (policy.max - 1) * (2 + Cardinality(span \ passed))
     /\ \A j, k \in DOMAIN s : j < k /\ s[j].was = "limited" /\ s[k].was = "passed"
                             => s[k].time >= s[j].time + policy.block
     /\ IF b = "memory" THEN MemoryPasses(memory, later) ELSE RedisPasses(counter, block, later)

\* The bytes charged to an address in any span of a window are at most twice
\* the limit.
BytesThrottled == \A t \in 0..now :
  LET span == {k \in Within(log["bytes"], t, ByteWindow) : log["bytes"][k].was = "passed"}
  IN Cardinality(UNION {{k} \X (1..log["bytes"][k].bytes) : k \in span}) <= 2 * MaxBytes

\* The rate limiter lets through what its policy allows and no more, and always
\* lets through again; and the bandwidth of an address is bounded.
Throttled == AttemptsThrottled /\ BytesThrottled
=============================================================================
