------------------------------ MODULE RateLimit ------------------------------
(***************************************************************************)
(* The gateway's in-memory limiter (gateway/app/ratelimit.py): an          *)
(* OrderedDict of token buckets, least recently used first, of at most     *)
(* rate_limit_max_keys entries.  Buckets refill lazily: a bucket records   *)
(* its tokens at its latest check.  allow() runs under a lock, so a check  *)
(* is one step.                                                            *)
(*                                                                         *)
(* Time is counted in ticks and tokens in Units, so that the refill of a   *)
(* tick is a whole number.                                                 *)
(***************************************************************************)
EXTENDS Naturals, FiniteSets

CONSTANTS
  Keys,      \* Authorization values
  Burst,     \* rate_limit_burst
  Unit,      \* parts of a token
  Rate,      \* parts of a token a tick brings back (rate_limit_per_min)
  MaxKeys,   \* rate_limit_max_keys
  MaxTime    \* bound of the model: ticks

ASSUME BurstIsPositive == Burst \in Nat \ {0}
ASSUME UnitIsPositive == Unit \in Nat \ {0}
ASSUME RateIsNat == Rate \in Nat
ASSUME MaxKeysIsNat == MaxKeys \in Nat
ASSUME MaxTimeIsNat == MaxTime \in Nat

VARIABLES
  now,       \* time.monotonic()
  size,      \* len(_buckets)
  place,     \* a key's position in _buckets, from 1; 0: it is not there
  tokens,    \* TokenBucket.tokens, in parts
  updated,   \* TokenBucket.updated
  verdict,   \* the latest result of allow(), with its key
  since,     \* history: the other keys checked since a key's latest check
  from,      \* history: the tick, any one, from which passes are counted
  passed     \* history: how often a key's present bucket let it pass since then

bucket == <<tokens, updated>>
history == <<since, from, passed>>
vars == <<now, size, place, bucket, verdict, history>>

Full == Burst * Unit
Capped(n) == IF n > Full THEN Full ELSE n

TypeOK ==
  /\ now \in Nat
  /\ size \in Nat
  /\ place \in [Keys -> Nat]
  /\ tokens \in [Keys -> 0 .. Full]
  /\ updated \in [Keys -> Nat]
  /\ verdict = <<>> \/ verdict \in Keys \X BOOLEAN
  /\ since \in [Keys -> SUBSET Keys]
  /\ from \in 0 .. MaxTime
  /\ passed \in [Keys -> Nat]

Init ==
  /\ now = 0
  /\ size = 0
  /\ place = [k \in Keys |-> 0]
  /\ tokens = [k \in Keys |-> Full]
  /\ updated = [k \in Keys |-> 0]
  /\ verdict = <<>>
  /\ since = [k \in Keys |-> {}]
  /\ from \in 0 .. MaxTime
  /\ passed = [k \in Keys |-> 0]

Tick ==
  /\ now < MaxTime
  /\ now' = now + 1
  /\ UNCHANGED <<size, place, bucket, verdict, history>>

Known(k) == place[k] # 0

\* How many buckets go to make room for one more.
Excess == LET limit == IF MaxKeys > 1 THEN MaxKeys - 1 ELSE 0
          IN IF size > limit THEN size - limit ELSE 0

\* Mutation: room is made only once the map is over its limit.
InsertThenEvict(k) ==
  LET excess == IF size > MaxKeys THEN size - MaxKeys ELSE 0 IN
  /\ size' = size - excess + 1
  /\ place' = [j \in Keys |-> IF j = k THEN size' ELSE
                              IF place[j] > excess THEN place[j] - excess ELSE 0]

\* Drop the least recently used ones, then add the newcomer at the hot end.
Insert(k) ==
  /\ size' = size - Excess + 1
  /\ place' = [j \in Keys |-> IF j = k THEN size' ELSE
                              IF place[j] > Excess THEN place[j] - Excess ELSE 0]

\* Mutation: a check leaves the bucket where it is.
StayInPlace(k) == UNCHANGED <<size, place>>

\* move_to_end
MoveToEnd(k) ==
  /\ place' = [j \in Keys |-> IF j = k THEN size ELSE
                              IF place[j] > place[k] THEN place[j] - 1 ELSE place[j]]
  /\ UNCHANGED size

\* Mutation: a refill that ignores the capacity.
RefilledUncapped(k) == tokens[k] + (now - updated[k]) * Rate

\* What the bucket holds once the time since its latest check is paid out.
Refilled(k) == Capped(tokens[k] + (now - updated[k]) * Rate)

\* Mutation: the clock of a bucket is only set when a request passes.
StampWhenAllowed(k, allowed) == IF allowed THEN now ELSE updated[k]

\* bucket.updated after a check, whatever its result.
Stamp(k, allowed) == now

\* TokenBucket.allow, on a bucket found or on a new, full one.
Consume(k) ==
  LET held == IF Known(k) THEN Refilled(k) ELSE Full
      allowed == held >= Unit
  IN /\ tokens' = [tokens EXCEPT ![k] = IF allowed THEN held - Unit ELSE held]
     /\ updated' = [updated EXCEPT ![k] = Stamp(k, allowed)]
     /\ verdict' = <<k, allowed>>

\* What a check of k adds to the history; a bucket that is dropped takes its
\* count with it.
Record(k) ==
  /\ since' = [j \in Keys |-> IF j = k THEN {} ELSE since[j] \cup {k}]
  /\ passed' = [j \in Keys |-> IF ~Known(j)' THEN 0 ELSE
                               IF verdict' = <<j, TRUE>> /\ from <= now
                                 THEN passed[j] + 1 ELSE passed[j]]
  /\ UNCHANGED from

\* allow(k)
Check(k) ==
  /\ \/ ~Known(k) /\ Insert(k)
     \/ Known(k) /\ MoveToEnd(k)
  /\ Consume(k)
  /\ Record(k)
  /\ UNCHANGED now

Next == Tick \/ \E k \in Keys : Check(k)

Spec == Init /\ [][Next]_vars

-----------------------------------------------------------------------------

\* The map never outgrows its bound, and it is a list: its keys hold the
\* positions 1 to its length, one each (ratelimit.py:51-71).
Bound == IF MaxKeys > 1 THEN MaxKeys ELSE 1

BoundedMap ==
  /\ size <= Bound
  /\ \A k \in Keys : place[k] <= size
  /\ \A n \in 1 .. size : \E k \in Keys : place[k] = n
  /\ \A j, k \in Keys : place[j] = place[k] /\ Known(j) => j = k

\* A bucket is dropped, and with it the debt of its caller, only when as many
\* other callers as the map holds were checked since, the newcomer included: a
\* caller who keeps being throttled is not the one to lose its bucket
\* (ratelimit.py:39-45).
OnlyTheColdestGoes ==
  [][\A k \in Keys : Known(k) /\ ~Known(k)' => Cardinality(since'[k]) >= MaxKeys]_vars

\* However a caller spaces its requests, and however often it is turned away,
\* from any tick on its bucket lets through no more than the burst and what the
\* rate brings back in that time (ratelimit.py:24-32).
RateIsKept ==
  from <= now =>
    \A k \in Keys : passed[k] * Unit <= Full + (now - from) * Rate

\* The map, its order and the lazy refill are invisible: each caller has the
\* bucket Limiter promises it, full until it is first seen, and a request of a
\* newcomer forgets at most one other caller (ratelimit.py:24-32, 57-71).
Lim == INSTANCE Limiter WITH
         Room <- MaxKeys,
         level <- [k \in Keys |-> IF Known(k) THEN Refilled(k) ELSE Full]

ImplementsLimiter == Lim!Spec

=============================================================================
