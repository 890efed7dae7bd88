--------------------------- MODULE RateLimitProofs ---------------------------
(***************************************************************************)
(* The limiter's map is a bounded list, its buckets hold what a bucket may *)
(* hold, and map and buckets implement Limiter, whatever the callers, the  *)
(* rate and the bound.                                                     *)
(*                                                                         *)
(* The steps need two facts beyond the invariants: no bucket was stamped   *)
(* in the future, so that a refill pays out a time that has passed; and    *)
(* the keys behind one in the list were all checked since it was.          *)
(***************************************************************************)
EXTENDS RateLimit, FunctionTheorems, FiniteSetTheorems, TLAPS

\* No bucket's latest check lies ahead of the clock (ratelimit.py:26-28).
StampedInThePast == \A k \in Keys : updated[k] <= now

IInv == TypeOK /\ StampedInThePast

\* The capacity of a bucket is a natural number.
LEMMA FullIsNat == Full \in Nat
BY BurstIsPositive, UnitIsPositive DEF Full

\* What the cap lets through is what a bucket can hold.
LEMMA CappedInRange == ASSUME NEW n \in Nat PROVE Capped(n) \in 0 .. Full
BY FullIsNat DEF Capped

\* A refill yields what a bucket can hold (ratelimit.py:27).
LEMMA RefillInRange ==
  ASSUME IInv, NEW k \in Keys
  PROVE  Refilled(k) \in 0 .. Full
<1>1. now - updated[k] \in Nat
  BY DEF IInv, TypeOK, StampedInThePast
<1>2. (now - updated[k]) * Rate \in Nat
  BY <1>1, RateIsNat
<1>3. tokens[k] \in Nat
  BY FullIsNat DEF IInv, TypeOK
<1>4. tokens[k] + (now - updated[k]) * Rate \in Nat
  BY <1>2, <1>3
<1> QED BY <1>4, CappedInRange DEF Refilled

\* Making room for one leaves at most one less than the bound, and at least 0.
LEMMA RoomForOne ==
  ASSUME TypeOK, BoundedMap
  PROVE  /\ Excess \in Nat
         /\ Excess <= size
         /\ size - Excess + 1 <= Bound
BY MaxKeysIsNat DEF TypeOK, BoundedMap, Bound, Excess

\* The newcomer takes the last position, the evicted lose theirs and the rest
\* move up (ratelimit.py:51-54, 61-68).
LEMMA InsertKeepsList ==
  ASSUME TypeOK, BoundedMap, NEW k \in Keys, ~Known(k), Insert(k)
  PROVE  BoundedMap' /\ size' \in Nat /\ place' \in [Keys -> Nat]
<1> DEFINE e == Excess
<1>1. e \in Nat /\ e <= size /\ size \in Nat /\ place \in [Keys -> Nat]
  BY RoomForOne DEF TypeOK
<1>2. size' = size - e + 1 /\ size' \in Nat \ {0}
  BY <1>1 DEF Insert
<1>3. place' = [j \in Keys |-> IF j = k THEN size' ELSE
                               IF place[j] > e THEN place[j] - e ELSE 0]
  BY DEF Insert
<1>4. place[k] = 0
  BY DEF Known
<1> HIDE DEF e
<1>5. size' <= Bound
  BY <1>2, RoomForOne DEF e
<1>6. place' \in [Keys -> Nat]
  BY <1>1, <1>2, <1>3
<1>7. ASSUME NEW j \in Keys PROVE place'[j] <= size'
  BY <1>1, <1>2, <1>3 DEF BoundedMap
<1>8. ASSUME NEW n \in 1 .. size' PROVE \E j \in Keys : place'[j] = n
  <2>1. CASE n = size'
    BY <2>1, <1>3
  <2>2. CASE n # size'
    <3>1. n + e \in 1 .. size
      BY <2>2, <1>1, <1>2
    <3>2. PICK j \in Keys : place[j] = n + e
      BY <3>1 DEF BoundedMap
    <3>3. j # k
      BY <3>1, <3>2, <1>4
    <3> QED BY <3>1, <3>2, <3>3, <1>1, <1>3
  <2> QED BY <2>1, <2>2
<1>9. ASSUME NEW i \in Keys, NEW j \in Keys, place'[i] = place'[j], place'[i] # 0
      PROVE  i = j
  <2>1. \A h \in Keys \ {k} : place'[h] # 0 => place[h] # 0 /\ place[h] = place'[h] + e
    BY <1>1, <1>3
  <2>2. \A h \in Keys \ {k} : place'[h] < size'
    BY <1>1, <1>2, <1>3 DEF BoundedMap
  <2>3. place'[k] = size'
    BY <1>3
  <2>4. CASE i = k \/ j = k
    BY <2>2, <2>3, <2>4, <1>9, <1>2, <1>6
  <2>5. CASE i # k /\ j # k
    BY <2>1, <2>5, <1>9 DEF BoundedMap, Known
  <2> QED BY <2>4, <2>5
<1>10. Bound' = Bound
  BY DEF Bound
<1> QED BY <1>2, <1>5, <1>6, <1>7, <1>8, <1>9, <1>10 DEF BoundedMap, Known

\* The key checked takes the last position and those behind it move up.
LEMMA MoveKeepsList ==
  ASSUME TypeOK, BoundedMap, NEW k \in Keys, Known(k), MoveToEnd(k)
  PROVE  BoundedMap' /\ size' \in Nat /\ place' \in [Keys -> Nat]
<1>1. size \in Nat /\ place \in [Keys -> Nat] /\ size' = size
  BY DEF TypeOK, MoveToEnd
<1>2. place' = [j \in Keys |-> IF j = k THEN size ELSE
                               IF place[j] > place[k] THEN place[j] - 1 ELSE place[j]]
  BY DEF MoveToEnd
<1>3. place[k] \in 1 .. size
  BY <1>1 DEF Known, BoundedMap
<1>4. place' \in [Keys -> Nat]
  BY <1>1, <1>2, <1>3
<1>5. ASSUME NEW j \in Keys PROVE place'[j] <= size'
  BY <1>1, <1>2, <1>3 DEF BoundedMap
<1>6. ASSUME NEW n \in 1 .. size' PROVE \E j \in Keys : place'[j] = n
  <2>1. CASE n = size
    BY <2>1, <1>2
  <2>2. CASE n < place[k]
    <3>1. PICK j \in Keys : place[j] = n
      BY <1>1 DEF BoundedMap
    <3> QED BY <3>1, <2>2, <1>1, <1>2, <1>3
  <2>3. CASE n # size /\ n >= place[k]
    <3>1. n + 1 \in 1 .. size
      BY <2>3, <1>1
    <3>2. PICK j \in Keys : place[j] = n + 1
      BY <3>1 DEF BoundedMap
    <3>3. j # k /\ place[j] > place[k] /\ place[j] - 1 = n
      BY <2>3, <3>2, <1>1, <1>3
    <3> QED BY <3>3, <1>2
  <2> QED BY <2>1, <2>2, <2>3, <1>1, <1>3
<1>7. ASSUME NEW i \in Keys, NEW j \in Keys, place'[i] = place'[j], place'[i] # 0
      PROVE  i = j
  <2>1. \A h \in Keys \ {k} : /\ place[h] # place[k]
                              /\ place'[h] < size
                              /\ place'[h] # 0 => place[h] # 0
                              /\ place'[h] >= place[k] <=> place[h] > place[k]
    <3> SUFFICES ASSUME NEW h \in Keys \ {k}
                 PROVE  /\ place[h] # place[k]
                        /\ place'[h] < size
                        /\ place'[h] # 0 => place[h] # 0
                        /\ place'[h] >= place[k] <=> place[h] > place[k]
      OBVIOUS
    <3>1. place[h] # place[k]
      BY DEF BoundedMap, Known
    <3>2. place[h] <= size /\ place[h] \in Nat
      BY <1>1 DEF BoundedMap
    <3> QED BY <3>1, <3>2, <1>1, <1>2, <1>3
  <2>2. place'[k] = size
    BY <1>2
  <2>3. CASE i = k \/ j = k
    BY <2>1, <2>2, <2>3, <1>7, <1>1, <1>4
  <2>4. CASE i # k /\ j # k
    <3>1. place[i] = place[j]
      BY <2>1, <2>4, <1>1, <1>2, <1>3, <1>7
    <3>2. place[i] # 0
      BY <2>1, <2>4, <1>7
    <3> QED BY <3>1, <3>2 DEF BoundedMap, Known
  <2> QED BY <2>3, <2>4
<1>8. Bound' = Bound
  BY DEF Bound
<1> QED BY <1>1, <1>4, <1>5, <1>6, <1>7, <1>8 DEF BoundedMap, Known

\* A check takes from a bucket what is in it and stamps it with the clock.
LEMMA ConsumeKeepsBuckets ==
  ASSUME IInv, NEW k \in Keys, Consume(k)
  PROVE  /\ tokens' \in [Keys -> 0 .. Full]
         /\ updated' \in [Keys -> Nat]
         /\ verdict' \in Keys \X BOOLEAN
         /\ \A j \in Keys : updated'[j] <= now
<1> DEFINE held == IF Known(k) THEN Refilled(k) ELSE Full
           allowed == held >= Unit
<1>1. held \in 0 .. Full
  BY RefillInRange, FullIsNat
<1>2. /\ tokens' = [tokens EXCEPT ![k] = IF allowed THEN held - Unit ELSE held]
      /\ updated' = [updated EXCEPT ![k] = now]
      /\ verdict' = <<k, allowed>>
  BY DEF Consume, Stamp
<1>3. allowed \in BOOLEAN
  OBVIOUS
<1> HIDE DEF held
<1>4. (IF allowed THEN held - Unit ELSE held) \in 0 .. Full
  BY <1>1, UnitIsPositive, FullIsNat
<1>5. tokens' \in [Keys -> 0 .. Full]
  BY <1>2, <1>4 DEF IInv, TypeOK
<1>6. updated' \in [Keys -> Nat] /\ \A j \in Keys : updated'[j] <= now
  BY <1>2 DEF IInv, TypeOK, StampedInThePast
<1> HIDE DEF allowed
<1>7. verdict' \in Keys \X BOOLEAN
  BY <1>2, <1>3
<1> QED BY <1>5, <1>6, <1>7

\* Buckets hold between nothing and their capacity, and the map lists at most
\* rate_limit_max_keys of them, each once (ratelimit.py:15-71).
THEOREM LimiterSafe == Spec => [](IInv /\ BoundedMap)
<1>1. Init => IInv /\ BoundedMap
  BY FullIsNat, MaxKeysIsNat, MaxTimeIsNat
  DEF Init, IInv, TypeOK, StampedInThePast, BoundedMap, Bound, Known
<1>2. IInv /\ BoundedMap /\ [Next]_vars => (IInv /\ BoundedMap)'
  <2> SUFFICES ASSUME IInv, BoundedMap, [Next]_vars
               PROVE  IInv' /\ BoundedMap'
    OBVIOUS
  <2>1. CASE Tick
    <3>1. now' = now + 1 /\ now' \in Nat
      BY <2>1 DEF Tick, IInv, TypeOK
    <3>2. UNCHANGED <<size, place, tokens, updated, verdict, since, from, passed>>
      BY <2>1 DEF Tick, bucket, history
    <3>3. \A k \in Keys : updated[k] <= now + 1
      BY DEF IInv, TypeOK, StampedInThePast
    <3>4. TypeOK' /\ StampedInThePast'
      BY <3>1, <3>2, <3>3 DEF IInv, TypeOK, StampedInThePast, Full
    <3>5. BoundedMap'
      BY <3>2 DEF BoundedMap, Known, Bound
    <3> QED BY <3>4, <3>5 DEF IInv
  <2>2. ASSUME NEW k \in Keys, Check(k) PROVE IInv' /\ BoundedMap'
    <3>1. BoundedMap' /\ size' \in Nat /\ place' \in [Keys -> Nat]
      BY <2>2, InsertKeepsList, MoveKeepsList DEF Check, IInv
    <3>2. Consume(k) /\ now' = now
      BY <2>2 DEF Check
    <3>3. Record(k)
      BY <2>2 DEF Check
    <3>4. since' \in [Keys -> SUBSET Keys] /\ from' = from /\ passed' \in [Keys -> Nat]
      <4>1. \A j \in Keys : passed[j] + 1 \in Nat /\ passed[j] \in Nat
        BY DEF IInv, TypeOK
      <4>2. since' \in [Keys -> SUBSET Keys] /\ from' = from
        BY <3>3 DEF Record, IInv, TypeOK
      <4> QED
        BY <3>3, <4>1, <4>2 DEF Record
    <3>5. /\ tokens' \in [Keys -> 0 .. Full]
          /\ updated' \in [Keys -> Nat]
          /\ verdict' \in Keys \X BOOLEAN
          /\ \A j \in Keys : updated'[j] <= now
      BY <3>2, ConsumeKeepsBuckets
    <3>6. TypeOK' /\ StampedInThePast'
      BY <3>1, <3>2, <3>4, <3>5 DEF IInv, TypeOK, StampedInThePast, Full
    <3> QED BY <3>1, <3>6 DEF IInv
  <2>3. CASE UNCHANGED vars
    BY <2>3 DEF vars, bucket, history, IInv, TypeOK, StampedInThePast, BoundedMap, Known, Bound, Full
  <2> QED BY <2>1, <2>2, <2>3 DEF Next
<1> QED BY <1>1, <1>2, PTL DEF Spec

\* Buckets hold between nothing and their capacity (ratelimit.py:24-32).
THEOREM TypeCorrect == Spec => []TypeOK
<1>1. IInv => TypeOK
  BY DEF IInv
<1> QED BY <1>1, LimiterSafe, PTL

\* The map never outgrows rate_limit_max_keys (ratelimit.py:51-71).
THEOREM MapBounded == Spec => []BoundedMap
BY LimiterSafe, PTL

-----------------------------------------------------------------------------
(* Who loses its bucket *)

\* The keys behind k were all checked since k was.
Behind(k) == {j \in Keys : place[j] > place[k]}

Fresher == \A k \in Keys :
  /\ IsFiniteSet(since[k])
  /\ Known(k) => Behind(k) \subseteq since[k]

\* As many keys are behind k as there are positions.
LEMMA CountBehind ==
  ASSUME TypeOK, BoundedMap, NEW k \in Keys, Known(k)
  PROVE  IsFiniteSet(Behind(k)) /\ Cardinality(Behind(k)) = size - place[k]
<1> DEFINE S == 1 .. size - place[k]
           f == [j \in Behind(k) |-> place[j] - place[k]]
<1>1. size \in Nat /\ place \in [Keys -> Nat] /\ place[k] \in 1 .. size
  BY DEF TypeOK, BoundedMap, Known
<1>2. ASSUME NEW j \in Behind(k) PROVE j \in Keys /\ f[j] \in S /\ f[j] = place[j] - place[k]
  BY <1>1 DEF Behind, BoundedMap
<1>3. f \in [Behind(k) -> S]
  BY <1>2
<1>4. ASSUME NEW i \in Behind(k), NEW j \in Behind(k), f[i] = f[j] PROVE i = j
  <2>1. place[i] = place[j] /\ place[i] # 0
    BY <1>1, <1>2, <1>4 DEF Behind
  <2> QED
    BY <1>2, <2>1 DEF BoundedMap, Known
<1>5. ASSUME NEW n \in S PROVE \E j \in Behind(k) : f[j] = n
  <2>1. n + place[k] \in 1 .. size
    BY <1>1
  <2>2. PICK j \in Keys : place[j] = n + place[k]
    BY <2>1 DEF BoundedMap
  <2>3. j \in Behind(k)
    BY <1>1, <2>2 DEF Behind
  <2> QED
    BY <1>1, <1>2, <2>2, <2>3
<1>6. f \in Bijection(Behind(k), S)
  <2> HIDE DEF f, S
  <2> QED
    BY <1>3, <1>4, <1>5, Fun_IsBij
<1>7. ExistsBijection(Behind(k), S) /\ IsFiniteSet(S) /\ Cardinality(S) = size - place[k]
  <2>1. IsFiniteSet(S) /\ Cardinality(S) = size - place[k]
    <3>1. 1 \in Int /\ size - place[k] \in Nat
      BY <1>1
    <3>2. IsFiniteSet(S) /\ Cardinality(S) = IF 1 > size - place[k] THEN 0 ELSE (size - place[k]) - 1 + 1
      BY <3>1, FS_Interval
    <3> HIDE DEF S
    <3> QED
      BY <3>1, <3>2
  <2>2. ExistsBijection(Behind(k), S)
    <3> HIDE DEF f, S
    <3> QED
      BY <1>6, Fun_ExistsBij
  <2> QED
    BY <2>1, <2>2
<1>8. ExistsBijection(S, Behind(k))
  <2> HIDE DEF S
  <2> QED
    BY <1>7, Fun_ExistsBijSymmetric
<1> QED
  <2> HIDE DEF S
  <2> QED
    BY <1>7, <1>8, FS_Bijection

\* A check puts its key behind all the others, and the others keep their order.
LEMMA FresherStep ==
  ASSUME IInv, BoundedMap, Fresher, [Next]_vars
  PROVE  Fresher'
<1>1. CASE Tick \/ UNCHANGED vars
  BY <1>1 DEF Tick, vars, bucket, history, Fresher, Behind, Known
<1>2. ASSUME NEW k \in Keys, Check(k) PROVE Fresher'
  <2>1. since' = [j \in Keys |-> IF j = k THEN {} ELSE since[j] \cup {k}]
    BY <1>2 DEF Check, Record
  <2>2. ASSUME NEW j \in Keys PROVE IsFiniteSet(since'[j])
    BY <2>1, FS_EmptySet, FS_AddElement DEF Fresher
  <2>3. size \in Nat /\ place \in [Keys -> Nat] /\ Excess \in Nat /\ Excess <= size
    BY RoomForOne DEF IInv, TypeOK
  <2>4. ASSUME NEW j \in Keys, Known(j)' PROVE Behind(j)' \subseteq since'[j]
    <3>1. CASE j = k
      <4>1. \A i \in Keys : place'[i] <= place'[k]
        <5>1. CASE ~Known(k) /\ Insert(k)
          BY <5>1, <2>3 DEF Insert, BoundedMap
        <5>2. CASE Known(k) /\ MoveToEnd(k)
          BY <5>2, <2>3 DEF MoveToEnd, BoundedMap
        <5> QED
          BY <1>2, <5>1, <5>2 DEF Check
      <4>2. place' \in [Keys -> Nat]
        BY <1>2, InsertKeepsList, MoveKeepsList DEF Check, IInv
      <4> QED
        BY <3>1, <4>1, <4>2 DEF Behind
    <3>2. CASE j # k
      <4>1. Known(j) /\ \A i \in Keys \ {k} : place'[i] > place'[j] => place[i] > place[j]
        <5>1. CASE ~Known(k) /\ Insert(k)
          BY <5>1, <3>2, <2>3, <2>4 DEF Insert, Known
        <5>2. CASE Known(k) /\ MoveToEnd(k)
          BY <5>2, <3>2, <2>3, <2>4 DEF MoveToEnd, Known, BoundedMap
        <5> QED
          BY <1>2, <5>1, <5>2 DEF Check
      <4> QED
        BY <3>2, <4>1, <2>1 DEF Fresher, Behind
    <3> QED
      BY <3>1, <3>2
  <2> QED
    BY <2>2, <2>4 DEF Fresher
<1> QED
  BY <1>1, <1>2 DEF Next

\* A key that is dropped has all the others behind it, and the newcomer.
LEMMA DroppedIsCold ==
  ASSUME IInv, BoundedMap, Fresher, Fresher', NEW n \in Keys, Check(n),
         NEW k \in Keys, Known(k), ~Known(k)'
  PROVE  Cardinality(since'[k]) >= MaxKeys
<1>1. size \in Nat /\ place \in [Keys -> Nat] /\ Excess \in Nat /\ Excess <= size /\ place[k] \in 1 .. size
  <2>1. Excess \in Nat /\ Excess <= size
    BY RoomForOne DEF IInv
  <2>2. size \in Nat /\ place \in [Keys -> Nat]
    BY DEF IInv, TypeOK
  <2>3. place[k] \in 1 .. size
    BY <2>2 DEF Known, BoundedMap
  <2> QED
    BY <2>1, <2>2, <2>3
<1>2. ~Known(n) /\ Insert(n)
  <2>1. CASE Known(n) /\ MoveToEnd(n)
    BY <2>1, <1>1 DEF MoveToEnd, Known, BoundedMap
  <2> QED
    BY <2>1 DEF Check
<1>3. n # k /\ place[k] <= Excess
  BY <1>1, <1>2 DEF Insert, Known
<1>4. size - place[k] + 1 >= MaxKeys
  BY <1>1, <1>3, MaxKeysIsNat DEF Excess
<1>5. IsFiniteSet(Behind(k)) /\ Cardinality(Behind(k)) = size - place[k]
  BY CountBehind DEF IInv
<1>6. n \notin Behind(k)
  BY <1>1, <1>2 DEF Behind, Known
<1>7. IsFiniteSet(Behind(k) \cup {n}) /\ Cardinality(Behind(k) \cup {n}) = size - place[k] + 1
  BY <1>5, <1>6, FS_AddElement
<1>8. Behind(k) \cup {n} \subseteq since'[k] /\ IsFiniteSet(since'[k])
  BY <1>3 DEF Check, Record, Fresher
<1>9. Cardinality(Behind(k) \cup {n}) <= Cardinality(since'[k]) /\ Cardinality(since'[k]) \in Nat
  BY <1>8, FS_Subset, FS_CardinalityType
<1> QED
  BY <1>1, <1>4, <1>7, <1>9, MaxKeysIsNat

\* A bucket goes only when as many other callers as the map holds were checked
\* since (ratelimit.py:39-45).
THEOREM ColdestGoes == Spec => OnlyTheColdestGoes
<1>1. Init => Fresher
  BY FS_EmptySet DEF Init, Fresher, Known
<1>2. IInv /\ BoundedMap /\ Fresher /\ [Next]_vars => Fresher'
  BY FresherStep
<1>3. IInv /\ BoundedMap /\ Fresher /\ Fresher' /\ [Next]_vars =>
        [\A k \in Keys : Known(k) /\ ~Known(k)' => Cardinality(since'[k]) >= MaxKeys]_vars
  <2> SUFFICES ASSUME IInv, BoundedMap, Fresher, Fresher', Next,
                      NEW k \in Keys, Known(k), ~Known(k)'
               PROVE  Cardinality(since'[k]) >= MaxKeys
    OBVIOUS
  <2>1. ~Tick
    BY DEF Tick, Known
  <2>2. PICK n \in Keys : Check(n)
    BY <2>1 DEF Next
  <2> QED
    BY <2>2, DroppedIsCold
<1> QED
  BY <1>1, <1>2, <1>3, LimiterSafe, PTL DEF Spec, OnlyTheColdestGoes

-----------------------------------------------------------------------------
(* What a caller gets *)

\* Since tick `from` a bucket has let through and still holds no more than a
\* full one and the time up to its latest check have paid for; before that
\* check, and in a bucket that is not there, nothing was counted.
Paid == \A k \in Keys :
  IF ~Known(k) \/ updated[k] < from
    THEN passed[k] = 0
    ELSE passed[k] * Unit + tokens[k] <= Full + (updated[k] - from) * Rate

\* Time paid out in two parts is paid out once.
LEMMA PaidOnce == \A m, n \in Nat :
  m * Rate \in Nat /\ n * Rate \in Nat /\ (m + n) * Rate = m * Rate + n * Rate
BY RateIsNat

\* The time since tick from, up to k's latest check and from there.
LEMMA TimeSplits ==
  ASSUME IInv, NEW k \in Keys, from <= updated[k]
  PROVE  /\ (updated[k] - from) * Rate \in Nat
         /\ (now - updated[k]) * Rate \in Nat
         /\ (now - from) * Rate = (updated[k] - from) * Rate + (now - updated[k]) * Rate
<1> DEFINE before == updated[k] - from
           after == now - updated[k]
<1>1. before \in Nat /\ after \in Nat /\ now - from = before + after
  BY MaxTimeIsNat DEF IInv, TypeOK, StampedInThePast
<1> HIDE DEF before, after
<1>2. /\ before * Rate \in Nat /\ after * Rate \in Nat
      /\ (before + after) * Rate = before * Rate + after * Rate
  BY <1>1, PaidOnce
<1> QED
  BY <1>1, <1>2 DEF before, after

\* One pass more costs one Unit more.
LEMMA OneMore == \A n \in Nat : n * Unit \in Nat /\ (n + 1) * Unit = n * Unit + Unit
BY UnitIsPositive

\* A check takes from the bucket what it lets through.
LEMMA PaidStep ==
  ASSUME IInv, BoundedMap, Paid, NEW k \in Keys, Check(k)
  PROVE  Paid'
<1> DEFINE held == IF Known(k) THEN Refilled(k) ELSE Full
           allowed == held >= Unit
           Fine(j) == IF ~Known(j)' \/ updated'[j] < from
                        THEN passed'[j] = 0
                        ELSE passed'[j] * Unit + tokens'[j] <= Full + (updated'[j] - from) * Rate
<1>1. /\ tokens' = [tokens EXCEPT ![k] = IF allowed THEN held - Unit ELSE held]
      /\ updated' = [updated EXCEPT ![k] = now]
      /\ verdict' = <<k, allowed>>
  BY DEF Check, Consume, Stamp
<1>2. /\ passed' = [j \in Keys |-> IF ~Known(j)' THEN 0 ELSE
                                  IF verdict' = <<j, TRUE>> /\ from <= now
                                    THEN passed[j] + 1 ELSE passed[j]]
      /\ from' = from /\ now' = now
  BY DEF Check, Record
<1>3. held \in 0 .. Full
  BY RefillInRange, FullIsNat
<1>4. Known(k)' /\ \A j \in Keys \ {k} : Known(j)' => Known(j)
  <2>1. size \in Nat /\ place \in [Keys -> Nat] /\ Excess \in Nat /\ Excess <= size
    BY RoomForOne DEF IInv, TypeOK
  <2>2. CASE ~Known(k) /\ Insert(k)
    BY <2>1, <2>2 DEF Insert, Known
  <2>3. CASE Known(k) /\ MoveToEnd(k)
    BY <2>1, <2>3 DEF MoveToEnd, Known, BoundedMap
  <2> QED
    BY <2>2, <2>3 DEF Check
<1>5. ASSUME NEW j \in Keys, j # k PROVE Fine(j)
  <2>1. updated'[j] = updated[j] /\ tokens'[j] = tokens[j]
    <3> HIDE DEF held, allowed
    <3> QED
      BY <1>1, <1>5 DEF IInv, TypeOK
  <2>2. passed'[j] = IF ~Known(j)' THEN 0 ELSE passed[j]
    <3> HIDE DEF held, allowed
    <3> QED
      BY <1>1, <1>2, <1>5
  <2>3. CASE ~Known(j)'
    BY <2>2, <2>3
  <2>4. CASE Known(j)'
    <3>1. Known(j)
      BY <1>4, <1>5, <2>4
    <3> QED
      BY <2>1, <2>2, <2>4, <3>1 DEF Paid
  <2> QED
    BY <2>3, <2>4
<1>6. /\ updated'[k] = now
      /\ tokens'[k] = IF allowed THEN held - Unit ELSE held
      /\ passed'[k] = IF allowed /\ from <= now THEN passed[k] + 1 ELSE passed[k]
  <2>1. (verdict' = <<k, TRUE>>) <=> allowed
    BY <1>1
  <2> HIDE DEF held, allowed
  <2> QED
    BY <1>1, <1>2, <1>4, <2>1 DEF IInv, TypeOK
<1>7. /\ from \in Nat /\ now \in Nat /\ updated[k] \in Nat /\ updated[k] <= now
      /\ passed[k] \in Nat /\ tokens[k] \in Nat
  BY FullIsNat, MaxTimeIsNat DEF IInv, TypeOK, StampedInThePast
<1>8. ASSUME now < from PROVE Fine(k)
  BY <1>6, <1>7, <1>8 DEF Paid
<1>9. ASSUME from <= now PROVE Fine(k)
  <2>1. passed[k] * Unit + held <= Full + (now - from) * Rate
    <3>1. (now - from) * Rate \in Nat
      BY <1>7, <1>9, RateIsNat
    <3>2. CASE ~Known(k) \/ updated[k] < from
      <4>1. passed[k] * Unit = 0
        BY <3>2, UnitIsPositive DEF Paid
      <4> HIDE DEF held
      <4> QED
        BY <3>1, <4>1, <1>3, FullIsNat
    <3>3. CASE Known(k) /\ from <= updated[k]
      <4> DEFINE earned == (now - updated[k]) * Rate
                 before == (updated[k] - from) * Rate
      <4>1. earned \in Nat /\ before \in Nat /\ (now - from) * Rate = before + earned
        BY <3>3, TimeSplits
      <4>2. held <= tokens[k] + earned
        <5>1. held = Capped(tokens[k] + earned)
          BY <3>3 DEF Refilled
        <5> HIDE DEF earned, held
        <5> QED
          BY <5>1, <4>1, <1>7, FullIsNat DEF Capped
      <4>3. passed[k] * Unit + tokens[k] <= Full + before
        BY <3>3, <1>7 DEF Paid
      <4>4. passed[k] * Unit \in Nat
        BY <1>7, OneMore
      <4> DEFINE spent == passed[k] * Unit
      <4> HIDE DEF earned, before, held, spent
      <4> QED
        BY <4>1, <4>2, <4>3, <4>4, <1>3, <1>7, FullIsNat DEF spent
    <3> QED
      BY <3>2, <3>3, <1>7
  <2>2. passed'[k] * Unit + tokens'[k] = passed[k] * Unit + held
    <3>1. CASE allowed
      <4>1. passed'[k] = passed[k] + 1 /\ tokens'[k] = held - Unit
        BY <3>1, <1>6, <1>9
      <4>2. passed'[k] * Unit = passed[k] * Unit + Unit /\ passed[k] * Unit \in Nat
        BY <4>1, <1>7, OneMore
      <4> HIDE DEF held
      <4> QED
        BY <4>1, <4>2, <1>3, FullIsNat, UnitIsPositive
    <3>2. CASE ~allowed
      BY <3>2, <1>6
    <3> QED
      BY <3>1, <3>2
  <2> HIDE DEF held, allowed
  <2> QED
    BY <2>1, <2>2, <1>4, <1>6, <1>7, <1>9
<1>10. \A j \in Keys : Fine(j)
  <2> HIDE DEF Fine
  <2> QED
    BY <1>5, <1>7, <1>8, <1>9
<1> QED
  BY <1>2, <1>10 DEF Paid, Known, Full

\* From any tick on, no caller gets through more than the burst and what the
\* rate brings back in that time (ratelimit.py:24-32).
THEOREM RateKept == Spec => []RateIsKept
<1>1. Init => Paid
  BY FullIsNat DEF Init, Paid, Known
<1>2. IInv /\ BoundedMap /\ Paid /\ [Next]_vars => Paid'
  <2>1. ASSUME Paid, Tick \/ UNCHANGED vars PROVE Paid'
    BY <2>1 DEF Tick, vars, bucket, history, Paid, Known, Full
  <2> QED
    BY <2>1, PaidStep DEF Next
<1>3. IInv /\ Paid => RateIsKept
  <2> SUFFICES ASSUME IInv, Paid, from <= now, NEW k \in Keys
               PROVE  passed[k] * Unit <= Full + (now - from) * Rate
    BY DEF RateIsKept
  <2>1. /\ from \in Nat /\ now \in Nat /\ updated[k] \in Nat /\ updated[k] <= now
        /\ passed[k] \in Nat /\ tokens[k] \in Nat
    BY FullIsNat, MaxTimeIsNat DEF IInv, TypeOK, StampedInThePast
  <2>2. (now - from) * Rate \in Nat /\ passed[k] * Unit \in Nat
    BY <2>1, RateIsNat, OneMore
  <2>3. CASE ~Known(k) \/ updated[k] < from
    BY <2>2, <2>3, FullIsNat, UnitIsPositive DEF Paid
  <2>4. CASE Known(k) /\ from <= updated[k]
    <3> DEFINE before == (updated[k] - from) * Rate
    <3>1. before \in Nat /\ before <= (now - from) * Rate
      <4> DEFINE later == (now - updated[k]) * Rate
      <4>1. /\ before \in Nat /\ later \in Nat
            /\ (now - from) * Rate = before + later
        BY <2>4, TimeSplits
      <4> HIDE DEF before, later
      <4> QED
        BY <4>1
    <3>2. passed[k] * Unit + tokens[k] <= Full + before
      BY <2>1, <2>4 DEF Paid
    <3> DEFINE spent == passed[k] * Unit
               whole == (now - from) * Rate
    <3>3. spent \in Nat /\ whole \in Nat
      BY <2>2
    <3> HIDE DEF before, spent, whole
    <3> QED
      BY <3>1, <3>2, <3>3, <2>1, FullIsNat DEF spent, whole
  <2> QED
    BY <2>1, <2>3, <2>4
<1> QED
  BY <1>1, <1>2, <1>3, LimiterSafe, PTL DEF Spec

-----------------------------------------------------------------------------
(* The refinement *)

\* What caller k can spend now.
Level(k) == IF Known(k) THEN Refilled(k) ELSE Full

\* A cap of a cap: time may be paid out tick by tick or all at once.
LEMMA CappedTwice ==
  ASSUME NEW m \in Nat, NEW n \in Nat
  PROVE  Capped(Capped(m) + n) = Capped(m + n)
BY FullIsNat DEF Capped

\* A tick brings Rate parts back to every caller.
LEMMA TickRefills ==
  ASSUME IInv, Tick, NEW k \in Keys
  PROVE  Level(k)' = Capped(Level(k) + Rate)
<1> DEFINE past == now - updated[k]
<1>1. past \in Nat /\ tokens[k] \in Nat
  BY FullIsNat DEF IInv, TypeOK, StampedInThePast
<1>2. past * Rate \in Nat /\ (past + 1) * Rate = past * Rate + Rate
  BY <1>1, RateIsNat
<1>3. now' - updated'[k] = past + 1 /\ tokens'[k] = tokens[k] /\ Known(k)' = Known(k)
  BY DEF Tick, bucket, IInv, TypeOK, StampedInThePast, Known
<1>4. Refilled(k)' = Capped(tokens[k] + (past + 1) * Rate)
  BY <1>3 DEF Refilled, Capped, Full
<1>5. Refilled(k) = Capped(tokens[k] + past * Rate)
  BY DEF Refilled
<1> HIDE DEF past
<1>6. Refilled(k)' = Capped(Refilled(k) + Rate)
  <2>1. tokens[k] + (past + 1) * Rate = (tokens[k] + past * Rate) + Rate
    BY <1>1, <1>2, RateIsNat
  <2>2. tokens[k] + past * Rate \in Nat
    BY <1>1, <1>2
  <2> DEFINE m == tokens[k] + past * Rate
  <2>3. Capped(Capped(m) + Rate) = Capped(m + Rate)
    <3> HIDE DEF m
    <3>1. m \in Nat => Capped(Capped(m) + Rate) = Capped(m + Rate)
      BY RateIsNat, CappedTwice
    <3> QED
      BY <3>1, <2>2 DEF m
  <2> QED
    BY <2>1, <2>3, <1>4, <1>5
<1>7. Full' = Capped(Full + Rate)
  BY FullIsNat, RateIsNat DEF Capped, Full
<1> QED
  BY <1>3, <1>6, <1>7 DEF Level

\* The callers whose buckets make room for k.
Evicted(k) == {j \in Keys \ {k} : Known(j) /\ ~Known(j)'}

\* What a check of k leaves each caller.
LEMMA CheckSpends ==
  ASSUME IInv, BoundedMap, NEW k \in Keys, Check(k)
  PROVE  /\ verdict' = <<k, Level(k) >= Unit>>
         /\ Level(k)' = IF Level(k) >= Unit THEN Level(k) - Unit ELSE Level(k)
         /\ \A j \in Evicted(k) : Level(j)' = Full
         /\ \A j \in Keys \ (Evicted(k) \cup {k}) : Level(j)' = Level(j)
<1> DEFINE held == Level(k)
           left == IF held >= Unit THEN held - Unit ELSE held
<1>1. /\ verdict' = <<k, held >= Unit>>
      /\ tokens' = [tokens EXCEPT ![k] = left]
      /\ updated' = [updated EXCEPT ![k] = now]
      /\ now' = now
  BY DEF Check, Consume, Level, Stamp
<1>2. held \in 0 .. Full
  BY RefillInRange, FullIsNat DEF Level
<1>3. left \in 0 .. Full
  <2> HIDE DEF held
  <2> QED
    BY <1>2, UnitIsPositive, FullIsNat
<1>4. Known(k)' /\ \A j \in Keys \ {k} : Known(j)' => Known(j)
  <2>1. size \in Nat /\ place \in [Keys -> Nat] /\ Excess \in Nat /\ Excess <= size
    BY RoomForOne DEF IInv, TypeOK
  <2>2. CASE ~Known(k) /\ Insert(k)
    BY <2>1, <2>2 DEF Insert, Known
  <2>3. CASE Known(k) /\ MoveToEnd(k)
    BY <2>1, <2>3 DEF MoveToEnd, Known, BoundedMap
  <2> QED
    BY <2>2, <2>3 DEF Check
<1>5. Level(k)' = left
  <2>1. tokens'[k] = left /\ now' - updated'[k] = 0
    <3> HIDE DEF left
    <3> QED
      BY <1>1 DEF IInv, TypeOK
  <2>2. Refilled(k)' = Capped(left + 0 * Rate)
    <3> HIDE DEF left
    <3> QED
      BY <2>1 DEF Refilled, Capped, Full
  <2>3. Capped(left + 0 * Rate) = left
    <3> HIDE DEF left
    <3> QED
      BY <1>3, RateIsNat, FullIsNat DEF Capped
  <2> QED
    BY <1>4, <2>2, <2>3 DEF Level
<1>6. ASSUME NEW j \in Evicted(k) PROVE Level(j)' = Full
  BY <1>6 DEF Evicted, Level, Full
<1>7. ASSUME NEW j \in Keys \ (Evicted(k) \cup {k}) PROVE Level(j)' = Level(j)
  <2>1. Known(j)' <=> Known(j)
    BY <1>4, <1>7 DEF Evicted, Known
  <2>2. tokens'[j] = tokens[j] /\ updated'[j] = updated[j] /\ now' = now
    <3> HIDE DEF left
    <3> QED
      BY <1>1 DEF IInv, TypeOK
  <2> QED
    BY <2>1, <2>2 DEF Level, Refilled, Capped, Full
<1> QED
  BY <1>1, <1>5, <1>6, <1>7

\* One bucket at most makes room, and none where there is room for all.
LEMMA EvictedFew ==
  ASSUME IsFiniteSet(Keys), IInv, BoundedMap, NEW k \in Keys, Check(k)
  PROVE  Cardinality(Evicted(k)) <= IF Cardinality(Keys) > MaxKeys THEN 1 ELSE 0
<1>1. size \in Nat /\ place \in [Keys -> Nat] /\ Excess \in Nat /\ Excess <= size /\ size <= Bound
  BY RoomForOne DEF IInv, TypeOK, BoundedMap
<1>2. Cardinality({}) = 0
  BY FS_EmptySet
<1>3. CASE Evicted(k) = {}
  BY <1>2, <1>3
<1>4. CASE Evicted(k) # {}
  <2>1. PICK j : j \in Evicted(k)
    BY <1>4
  <2>2. ~Known(k) /\ Insert(k)
    <3>1. CASE Known(k) /\ MoveToEnd(k)
      BY <3>1, <2>1, <1>1 DEF MoveToEnd, Known, BoundedMap, Evicted
    <3> QED
      BY <3>1 DEF Check
  <2>3. Excess <= 1
    BY <1>1, MaxKeysIsNat DEF Excess, Bound
  <2>4. \A i \in Evicted(k) : i \in Keys /\ Known(i) /\ place[i] = 1
    BY <1>1, <2>2, <2>3 DEF Insert, Known, Evicted
  <2>5. Evicted(k) = {j}
    BY <2>1, <2>4 DEF BoundedMap, Known
  <2>6. Cardinality(Evicted(k)) = 1
    BY <2>5, FS_Singleton
  <2>7. Excess = 1 /\ size >= MaxKeys
    <3>1. Excess = 1
      BY <1>1, <2>1, <2>2, <2>3, <2>4 DEF Insert, Known, Evicted
    <3> QED
      BY <3>1, <1>1, MaxKeysIsNat DEF Excess
  <2>8. Cardinality(Keys) > MaxKeys
    <3>1. j \in Keys /\ Known(j) /\ place[j] = 1
      BY <2>1, <2>4
    <3>2. IsFiniteSet(Behind(j)) /\ Cardinality(Behind(j)) = size - 1
      BY <3>1, CountBehind DEF IInv
    <3>3. j \notin Behind(j) /\ k \notin Behind(j) \cup {j}
      BY <3>1, <2>2, <1>1 DEF Behind, Known
    <3>4. IsFiniteSet(Behind(j) \cup {j}) /\ Cardinality(Behind(j) \cup {j}) = size
      <4>1. Cardinality(Behind(j) \cup {j}) = (size - 1) + 1
        BY <3>2, <3>3, FS_AddElement
      <4> QED
        BY <4>1, <3>2, <1>1, FS_AddElement
    <3>5. Cardinality((Behind(j) \cup {j}) \cup {k}) = size + 1
      BY <3>3, <3>4, FS_AddElement
    <3>6. (Behind(j) \cup {j}) \cup {k} \subseteq Keys
      BY <3>1 DEF Behind
    <3>7. Cardinality((Behind(j) \cup {j}) \cup {k}) <= Cardinality(Keys) /\ Cardinality(Keys) \in Nat
      BY <3>6, FS_Subset, FS_CardinalityType
    <3> QED
      BY <3>5, <3>7, <2>7, <1>1, MaxKeysIsNat
  <2> QED
    BY <2>6, <2>8
<1> QED
  BY <1>3, <1>4

\* The map, its order and the lazy refill cannot be told from a bucket for each
\* caller that refills all the time (ratelimit.py:24-32, 57-71).
THEOREM Implementation == IsFiniteSet(Keys) => (Spec => ImplementsLimiter)
<1> SUFFICES ASSUME IsFiniteSet(Keys) PROVE Spec => ImplementsLimiter
  OBVIOUS
<1> DEFINE lev == [k \in Keys |-> Level(k)]
<1>1. Init => Lim!Init
  BY DEF Init, Lim!Init, Known, Full, Lim!Full
<1>2. IInv /\ BoundedMap /\ [Next]_vars => [Lim!Next]_(Lim!vars)
  <2> SUFFICES ASSUME IInv, BoundedMap, [Next]_vars PROVE [Lim!Next]_(Lim!vars)
    OBVIOUS
  <2>1. CASE Tick
    <3>1. lev' = [k \in Keys |-> Lim!Capped(lev[k] + Rate)]
      <4>1. \A k \in Keys : Level(k)' = Lim!Capped(Level(k) + Rate)
        BY <2>1, TickRefills DEF Capped, Full, Lim!Capped, Lim!Full
      <4> QED
        BY <4>1
    <3>2. verdict' = verdict
      BY <2>1 DEF Tick
    <3>3. Lim!Pass
      BY <3>1, <3>2 DEF Lim!Pass, Level
    <3> QED
      BY <3>3 DEF Lim!Next
  <2>2. ASSUME NEW k \in Keys, Check(k) PROVE Lim!Decide(k)
    <3>1. Evicted(k) \in SUBSET (Keys \ {k})
      BY DEF Evicted
    <3>2. Cardinality(Evicted(k)) <= IF Cardinality(Keys) > MaxKeys THEN 1 ELSE 0
      BY <2>2, EvictedFew
    <3>3. lev' = [j \in Keys |-> CASE j \in Evicted(k) -> Lim!Full
                                    [] j = k /\ lev[k] >= Unit -> lev[k] - Unit
                                    [] OTHER -> lev[j]]
      <4>1. ASSUME NEW j \in Keys
            PROVE  Level(j)' = CASE j \in Evicted(k) -> Lim!Full
                                 [] j = k /\ lev[k] >= Unit -> lev[k] - Unit
                                 [] OTHER -> lev[j]
        <5>1. CASE j \in Evicted(k)
          <6>1. j # k
            BY <5>1 DEF Evicted
          <6> QED
            BY <5>1, <6>1, <2>2, CheckSpends DEF Full, Lim!Full
        <5>2. CASE j = k
          <6>1. j \notin Evicted(k)
            BY <5>2 DEF Evicted
          <6> QED
            BY <5>2, <6>1, <2>2, CheckSpends
        <5>3. CASE j \notin Evicted(k) /\ j # k
          BY <5>3, <2>2, CheckSpends
        <5> QED
          BY <5>1, <5>2, <5>3
      <4> QED
        BY <4>1
    <3>4. verdict' = <<k, lev[k] >= Unit>>
      BY <2>2, CheckSpends
    <3>5. \A S : Lim!Cardinality(S) = Cardinality(S)
      BY DEF Lim!Cardinality, Cardinality
    <3> QED
      BY <3>1, <3>2, <3>3, <3>4, <3>5 DEF Lim!Decide, Level
  <2>3. CASE UNCHANGED vars
    BY <2>3 DEF vars, bucket, history, Lim!vars, Known, Refilled, Capped, Full
  <2> QED
    BY <2>1, <2>2, <2>3 DEF Next, Lim!Next
<1> QED
  BY <1>1, <1>2, LimiterSafe, PTL DEF Spec, Lim!Spec, ImplementsLimiter

=============================================================================
