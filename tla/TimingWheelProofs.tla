------------------------- MODULE TimingWheelProofs -------------------------
(***************************************************************************)
(* Proofs about the timing wheel, for every size of the wheel, every       *)
(* number of scheduled keys, and any lag of the sweeper.                   *)
(***************************************************************************)
EXTENDS TimingWheel, StoreProofs

(***************************************************************************)
(* A second whose bucket comes up at tick c, and that is less than a turn  *)
(* ahead of it, is not after c.                                            *)
(***************************************************************************)
LEMMA SameBucket ==
  ASSUME NEW c \in Nat, NEW d \in Nat, d < c + WHEEL_SIZE, d % WHEEL_SIZE = c % WHEEL_SIZE
  PROVE  d <= c
<1>1. WHEEL_SIZE \in Nat /\ WHEEL_SIZE > 0
  BY WheelAssumption
<1> DEFINE q == c \div WHEEL_SIZE
           p == d \div WHEEL_SIZE
           r == c % WHEEL_SIZE
<1>2. q \in Int /\ p \in Int /\ r \in Int
  BY <1>1
<1>3. c = WHEEL_SIZE * q + r
  BY <1>1
<1>4. d = WHEEL_SIZE * p + r
  BY <1>1
<1> HIDE DEF q, p, r
<1>5. WHEEL_SIZE * p < WHEEL_SIZE * q + WHEEL_SIZE
  BY <1>1, <1>2, <1>3, <1>4
<1>6. p <= q
  BY <1>1, <1>2, <1>5
<1>7. WHEEL_SIZE * p <= WHEEL_SIZE * q
  BY <1>1, <1>2, <1>6
<1> QED
  BY <1>1, <1>2, <1>3, <1>4, <1>7

LEMMA BucketOfSecond == ASSUME NEW d \in Nat PROVE d % WHEEL_SIZE \in Bucket
  BY WheelAssumption DEF Bucket
-----------------------------------------------------------------------------
(***************************************************************************)
(* The wheel never turns faster than time passes, and the sweeper is done  *)
(* with a bucket before it takes the next.                                 *)
(***************************************************************************)
WheelControl ==
  /\ sweeper = "sleep" => current_tick <= asleep_since
  /\ sweeper = "advance" => current_tick < now
  /\ sweeper \notin {"visit", "log"} => expired = <<>>
  /\ sweeper = "log" => expired # <<>>

WheelTypeInv == TypeOK /\ WheelTypeOK /\ WheelControl

LEMMA InitWheelTypeInv == WheelInit => WheelTypeInv
<1> SUFFICES ASSUME WheelInit PROVE WheelTypeInv
  OBVIOUS
<1>1. TypeOK /\ now = 0
  BY InitTypeOK DEF WheelInit, Init
<1>2. <<>> \in Seq(Keys) /\ 0 \in 0 .. now
  BY <1>1, EmptySeq
<1>3. WheelTypeOK
  BY <1>2 DEF WheelInit, WheelTypeOK
<1> QED
  BY <1>1, <1>3 DEF WheelInit, WheelTypeInv, WheelControl

LEMMA NextWheelTypeInv == WheelTypeInv /\ [WheelNext]_allVars => WheelTypeInv'
<1> SUFFICES ASSUME WheelTypeInv, [WheelNext]_allVars PROVE WheelTypeInv'
  OBVIOUS
<1> USE DEF WheelTypeInv
<1>1. /\ now \in Nat /\ current_tick \in Nat /\ asleep_since \in Nat
      /\ current_tick <= now /\ asleep_since <= now
  BY DEF TypeOK, WheelTypeOK
<1>2. ASSUME NEW k \in Keys, Forget(k)
      PROVE  due' \in [Keys -> Nat \cup {None}] /\ beyond' \subseteq Keys
  BY <1>2 DEF Forget, WheelTypeOK
<1>3. ASSUME NEW k \in Keys, NEW v \in Values, NEW ttl \in TTLs, SetKey(k, v, ttl)
      PROVE  WheelTypeInv'
  <2>1. TypeOK' /\ now' = now
    BY <1>3, SetEffect DEF SetKey, Set
  <2>2. due' \in [Keys -> Nat \cup {None}] /\ beyond' \subseteq Keys
    BY <1>2, <1>3 DEF SetKey
  <2> QED
    BY <1>3, <2>1, <2>2 DEF SetKey, WheelTypeOK, WheelControl
<1>4. ASSUME NEW k \in Keys, DelKey(k) PROVE WheelTypeInv'
  <2>1. TypeOK' /\ now' = now
    BY <1>4, DelEffect DEF DelKey, Del
  <2> QED
    BY <1>4, <2>1 DEF DelKey, wheelVars, WheelTypeOK, WheelControl
<1>5. ASSUME NEW k \in Keys, NEW expiry \in Int, Schedule(k, expiry) PROVE WheelTypeInv'
  <2>1. TypeOK' /\ now' = now
    BY <1>5 DEF Schedule, vars, TypeOK
  <2>2. buckets' \in [Bucket -> Seq(Keys)]
    <3>1. TimeToBucket(expiry) \in Bucket
      BY BucketOfSecond DEF TimeToBucket
    <3>2. Append(buckets[TimeToBucket(expiry)], k) \in Seq(Keys)
      BY <3>1, AppendProperties DEF WheelTypeOK
    <3> QED
      BY <1>5, <3>1, <3>2 DEF Schedule, WheelTypeOK
  <2>3. due' \in [Keys -> Nat \cup {None}] /\ beyond' \subseteq Keys
    <3>1. (IF expiry < 0 THEN 0 ELSE expiry) \in Nat
      OBVIOUS
    <3> QED
      BY <1>5, <3>1 DEF Schedule, WheelTypeOK
  <2> QED
    BY <1>5, <2>1, <2>2, <2>3 DEF Schedule, vars, WheelTypeOK, WheelControl
<1>6. ASSUME LoopTest PROVE WheelTypeInv'
  <2>1. asleep_since' \in 0 .. now /\ current_tick <= asleep_since'
    BY <1>1, <1>6 DEF LoopTest
  <2> QED
    BY <1>6, <2>1 DEF LoopTest, vars, TypeOK, WheelTypeOK, WheelControl
<1>7. ASSUME WakeUp PROVE WheelTypeInv'
  <2>1. current_tick < now
    BY <1>1, <1>7 DEF WakeUp, WheelControl
  <2> QED
    BY <1>7, <2>1 DEF WakeUp, vars, TypeOK, WheelTypeOK, WheelControl
<1>8. ASSUME AdvanceTick PROVE WheelTypeInv'
  <2>1. current_tick + 1 \in 0 .. now
    BY <1>1, <1>8 DEF AdvanceTick, WheelControl
  <2>2. current_tick % WHEEL_SIZE \in Bucket
    BY <1>1, BucketOfSecond
  <2>3. buckets[current_tick % WHEEL_SIZE] \in Seq(Keys) /\ <<>> \in Seq(Keys)
    BY <2>2, EmptySeq DEF WheelTypeOK
  <2>4. buckets' \in [Bucket -> Seq(Keys)] /\ expired' \in Seq(Keys)
    BY <1>8, <2>3 DEF AdvanceTick, WheelTypeOK
  <2> QED
    BY <1>8, <2>1, <2>4 DEF AdvanceTick, vars, TypeOK, WheelTypeOK, WheelControl
<1>9. ASSUME Evict PROVE WheelTypeInv'
  <2>1. Head(expired) \in Keys
    BY <1>9, HeadTailProperties DEF Evict, WheelTypeOK
  <2>2. TypeOK' /\ now' = now
    BY <1>9, <2>1, EvictEffect DEF Evict, EvictExpired, TypeOK, DataType
  <2>3. due' \in [Keys -> Nat \cup {None}] /\ beyond' \subseteq Keys
    BY <1>2, <1>9, <2>1 DEF Evict
  <2> QED
    BY <1>9, <2>2, <2>3 DEF Evict, WheelTypeOK, WheelControl
<1>10. ASSUME Spare PROVE WheelTypeInv'
  <2>1. Tail(expired) \in Seq(Keys)
    BY <1>10, HeadTailProperties DEF Spare, WheelTypeOK
  <2> QED
    BY <1>10, <2>1 DEF Spare, vars, TypeOK, WheelTypeOK, WheelControl
<1>11. ASSUME LogDel PROVE WheelTypeInv'
  <2>1. Tail(expired) \in Seq(Keys)
    BY <1>11, HeadTailProperties DEF LogDel, WheelTypeOK, WheelControl
  <2> QED
    BY <1>11, <2>1 DEF LogDel, vars, TypeOK, WheelTypeOK, WheelControl
<1>12. ASSUME TickDone PROVE WheelTypeInv'
  BY <1>12 DEF TickDone, vars, TypeOK, WheelTypeOK, WheelControl
<1>13. ASSUME Stop \/ StopReturns PROVE WheelTypeInv'
  BY <1>13 DEF Stop, StopReturns, vars, TypeOK, WheelTypeOK, WheelControl
<1>14. ASSUME Clock PROVE WheelTypeInv'
  <2>1. data' = data /\ now' = now + 1
    BY <1>14 DEF Clock, Tick
  <2>2. /\ now' \in Nat /\ current_tick \in 0 .. now' /\ asleep_since \in 0 .. now'
        /\ current_tick < now => current_tick < now'
    BY <1>1, <2>1
  <2> QED
    BY <1>14, <2>1, <2>2 DEF Clock, wheelVars, TypeOK, WheelTypeOK, WheelControl
<1>15. CASE UNCHANGED allVars
  BY <1>15 DEF allVars, vars, wheelVars, TypeOK, WheelTypeOK, WheelControl
<1>16. ASSUME NEW delay \in Delays PROVE now + delay \in Int
  BY <1>1, WheelAssumption
<1> QED
  BY <1>3, <1>4, <1>5, <1>6, <1>7, <1>8, <1>9, <1>10, <1>11, <1>12, <1>13, <1>14, <1>15, <1>16
  DEF WheelNext, SweeperStep

(***************************************************************************)
(* The wheel's state has its types; in particular current_tick_ never runs *)
(* ahead of the clock, although the sweeper counts its sleeps and not time.*)
(***************************************************************************)
THEOREM WheelTypeCorrect == WheelSpec => []WheelTypeOK
<1>1. WheelTypeInv => WheelTypeOK
  BY DEF WheelTypeInv
<1> QED
  BY <1>1, InitWheelTypeInv, NextWheelTypeInv, PTL DEF WheelSpec
-----------------------------------------------------------------------------
LEMMA StepUnseen ==
  [WheelNext]_allVars =>
    [sweeper' # sweeper =>
       \A k \in Keys : Live(k) => k \in DOMAIN data' /\ data'[k] = data[k]]_allVars
<1> SUFFICES ASSUME [WheelNext]_allVars, sweeper' # sweeper, NEW k \in Keys, Live(k)
             PROVE  k \in DOMAIN data' /\ data'[k] = data[k]
  OBVIOUS
<1>1. k \in DOMAIN data
  BY DEF Live
<1>2. CASE LoopTest \/ WakeUp \/ AdvanceTick \/ Spare \/ LogDel \/ TickDone
  BY <1>1, <1>2 DEF LoopTest, WakeUp, AdvanceTick, Spare, LogDel, TickDone, vars
<1>3. CASE Evict
  <2>1. k # Head(expired) /\ data' = [j \in DOMAIN data \ {Head(expired)} |-> data[j]]
    BY <1>3 DEF Evict, EvictExpired, Live
  <2> QED
    BY <1>1, <2>1
<1> QED
  BY <1>2, <1>3 DEF WheelNext, SweeperStep, SetKey, DelKey, Schedule, Stop, StopReturns, Clock,
     wheelVars, allVars

(***************************************************************************)
(* No step of the sweeper touches a live entry, whatever was set, deleted  *)
(* or scheduled between its taking a bucket and its visits to the keys.    *)
(***************************************************************************)
THEOREM SweeperUnseenHolds == WheelSpec => SweeperUnseen
  BY StepUnseen, PTL DEF WheelSpec, SweeperUnseen
-----------------------------------------------------------------------------
InBucket(k, b) == \E i \in 1 .. Len(buckets[b]) : buckets[b][i] = k

(* The sweeper holds k and has yet to visit it. *)
AwaitsVisit(k) == \E i \in 1 .. Len(expired) : expired[i] = k /\ (sweeper = "log" => i > 1)

(***************************************************************************)
(* Where a scheduled key is, and why its visit will find it dead: the      *)
(* second it is scheduled for is less than a turn ahead while the key is   *)
(* in the bucket of that second, and is past once the sweeper has it.      *)
(***************************************************************************)
IsTracked(k) ==
  /\ DeadBy(k, due[k])
  /\ due[k] < current_tick + WHEEL_SIZE
  /\ \/ InBucket(k, due[k] % WHEEL_SIZE)
     \/ due[k] < current_tick /\ AwaitsVisit(k)

DueInv == \A k \in Keys \ beyond : due[k] # None => IsTracked(k)

WheelInv == WheelTypeInv /\ DueInv

LEMMA DueTypes ==
  ASSUME WheelTypeInv
  PROVE  /\ current_tick \in Nat /\ now \in Nat /\ current_tick <= now
         /\ WHEEL_SIZE \in Nat /\ WHEEL_SIZE > 0
         /\ \A k \in Keys : due[k] # None => due[k] \in Nat /\ due[k] % WHEEL_SIZE \in Bucket
  BY WheelAssumption, BucketOfSecond, SMTT(40) DEF WheelTypeInv, WheelTypeOK, TypeOK

(* A step that does not touch the entry of k or its place keeps track of it. *)
LEMMA StaysTracked ==
  ASSUME WheelTypeInv, NEW k \in Keys, IsTracked(k), UNCHANGED <<buckets, current_tick, expired>>,
         due'[k] = due[k],
         k \in DOMAIN data => k \in DOMAIN data' /\ data'[k] = data[k],
         sweeper' = sweeper \/ sweeper' # "log"
  PROVE  IsTracked(k)'
  BY DEF IsTracked, DeadBy, InBucket, AwaitsVisit

LEMMA SetKeyDue ==
  ASSUME WheelTypeInv, DueInv, NEW k \in Keys, NEW v \in Values, NEW ttl \in TTLs,
         SetKey(k, v, ttl)
  PROVE  DueInv'
<1>1. Starts(k, String(v), ttl)
  BY SetEffect DEF SetKey, WheelTypeInv
<1>2. /\ due' = [due EXCEPT ![k] = None] /\ beyond' = beyond \ {k}
      /\ UNCHANGED <<buckets, current_tick, expired, sweeper>>
  BY DEF SetKey, Forget
<1>3. due \in [Keys -> Nat \cup {None}]
  BY DEF WheelTypeInv, WheelTypeOK
<1> SUFFICES ASSUME NEW j \in Keys \ beyond', due'[j] # None PROVE IsTracked(j)'
  BY DEF DueInv
<1>4. j # k /\ j \notin beyond /\ due'[j] = due[j]
  BY <1>2, <1>3
<1>5. IsTracked(j)
  BY <1>4 DEF DueInv
<1>6. j \in DOMAIN data => j \in DOMAIN data' /\ data'[j] = data[j]
  BY <1>1, <1>4 DEF Starts
<1> QED
  BY <1>2, <1>4, <1>5, <1>6, StaysTracked

LEMMA DelKeyDue ==
  ASSUME WheelTypeInv, DueInv, NEW k \in Keys, DelKey(k)
  PROVE  DueInv'
<1> SUFFICES ASSUME NEW j \in Keys \ beyond', due'[j] # None PROVE IsTracked(j)'
  BY DEF DueInv
<1>1. UNCHANGED wheelVars /\ Del(k) /\ TypeOK
  BY DEF DelKey, WheelTypeInv
<1>2. IsTracked(j)
  BY <1>1 DEF DueInv, wheelVars
<1>3. DeadBy(j, due[j])'
  <2>1. DeadBy(j, due[j]) /\ j \in DOMAIN data /\ data[j] \in CacheAlignedValue
    BY <1>1, <1>2 DEF IsTracked, DeadBy, TypeOK
  <2>2. CASE j = k
    BY <1>1, <2>1, <2>2, DelEffect DEF DeadBy, CacheAlignedValue, wheelVars
  <2>3. CASE j # k
    BY <1>1, <2>1, <2>3, DelEffect DEF DeadBy, wheelVars
  <2> QED
    BY <2>2, <2>3
<1> QED
  BY <1>1, <1>2, <1>3 DEF IsTracked, InBucket, AwaitsVisit, wheelVars

LEMMA ScheduleDue ==
  ASSUME WheelTypeInv, DueInv, NEW k \in Keys, NEW expiry \in Int, Schedule(k, expiry)
  PROVE  DueInv'
<1> DEFINE b == TimeToBucket(expiry)
           d == IF expiry < 0 THEN 0 ELSE expiry
<1>1. /\ buckets' = [buckets EXCEPT ![b] = Append(buckets[b], k)]
      /\ UNCHANGED <<data, now, current_tick, expired, sweeper>>
  BY DEF Schedule, vars
<1>2. b \in Bucket /\ d \in Nat /\ b = d % WHEEL_SIZE
  BY BucketOfSecond DEF TimeToBucket
<1>3. buckets \in [Bucket -> Seq(Keys)] /\ due \in [Keys -> Nat \cup {None}]
  BY DEF WheelTypeInv, WheelTypeOK
<1> HIDE DEF b
<1>4. /\ \A a \in Bucket : a # b => buckets'[a] = buckets[a]
      /\ buckets'[b] = Append(buckets[b], k) /\ buckets[b] \in Seq(Keys)
  BY <1>1, <1>2, <1>3
<1>5. /\ Len(buckets[b]) \in Nat /\ Len(buckets'[b]) = Len(buckets[b]) + 1
      /\ \A i \in 1 .. Len(buckets[b]) : buckets'[b][i] = buckets[b][i]
      /\ buckets'[b][Len(buckets[b]) + 1] = k
  BY <1>4, AppendProperties, LenProperties
<1>6. 1 .. Len(buckets[b]) \subseteq 1 .. Len(buckets'[b])
      /\ Len(buckets[b]) + 1 \in 1 .. Len(buckets'[b])
  BY <1>5
<1>7. ASSUME NEW j, NEW a \in Bucket, InBucket(j, a)
      PROVE  \E i \in 1 .. Len(buckets'[a]) : buckets'[a][i] = j
  BY <1>4, <1>5, <1>6, <1>7 DEF InBucket
<1> SUFFICES ASSUME NEW j \in Keys \ beyond', due'[j] # None PROVE IsTracked(j)'
  BY DEF DueInv
<1>8. CASE due'[j] = due[j] /\ j \notin beyond
  <2>1. IsTracked(j) /\ due[j] % WHEEL_SIZE \in Bucket
    BY <1>8, DueTypes DEF DueInv
  <2>2. DeadBy(j, due[j])' /\ due'[j] < current_tick' + WHEEL_SIZE
    BY <1>1, <1>8, <2>1 DEF IsTracked, DeadBy
  <2>3. CASE InBucket(j, due[j] % WHEEL_SIZE)
    <3> DEFINE a == due[j] % WHEEL_SIZE
    <3>1. a \in Bucket /\ InBucket(j, a) /\ due'[j] % WHEEL_SIZE = a
      BY <1>8, <2>1, <2>3
    <3> HIDE DEF a
    <3>2. \E i \in 1 .. Len(buckets'[a]) : buckets'[a][i] = j
      BY <1>7, <3>1
    <3> QED
      BY <2>2, <3>1, <3>2 DEF IsTracked, InBucket
  <2>4. CASE due[j] < current_tick /\ AwaitsVisit(j)
    BY <1>1, <1>8, <2>2, <2>4 DEF IsTracked, AwaitsVisit
  <2> QED
    BY <2>1, <2>3, <2>4 DEF IsTracked
<1>9. CASE ~(due'[j] = due[j] /\ j \notin beyond)
  <2>1. /\ j = k /\ DeadBy(k, expiry) /\ due'[k] = d
        /\ ~(expiry >= current_tick + WHEEL_SIZE)
    BY <1>3, <1>9 DEF Schedule
  <2>2. d < current_tick + WHEEL_SIZE
    BY <2>1, DueTypes
  <2>3. DeadBy(k, due[k])'
    <3>1. k \in DOMAIN data /\ data[k] \in CacheAlignedValue
      BY <2>1 DEF DeadBy, WheelTypeInv, TypeOK
    <3>2. data[k].created_at \in Nat /\ data[k].ttl_seconds \in Int
      BY <3>1, EntryParts
    <3>3. DeadBy(k, d)
      BY <2>1, <3>2 DEF DeadBy
    <3> HIDE DEF d
    <3> QED
      BY <1>1, <2>1, <3>3 DEF DeadBy
  <2>4. \E i \in 1 .. Len(buckets'[b]) : buckets'[b][i] = k
    BY <1>5, <1>6
  <2> HIDE DEF d
  <2> QED
    BY <1>1, <1>2, <2>1, <2>2, <2>3, <2>4 DEF IsTracked, InBucket
<1> QED
  BY <1>8, <1>9

(* A bucket is taken whole, and the keys that are due are dead by now. *)
LEMMA AdvanceDue ==
  ASSUME WheelTypeInv, DueInv, AdvanceTick
  PROVE  DueInv'
<1> DEFINE idx == current_tick % WHEEL_SIZE
<1>1. /\ expired = <<>> /\ expired' = buckets[idx] /\ sweeper' = "visit"
      /\ buckets' = [buckets EXCEPT ![idx] = <<>>]
      /\ current_tick' = current_tick + 1
      /\ UNCHANGED <<data, now, due, beyond>>
  BY DEF AdvanceTick, WheelTypeInv, WheelControl, vars
<1>2. idx \in Bucket /\ buckets \in [Bucket -> Seq(Keys)]
  BY DueTypes, BucketOfSecond DEF WheelTypeInv, WheelTypeOK
<1> SUFFICES ASSUME NEW j \in Keys \ beyond', due'[j] # None PROVE IsTracked(j)'
  BY DEF DueInv
<1>3. IsTracked(j) /\ due'[j] = due[j]
  BY <1>1 DEF DueInv
<1>4. /\ due[j] \in Nat /\ due[j] % WHEEL_SIZE \in Bucket
      /\ current_tick \in Nat /\ WHEEL_SIZE \in Nat
  BY <1>1, DueTypes
<1>5. InBucket(j, due[j] % WHEEL_SIZE)
  <2>1. Len(expired) = 0
    BY <1>1, EmptySeq
  <2> QED
    BY <1>3, <2>1 DEF IsTracked, AwaitsVisit
<1>6. due[j] < current_tick + WHEEL_SIZE
  BY <1>3 DEF IsTracked
<1>7. DeadBy(j, due[j])' /\ due'[j] < current_tick' + WHEEL_SIZE
  BY <1>1, <1>3, <1>4, <1>6 DEF IsTracked, DeadBy
<1>8. CASE due[j] % WHEEL_SIZE = idx
  <2>1. due[j] <= current_tick
    BY <1>4, <1>6, <1>8, SameBucket
  <2>2. due'[j] < current_tick'
    BY <1>1, <1>3, <1>4, <2>1
  <2>3. AwaitsVisit(j)'
    BY <1>1, <1>5, <1>8 DEF AwaitsVisit, InBucket
  <2> QED
    BY <1>7, <2>2, <2>3 DEF IsTracked
<1>9. CASE due[j] % WHEEL_SIZE # idx
  <2> DEFINE a == due[j] % WHEEL_SIZE
  <2>1. a \in Bucket /\ a # idx /\ InBucket(j, a) /\ due'[j] % WHEEL_SIZE = a
    BY <1>3, <1>4, <1>5, <1>9
  <2> HIDE DEF a, idx
  <2>2. buckets'[a] = buckets[a]
    BY <1>1, <1>2, <2>1
  <2> QED
    BY <1>7, <2>1, <2>2 DEF IsTracked, InBucket
<1> QED
  BY <1>8, <1>9

LEMMA EvictDue == ASSUME WheelTypeInv, DueInv, Evict PROVE DueInv'
<1> DEFINE h == Head(expired)
<1>1. /\ expired # <<>> /\ expired \in Seq(Keys) /\ sweeper' = "log"
      /\ due' = [due EXCEPT ![h] = None] /\ beyond' = beyond \ {h}
      /\ EvictExpired(h) /\ due \in [Keys -> Nat \cup {None}]
      /\ UNCHANGED <<buckets, current_tick, expired>>
  BY DEF Evict, Forget, WheelTypeInv, WheelTypeOK
<1>2. h \in Keys /\ h = expired[1]
  BY <1>1, HeadTailProperties
<1>3. \A j \in DOMAIN data : j # h => j \in DOMAIN data' /\ data'[j] = data[j]
  BY <1>1 DEF EvictExpired
<1> SUFFICES ASSUME NEW j \in Keys \ beyond', due'[j] # None PROVE IsTracked(j)'
  BY DEF DueInv
<1> HIDE DEF h
<1>4. j # h /\ j \notin beyond /\ due'[j] = due[j]
  BY <1>1, <1>2
<1>5. IsTracked(j)
  BY <1>4 DEF DueInv
<1>6. DeadBy(j, due[j])' /\ due'[j] < current_tick' + WHEEL_SIZE
  BY <1>1, <1>3, <1>4, <1>5 DEF IsTracked, DeadBy
<1>7. CASE InBucket(j, due[j] % WHEEL_SIZE)
  BY <1>1, <1>4, <1>6, <1>7 DEF IsTracked, InBucket
<1>8. CASE due[j] < current_tick /\ AwaitsVisit(j)
  <2>1. PICK i \in 1 .. Len(expired) : expired[i] = j
    BY <1>8 DEF AwaitsVisit
  <2>2. i # 1 /\ Len(expired) \in Nat
    BY <1>1, <1>2, <1>4, <2>1, LenProperties
  <2>3. i > 1
    BY <2>1, <2>2
  <2>4. AwaitsVisit(j)'
    BY <1>1, <2>1, <2>3 DEF AwaitsVisit
  <2> QED
    BY <1>1, <1>4, <1>6, <1>8, <2>4 DEF IsTracked
<1> QED
  BY <1>5, <1>7, <1>8 DEF IsTracked

(* The head of what the sweeper holds may go if it is no longer awaited. *)
LEMMA TailDue ==
  ASSUME WheelTypeInv, DueInv, expired # <<>>, expired' = Tail(expired), sweeper' = "visit",
         UNCHANGED <<data, now, buckets, current_tick, due, beyond>>,
         \A k \in Keys \ beyond :
           due[k] # None /\ due[k] < current_tick /\ k = Head(expired) => sweeper = "log"
  PROVE  DueInv'
<1> SUFFICES ASSUME NEW j \in Keys \ beyond', due'[j] # None PROVE IsTracked(j)'
  BY DEF DueInv
<1>1. IsTracked(j) /\ j \in Keys \ beyond /\ due[j] # None
  BY DEF DueInv
<1>2. DeadBy(j, due[j])' /\ due'[j] < current_tick' + WHEEL_SIZE
  BY <1>1 DEF IsTracked, DeadBy
<1>3. CASE InBucket(j, due[j] % WHEEL_SIZE)
  BY <1>2, <1>3 DEF IsTracked, InBucket
<1>4. CASE due[j] < current_tick /\ AwaitsVisit(j)
  <2>1. PICK i \in 1 .. Len(expired) : expired[i] = j /\ (sweeper = "log" => i > 1)
    BY <1>4 DEF AwaitsVisit
  <2>2. /\ Head(expired) = expired[1] /\ Len(expired) \in Nat
        /\ Len(Tail(expired)) = Len(expired) - 1
        /\ \A n \in 1 .. (Len(expired) - 1) : Tail(expired)[n] = expired[n + 1]
    BY HeadTailProperties, LenProperties DEF WheelTypeInv, WheelTypeOK
  <2>3. i > 1
    <3>1. CASE sweeper = "log"
      BY <2>1, <3>1
    <3>2. CASE sweeper # "log"
      <4>1. i # 1
        BY <1>1, <1>4, <2>1, <2>2, <3>2
      <4> QED
        BY <2>1, <2>2, <4>1
    <3> QED
      BY <3>1, <3>2
  <2>4. i - 1 \in 1 .. (Len(expired) - 1) /\ (i - 1) + 1 = i
    BY <2>1, <2>2, <2>3
  <2>5. expired'[i - 1] = j /\ i - 1 \in 1 .. Len(expired')
    BY <2>1, <2>2, <2>4
  <2>6. AwaitsVisit(j)'
    BY <2>5 DEF AwaitsVisit
  <2> QED
    BY <1>2, <1>4, <2>6 DEF IsTracked
<1> QED
  BY <1>1, <1>3, <1>4 DEF IsTracked

LEMMA SpareDue == ASSUME WheelTypeInv, DueInv, Spare PROVE DueInv'
<1>1. /\ expired # <<>> /\ expired' = Tail(expired) /\ sweeper = "visit" /\ sweeper' = "visit"
      /\ UNCHANGED <<data, now, buckets, current_tick, due, beyond>>
  BY DEF Spare, vars
<1>2. ASSUME NEW k \in Keys \ beyond, due[k] # None, due[k] < current_tick, k = Head(expired)
      PROVE  FALSE
  <2>1. DeadBy(k, due[k])
    BY <1>2 DEF DueInv, IsTracked
  <2>2. k \in DOMAIN data /\ data[k] \in CacheAlignedValue
    BY <2>1 DEF DeadBy, WheelTypeInv, TypeOK
  <2>3. data[k].created_at \in Nat /\ data[k].ttl_seconds \in Int
    BY <2>2, EntryParts
  <2>4. due[k] \in Nat /\ current_tick \in Nat /\ now \in Nat /\ current_tick <= now
    BY <1>2, DueTypes
  <2>5. data[k].tombstoned \/ IsExpired(data[k])
    BY <1>2, <2>1, <2>3, <2>4 DEF DeadBy, IsExpired
  <2> QED
    BY <1>2, <2>2, <2>5 DEF Spare
<1> QED
  BY <1>1, <1>2, TailDue

LEMMA LogDelDue == ASSUME WheelTypeInv, DueInv, LogDel PROVE DueInv'
  BY TailDue DEF LogDel, WheelTypeInv, WheelControl, vars

LEMMA NextDueInv == WheelInv /\ [WheelNext]_allVars => DueInv'
<1> SUFFICES ASSUME WheelTypeInv, DueInv, [WheelNext]_allVars PROVE DueInv'
  BY DEF WheelInv
<1>1. ASSUME NEW k \in Keys, NEW delay \in Delays, Schedule(k, now + delay) PROVE DueInv'
  <2>1. now + delay \in Int
    BY DueTypes, WheelAssumption
  <2> QED
    BY <1>1, <2>1, ScheduleDue
<1>2. CASE LoopTest \/ WakeUp \/ TickDone \/ Stop \/ StopReturns \/ Clock \/ UNCHANGED allVars
  <2>1. /\ UNCHANGED <<data, buckets, current_tick, expired, due, beyond>>
        /\ sweeper' = sweeper \/ sweeper' # "log"
    BY <1>2 DEF LoopTest, WakeUp, TickDone, Stop, StopReturns, Clock, Tick, vars, wheelVars, allVars
  <2> SUFFICES ASSUME NEW j \in Keys \ beyond', due'[j] # None PROVE IsTracked(j)'
    BY DEF DueInv
  <2>2. IsTracked(j)
    BY <2>1 DEF DueInv
  <2> QED
    BY <2>1, <2>2, StaysTracked
<1> QED
  BY <1>1, <1>2, SetKeyDue, DelKeyDue, AdvanceDue, EvictDue, SpareDue, LogDelDue
  DEF WheelNext, SweeperStep

(***************************************************************************)
(* For every size of the wheel and any lag of the sweeper, a key scheduled *)
(* less than a turn ahead, for a second by which its entry is dead, is on  *)
(* the wheel or with the sweeper until it is evicted.                      *)
(***************************************************************************)
THEOREM NothingMissedHolds == WheelSpec => []NothingMissed
<1>1. WheelInit => WheelInv
  <2> SUFFICES ASSUME WheelInit PROVE DueInv
    BY InitWheelTypeInv DEF WheelInv
  <2> QED
    BY DEF WheelInit, DueInv
<1>2. WheelInv /\ [WheelNext]_allVars => WheelInv'
  BY NextWheelTypeInv, NextDueInv DEF WheelInv
<1>3. WheelInv => NothingMissed
  <2> SUFFICES ASSUME WheelInv, NEW k \in Keys \ beyond, due[k] # None PROVE OnWheel(k)
    BY DEF NothingMissed
  <2>1. IsTracked(k) /\ due[k] % WHEEL_SIZE \in Bucket
    BY DueTypes DEF WheelInv, DueInv
  <2>2. CASE InBucket(k, due[k] % WHEEL_SIZE)
    <3> DEFINE b == due[k] % WHEEL_SIZE
    <3>1. b \in Bucket /\ buckets[b] \in Seq(Keys)
      BY <2>1 DEF WheelInv, WheelTypeInv, WheelTypeOK
    <3>2. DOMAIN buckets[b] = 1 .. Len(buckets[b])
      BY <3>1, LenProperties
    <3> QED
      BY <2>2, <3>1, <3>2 DEF OnWheel, InBucket
  <2>3. CASE AwaitsVisit(k)
    <3>1. DOMAIN expired = 1 .. Len(expired)
      BY LenProperties DEF WheelInv, WheelTypeInv, WheelTypeOK
    <3> QED
      BY <2>3, <3>1 DEF OnWheel, AwaitsVisit
  <2> QED
    BY <2>1, <2>2, <2>3 DEF IsTracked
<1> QED
  BY <1>1, <1>2, <1>3, PTL DEF WheelSpec
=============================================================================
