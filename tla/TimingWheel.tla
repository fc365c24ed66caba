---------------------------- MODULE TimingWheel ----------------------------
(***************************************************************************)
(* The timing wheel: keys are scheduled into the bucket of the second in   *)
(* which they expire, and the sweeper thread empties one bucket after each *)
(* sleep of a second.  It takes the bucket's entries under the wheel's     *)
(* mutex, and then visits their keys one by one, each under the lock of    *)
(* its shard; clients set, delete and schedule keys meanwhile.             *)
(*                                                                         *)
(* schedule() is called by the tests only, so its callers are external     *)
(* here: any key, for any second.  Time counts from start_time_.  What the *)
(* sweeper logs, and when, is in Persistence.                              *)
(***************************************************************************)
EXTENDS Store, FiniteSets

CONSTANTS WHEEL_SIZE,   \* 86400
          Delays,       \* seconds from now for which keys are scheduled
          None,         \* a key that is not scheduled
          MaxWaiting,   \* bound: entries of the wheel
          MaxLag        \* bound: seconds the sweeper loses to its own work

ASSUME WheelAssumption == /\ WHEEL_SIZE \in Nat \ {0} /\ Delays \subseteq Int
                          /\ MaxWaiting \in Nat /\ MaxLag \in Nat

VARIABLES buckets,        \* buckets_
          current_tick,   \* current_tick_
          running,        \* running_
          sweeper,        \* where sweeper_loop is
          asleep_since,   \* when it began to sleep
          expired,        \* entries taken from a bucket and not yet visited
          stopping,       \* stop() waits for the sweeper
          due,            \* history: the second a key's entry is scheduled for
          beyond          \* history: keys scheduled further ahead than the wheel

wheelVars == <<buckets, current_tick, running, sweeper, asleep_since, expired, stopping,
               due, beyond>>
allVars == <<vars, wheelVars>>

Bucket == 0 .. (WHEEL_SIZE - 1)

WheelTypeOK ==
  /\ buckets \in [Bucket -> Seq(Keys)]
  /\ current_tick \in 0 .. now
  /\ running \in BOOLEAN /\ stopping \in BOOLEAN
  /\ sweeper \in {"test", "sleep", "advance", "visit", "log", "done"}
  /\ asleep_since \in 0 .. now
  /\ expired \in Seq(Keys)
  /\ due \in [Keys -> Nat \cup {None}] /\ beyond \subseteq Keys

WheelInit == /\ Init
             /\ buckets = [b \in Bucket |-> <<>>] /\ current_tick = 0
             /\ running = TRUE /\ sweeper = "test" /\ asleep_since = 0
             /\ expired = <<>> /\ stopping = FALSE
             /\ due = [k \in Keys |-> None] /\ beyond = {}
-----------------------------------------------------------------------------
(* Mutant: counted from the current second instead of start_time_. *)
TimeToBucketFromNow(expiry) == (IF expiry < now THEN 0 ELSE expiry - now) % WHEEL_SIZE

TimeToBucket(expiry) == (IF expiry < 0 THEN 0 ELSE expiry) % WHEEL_SIZE

(* The entry of k is of no use from the given second on. *)
DeadBy(k, second) == /\ k \in DOMAIN data
                     /\ \/ data[k].tombstoned
                        \/ /\ data[k].ttl_seconds >= 0
                           /\ data[k].created_at + data[k].ttl_seconds <= second

(* The places of the entries on the wheel: a bucket, and a position in it. *)
Waiting == {p \in Bucket \X (1 .. MaxWaiting) : p[2] <= Len(buckets[p[1]])}

Schedule(k, expiry) ==
  LET b == TimeToBucket(expiry) IN
  /\ Cardinality(Waiting) < MaxWaiting
  /\ buckets' = [buckets EXCEPT ![b] = Append(@, k)]
  /\ IF DeadBy(k, expiry) /\ due[k] = None
     THEN /\ due' = [due EXCEPT ![k] = IF expiry < 0 THEN 0 ELSE expiry]
          /\ beyond' = IF expiry >= current_tick + WHEEL_SIZE THEN beyond \cup {k} ELSE beyond
     ELSE UNCHANGED <<due, beyond>>
  /\ UNCHANGED <<vars, current_tick, running, sweeper, asleep_since, expired, stopping>>

(* A new entry of k, or none, is not scheduled. *)
Forget(k) == /\ due' = [due EXCEPT ![k] = None]
             /\ beyond' = beyond \ {k}

SetKey(k, v, ttl) ==
  /\ Set(k, v, ttl) /\ Forget(k)
  /\ UNCHANGED <<buckets, current_tick, running, sweeper, asleep_since, expired, stopping>>

DelKey(k) == Del(k) /\ UNCHANGED wheelVars
-----------------------------------------------------------------------------
LoopTest == /\ sweeper = "test"
            /\ sweeper' = IF running THEN "sleep" ELSE "done"
            /\ asleep_since' = now
            /\ UNCHANGED <<vars, buckets, current_tick, running, expired, stopping, due, beyond>>

(* Mutant: the sleep is cut short. *)
WakeUpEarly == /\ sweeper = "sleep"
               /\ sweeper' = IF running THEN "advance" ELSE "done"
               /\ UNCHANGED <<vars, buckets, current_tick, running, asleep_since, expired,
                              stopping, due, beyond>>

(* sleep_for(1s) is over, and running_ is tested again. *)
WakeUp == /\ sweeper = "sleep" /\ now > asleep_since
          /\ sweeper' = IF running THEN "advance" ELSE "done"
          /\ UNCHANGED <<vars, buckets, current_tick, running, asleep_since, expired, stopping,
                         due, beyond>>

(* Mutant: the wheel does not turn. *)
AdvanceNothing ==
  LET idx == current_tick % WHEEL_SIZE IN
  /\ sweeper = "advance"
  /\ expired' = buckets[idx]
  /\ buckets' = [buckets EXCEPT ![idx] = <<>>]
  /\ sweeper' = "visit"
  /\ UNCHANGED <<vars, current_tick, running, asleep_since, stopping, due, beyond>>

(* advance_tick, under the wheel's mutex. *)
AdvanceTick ==
  LET idx == current_tick % WHEEL_SIZE IN
  /\ sweeper = "advance"
  /\ expired' = buckets[idx]
  /\ buckets' = [buckets EXCEPT ![idx] = <<>>]
  /\ current_tick' = current_tick + 1
  /\ sweeper' = "visit"
  /\ UNCHANGED <<vars, running, asleep_since, stopping, due, beyond>>

(* evict_expired, under the shard's lock. *)
Evict == /\ sweeper = "visit" /\ expired # <<>>
         /\ EvictExpired(Head(expired)) /\ Forget(Head(expired))
         /\ sweeper' = "log"
         /\ UNCHANGED <<buckets, current_tick, running, asleep_since, expired, stopping>>

(* The key is gone, or was set again: its entry on the wheel is dropped. *)
Spare == /\ sweeper = "visit" /\ expired # <<>>
         /\ LET k == Head(expired) IN
              k \in DOMAIN data => ~data[k].tombstoned /\ ~IsExpired(data[k])
         /\ expired' = Tail(expired)
         /\ UNCHANGED <<vars, buckets, current_tick, running, sweeper, asleep_since, stopping,
                        due, beyond>>

(* DEL is logged for the evicted key. *)
LogDel == /\ sweeper = "log"
          /\ expired' = Tail(expired)
          /\ sweeper' = "visit"
          /\ UNCHANGED <<vars, buckets, current_tick, running, asleep_since, stopping, due,
                         beyond>>

TickDone == /\ sweeper = "visit" /\ expired = <<>>
            /\ sweeper' = "test"
            /\ UNCHANGED <<vars, buckets, current_tick, running, asleep_since, expired,
                           stopping, due, beyond>>
-----------------------------------------------------------------------------
Stop == /\ running
        /\ running' = FALSE /\ stopping' = TRUE
        /\ UNCHANGED <<vars, buckets, current_tick, sweeper, asleep_since, expired, due, beyond>>

StopReturns == /\ stopping /\ sweeper = "done"
               /\ stopping' = FALSE
               /\ UNCHANGED <<vars, buckets, current_tick, running, sweeper, asleep_since,
                              expired, due, beyond>>

Clock == /\ running => \/ sweeper = "sleep" /\ now = asleep_since
                       \/ now - current_tick < MaxLag
         /\ Tick
         /\ UNCHANGED wheelVars

SweeperStep == LoopTest \/ WakeUp \/ AdvanceTick \/ Evict \/ Spare \/ LogDel \/ TickDone

WheelNext == \/ \E k \in Keys :
                  \/ \E v \in Values, ttl \in TTLs : SetKey(k, v, ttl)
                  \/ DelKey(k)
                  \/ \E delay \in Delays : Schedule(k, now + delay)
             \/ SweeperStep \/ Stop \/ StopReturns \/ Clock

(***************************************************************************)
(* Time passes, the sweeper's sleeps end and the locks it takes are        *)
(* released.  Nobody has to schedule anything or to stop the wheel.        *)
(***************************************************************************)
WheelSpec == /\ WheelInit /\ [][WheelNext]_allVars
             /\ WF_allVars(SweeperStep) /\ WF_allVars(StopReturns) /\ WF_allVars(Clock)
-----------------------------------------------------------------------------
OnWheel(k) == \/ \E b \in Bucket : \E i \in DOMAIN buckets[b] : buckets[b][i] = k
              \/ \E i \in DOMAIN expired : expired[i] = k

(***************************************************************************)
(* A key that is scheduled for when it is dead, less than a turn of the    *)
(* wheel ahead, stays on the wheel or with the sweeper until its entry is  *)
(* evicted: its bucket is never swept while the entry is still alive, and  *)
(* no entry is dropped on the way.  A key scheduled further ahead, the     *)
(* default TTL included, is swept a turn too early and not put back.       *)
(***************************************************************************)
NothingMissed == \A k \in Keys \ beyond : due[k] # None => OnWheel(k)

(***************************************************************************)
(* Clients do not notice the sweeper: a key set again after its bucket was *)
(* taken, and before the sweeper comes to it, keeps its entry.             *)
(***************************************************************************)
SweeperUnseen ==
  [][sweeper' # sweeper =>
       \A k \in Keys : Live(k) => k \in DOMAIN data' /\ data'[k] = data[k]]_allVars

(***************************************************************************)
(* A scheduled entry is evicted, at the latest when the wheel comes round  *)
(* to its bucket, unless the wheel is stopped.  (Stated for ticks from     *)
(* which the bound on time lets the wheel come round.)                     *)
(***************************************************************************)
DueIsEvicted ==
  \A k \in Keys :
    (/\ due[k] # None /\ k \notin beyond
     /\ current_tick + WHEEL_SIZE + MaxLag < MaxTime)
      ~> (due[k] = None \/ ~running)
=============================================================================
