------------------------------- MODULE Store -------------------------------
(***************************************************************************)
(* The storage engine: the entries of the shards, and the commands that    *)
(* read and write them.  Every command works on one key, whose shard is a  *)
(* function of the key, and holds that shard's lock from its first look at *)
(* the entry to its last change of it: a command is one step, and one map  *)
(* stands for the maps of all shards.                                      *)
(*                                                                         *)
(* Time passes in seconds.  Allocations are not counted: the arena of a    *)
(* shard may refuse any of them (OomException), and every command that     *)
(* meets a refusal leaves its entry as it was.  What commands log is in    *)
(* Commands.                                                               *)
(***************************************************************************)
EXTENDS Integers, Sequences, Replies

CONSTANTS Keys, Fields, Values,
          Indices,       \* start and stop arguments of LRANGE
          TTLs,          \* TTL arguments of SET
          DefaultTTL,    \* 86400
          MaxTime,       \* bound: seconds that pass
          MaxLength      \* bound: length of a list

ASSUME StoreAssumption == /\ TTLs \subseteq Int /\ Indices \subseteq Int
                          /\ DefaultTTL \in Nat \ {0}
                          /\ MaxTime \in Nat /\ MaxLength \in Nat

VARIABLES data,   \* data_, all shards together
          now,    \* steady_clock::now()
          reply   \* what the last command answered

vars == <<data, now, reply>>
-----------------------------------------------------------------------------
HashOf == UNION {[F -> Values] : F \in SUBSET Fields}

(* ValueVariant; nothing ever stores its integer alternative. *)
ValueVariant == [type : {"string"}, string : Values]
                  \cup [type : {"list"}, list : Seq(Values)]
                  \cup [type : {"hash"}, hash : HashOf]

(* CacheAlignedValue; last_accessed is never read. *)
CacheAlignedValue == [data : ValueVariant, created_at : Nat, ttl_seconds : Int,
                      tombstoned : BOOLEAN]

(* Mutant: the deadline is stored as the time of creation. *)
NewEntryDeadline(v, ttl) == [data |-> v, created_at |-> now + ttl,
                             ttl_seconds |-> ttl, tombstoned |-> FALSE]

NewEntry(v, ttl) == [data |-> v, created_at |-> now, ttl_seconds |-> ttl,
                     tombstoned |-> FALSE]

TypeOK == /\ DOMAIN data \subseteq Keys
          /\ data \in [DOMAIN data -> CacheAlignedValue]
          /\ now \in Nat

Init == /\ data = [k \in {} |-> Nil]
        /\ now = 0
        /\ reply = OK
-----------------------------------------------------------------------------
(* Mutant: the second in which an entry expires is still its own. *)
IsExpiredLate(e) == e.ttl_seconds >= 0 /\ now - e.created_at > e.ttl_seconds

IsExpired(e) == e.ttl_seconds >= 0 /\ now - e.created_at >= e.ttl_seconds

(* find(key) meets an entry that is neither tombstoned nor expired. *)
Live(k) == k \in DOMAIN data /\ ~data[k].tombstoned /\ ~IsExpired(data[k])

IsType(k, type) == data[k].data.type = type

(* insert_or_assign *)
Assign(k, e) == data' = [j \in DOMAIN data \cup {k} |-> IF j = k THEN e ELSE data[j]]

(* Mutant: a change renews the TTL. *)
UpdateRenews(k, v) == Assign(k, NewEntry(v, DefaultTTL))

(* A command that changes a value in place. *)
Update(k, v) == data' = [data EXCEPT ![k].data = v]

Set(k, v, ttl) == /\ Assign(k, NewEntry(String(v), ttl))
                  /\ reply' = OK
                  /\ UNCHANGED now

(* The hard limit is reached, or an allocation throws OomException. *)
OutOfMemory == reply' = OOM /\ UNCHANGED <<data, now>>

Get(k) == /\ reply' = IF ~Live(k) THEN Nil
                      ELSE IF IsType(k, "string") THEN Bulk(data[k].data.string)
                      ELSE Bulk(data[k].data.type)
          /\ UNCHANGED <<data, now>>

(* Expiry is not looked at here. *)
Del(k) == /\ IF k \in DOMAIN data /\ ~data[k].tombstoned
             THEN data' = [data EXCEPT ![k].tombstoned = TRUE] /\ reply' = Number(1)
             ELSE UNCHANGED data /\ reply' = Number(0)
          /\ UNCHANGED now

Exists(k) == /\ reply' = Number(IF Live(k) THEN 1 ELSE 0)
             /\ UNCHANGED <<data, now>>

Ping == reply' = PONG /\ UNCHANGED <<data, now>>

WrongType(k, type) == /\ Live(k) /\ ~IsType(k, type)
                      /\ reply' = WRONGTYPE
                      /\ UNCHANGED <<data, now>>
-----------------------------------------------------------------------------
(* LPUSH: emplace_back on a live list, or a new list. *)
LPush(k, v) ==
  /\ \/ /\ Live(k) /\ IsType(k, "list")
        /\ Len(data[k].data.list) < MaxLength
        /\ Update(k, List(Append(data[k].data.list, v)))
        /\ reply' = Number(Len(data[k].data.list) + 1)
     \/ /\ ~Live(k)
        /\ Assign(k, NewEntry(List(<<v>>), DefaultTTL))
        /\ reply' = Number(1)
  /\ UNCHANGED now

(* The elements from start to stop, after clamping; positions from 0. *)
Slice(list, start, stop) ==
  LET len == Len(list)
      from == IF start < 0 THEN start + len ELSE start
      to == IF stop < 0 THEN stop + len ELSE stop
      s == IF from < 0 THEN 0 ELSE from
      e == IF to >= len THEN len - 1 ELSE to
  IN IF s > e THEN <<>> ELSE SubSeq(list, s + 1, e + 1)

LRange(k, start, stop) ==
  /\ \/ /\ Live(k) /\ IsType(k, "list")
        /\ reply' = Array(Slice(data[k].data.list, start, stop))
     \/ /\ ~Live(k)
        /\ reply' = Array(<<>>)
  /\ UNCHANGED <<data, now>>

HSet(k, f, v) ==
  /\ \/ /\ Live(k) /\ IsType(k, "hash")
        /\ LET h == data[k].data.hash IN
             /\ Update(k, Hash([g \in DOMAIN h \cup {f} |-> IF g = f THEN v ELSE h[g]]))
             /\ reply' = Number(IF f \in DOMAIN h THEN 0 ELSE 1)
     \/ /\ ~Live(k)
        /\ Assign(k, NewEntry(Hash([g \in {f} |-> v]), DefaultTTL))
        /\ reply' = Number(1)
  /\ UNCHANGED now

HGet(k, f) ==
  /\ \/ /\ Live(k) /\ IsType(k, "hash")
        /\ LET h == data[k].data.hash IN
             reply' = IF f \in DOMAIN h THEN Bulk(h[f]) ELSE Nil
     \/ /\ ~Live(k)
        /\ reply' = Nil
  /\ UNCHANGED <<data, now>>
-----------------------------------------------------------------------------
(* Mutant: a key whose bucket is swept is erased without a second look. *)
EvictScheduled(k) == /\ k \in DOMAIN data
                     /\ data' = [j \in DOMAIN data \ {k} |-> data[j]]
                     /\ UNCHANGED <<now, reply>>

(* The sweeper erases a scheduled key if it is tombstoned or expired. *)
EvictExpired(k) == /\ k \in DOMAIN data
                   /\ data[k].tombstoned \/ IsExpired(data[k])
                   /\ data' = [j \in DOMAIN data \ {k} |-> data[j]]
                   /\ UNCHANGED <<now, reply>>

Tick == /\ now < MaxTime
        /\ now' = now + 1
        /\ UNCHANGED <<data, reply>>

Command(k) ==
  \/ Get(k) \/ Del(k) \/ Exists(k) \/ WrongType(k, "list") \/ WrongType(k, "hash")
  \/ \E v \in Values : LPush(k, v) \/ \E ttl \in TTLs : Set(k, v, ttl)
  \/ \E start, stop \in Indices : LRange(k, start, stop)
  \/ \E f \in Fields : HGet(k, f) \/ \E v \in Values : HSet(k, f, v)

Next == \/ \E k \in Keys : Command(k) \/ EvictExpired(k)
        \/ Ping \/ OutOfMemory
        \/ Tick

Spec == Init /\ [][Next]_vars
-----------------------------------------------------------------------------
(* When an entry runs out; -1 if never. *)
RunsOut(e) == IF e.ttl_seconds < 0 THEN -1 ELSE e.created_at + e.ttl_seconds

(* The live keys, with their values and deadlines. *)
View == [k \in {j \in Keys : Live(j)} |->
           [value |-> data[k].data, until |-> RunsOut(data[k])]]

KV == INSTANCE KeyValue WITH view <- View, time <- now

(***************************************************************************)
(* What clients see is a map whose keys disappear by DEL and in the very   *)
(* second their TTL has run out (at once for a TTL of 0, never for a       *)
(* negative one), and not otherwise: eviction takes no live key.  An entry *)
(* that is tombstoned or expired, and still in memory, never shows in a    *)
(* reply and never leaks its old value or deadline into a list or hash     *)
(* that is started anew; LRANGE returns what its indices select.           *)
(***************************************************************************)
ImplementsKeyValue == KV!KVSpec

(* A live key has the deadline it had, or was set. *)
KeepsLease(k) == \/ /\ data'[k].created_at = data[k].created_at
                    /\ data'[k].ttl_seconds = data[k].ttl_seconds
                 \/ \E v \in Values, ttl \in TTLs : Set(k, v, ttl)

(***************************************************************************)
(* Only SET gives a live key a new lease: LPUSH and HSET on a live key     *)
(* leave its deadline alone, and every other command too.                  *)
(***************************************************************************)
LeaseKept ==
  [][\A k \in DOMAIN data \cap DOMAIN data' : Live(k) => KeepsLease(k)]_vars
=============================================================================
