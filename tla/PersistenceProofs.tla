------------------------- MODULE PersistenceProofs -------------------------
(***************************************************************************)
(* Proofs about the store and its log together: what parsing makes of a    *)
(* serialized command, and that replay restores the store, for any number  *)
(* of keys, workers, entries and restarts.                                 *)
(***************************************************************************)
EXTENDS Persistence, StoreProofs, FiniteSetTheorems

(* The lines of the log; those of SET and DEL say all there is to know of a key. *)
Overwriting == {<<"SET", k, v, t>> : k \in Keys, v \in Values, t \in Int}
                 \cup {<<"DEL", k>> : k \in Keys}

LogLine == Overwriting
             \cup {<<"LPUSH", k, v>> : k \in Keys, v \in Values}
             \cup {<<"HSET", k, f, v>> : k \in Keys, f \in Fields, v \in Values}

LEMMA ParseLines ==
  ASSUME NEW k, NEW v
  PROVE  /\ \A t \in Int : Parse(<<"SET", k, v, t>>) =
                             [name |-> "SET", key |-> k, value |-> v, ttl |-> t]
         /\ Parse(<<"DEL", k>>) = [name |-> "DEL", key |-> k]
         /\ Parse(<<"LPUSH", k, v>>) = [name |-> "LPUSH", key |-> k, value |-> v]
         /\ \A f : Parse(<<"HSET", k, f, v>>) =
                     [name |-> "HSET", key |-> k, field |-> f, value |-> v]
<1>1. ASSUME NEW t \in Int
      PROVE  Parse(<<"SET", k, v, t>>) = [name |-> "SET", key |-> k, value |-> v, ttl |-> t]
  BY CommandsAssumption DEF Parse, TTLOf
<1>2. Parse(<<"DEL", k>>) = [name |-> "DEL", key |-> k]
  BY DEF Parse
<1>3. Parse(<<"LPUSH", k, v>>) = [name |-> "LPUSH", key |-> k, value |-> v]
  BY DEF Parse
<1>4. ASSUME NEW f
      PROVE  Parse(<<"HSET", k, f, v>>) =
               [name |-> "HSET", key |-> k, field |-> f, value |-> v]
  BY DEF Parse
<1> QED
  BY <1>1, <1>2, <1>3, <1>4

(***************************************************************************)
(* What replay makes of a line that a command logged is that command: key, *)
(* field and value, and the TTL of a SET, survive the file.                *)
(***************************************************************************)
THEOREM RoundTrip ==
  \A c \in ParsedCommand :
    c.name \in {"SET", "DEL", "LPUSH", "HSET"}
      => Serialize(c) \in LogLine /\ Parse(Serialize(c)) = c
<1> SUFFICES ASSUME NEW c \in ParsedCommand, c.name \in {"SET", "DEL", "LPUSH", "HSET"}
             PROVE  Serialize(c) \in LogLine /\ Parse(Serialize(c)) = c
  OBVIOUS
<1>1. CASE c.name = "SET"
  <2>1. c \in [name : {"SET"}, key : Keys, value : Values, ttl : Int]
    BY <1>1 DEF ParsedCommand
  <2>2. Serialize(c) = <<"SET", c.key, c.value, c.ttl>>
    BY <1>1 DEF Serialize
  <2>3. c = [name |-> "SET", key |-> c.key, value |-> c.value, ttl |-> c.ttl]
    BY <2>1
  <2>4. c.key \in Keys /\ c.value \in Values /\ c.ttl \in Int
    BY <2>1
  <2>5. Serialize(c) \in LogLine
    BY <2>2, <2>4 DEF LogLine, Overwriting
  <2>6. Parse(Serialize(c)) = c
    BY <2>2, <2>3, <2>4, ParseLines, ZenonT(40)
  <2> QED
    BY <2>5, <2>6
<1>2. CASE c.name = "DEL"
  <2>1. c \in [name : {"GET", "DEL", "EXISTS"}, key : Keys]
    BY <1>2 DEF ParsedCommand
  <2>2. Serialize(c) = <<"DEL", c.key>>
    BY <1>2 DEF Serialize
  <2>3. c = [name |-> "DEL", key |-> c.key]
    BY <1>2, <2>1
  <2>4. c.key \in Keys
    BY <2>1
  <2>5. Serialize(c) \in LogLine
    BY <2>2, <2>4 DEF LogLine, Overwriting
  <2>6. Parse(Serialize(c)) = c
    BY <2>2, <2>3, <2>4, ParseLines
  <2> QED
    BY <2>5, <2>6
<1>3. CASE c.name = "LPUSH"
  <2>1. c \in [name : {"LPUSH"}, key : Keys, value : Values]
    BY <1>3 DEF ParsedCommand
  <2>2. Serialize(c) = <<"LPUSH", c.key, c.value>>
    BY <1>3 DEF Serialize
  <2>3. c = [name |-> "LPUSH", key |-> c.key, value |-> c.value]
    BY <2>1
  <2>4. c.key \in Keys /\ c.value \in Values
    BY <2>1
  <2>5. Serialize(c) \in LogLine
    BY <2>2, <2>4 DEF LogLine
  <2>6. Parse(Serialize(c)) = c
    BY <2>2, <2>3, <2>4, ParseLines
  <2> QED
    BY <2>5, <2>6
<1>4. CASE c.name = "HSET"
  <2>1. c \in [name : {"HSET"}, key : Keys, field : Fields, value : Values]
    BY <1>4 DEF ParsedCommand
  <2>2. Serialize(c) = <<"HSET", c.key, c.field, c.value>>
    BY <1>4 DEF Serialize
  <2>3. c = [name |-> "HSET", key |-> c.key, field |-> c.field, value |-> c.value]
    BY <2>1
  <2>4. c.key \in Keys /\ c.field \in Fields /\ c.value \in Values
    BY <2>1
  <2>5. Serialize(c) \in LogLine
    BY <2>2, <2>4 DEF LogLine
  <2>6. Parse(Serialize(c)) = c
    <3>1. Parse(<<"HSET", c.key, c.field, c.value>>) =
            [name |-> "HSET", key |-> c.key, field |-> c.field, value |-> c.value]
      BY ParseLines
    <3> QED
      BY <2>2, <2>3, <3>1
  <2> QED
    BY <2>5, <2>6
<1> QED
  BY <1>1, <1>2, <1>3, <1>4
-----------------------------------------------------------------------------
(***************************************************************************)
(* What a map of entries keeps of a key over a restart, its value and its  *)
(* TTL: none or one.  Tombstones and times of creation are not kept.       *)
(***************************************************************************)
Content(d, k) == IF k \in DOMAIN d /\ ~d[k].tombstoned
                 THEN {[data |-> d[k].data, ttl |-> d[k].ttl_seconds]} ELSE {}

(* Without a TTL of 0, which is over at once. *)
Fresh(A) == {a \in A : a.ttl # 0}

Pushed(a, v) == IF a.data.type = "list"
                THEN [data |-> List(Append(a.data.list, v)), ttl |-> a.ttl] ELSE a

Put(a, f, v) == IF a.data.type = "hash"
                THEN [data |-> Hash(WithField(a.data.hash, f, v)), ttl |-> a.ttl] ELSE a

(* What the replay of line l makes of content A of its key. *)
Apply(A, l) ==
  CASE l[1] = "SET" -> {[data |-> String(l[3]), ttl |-> l[4]]}
    [] l[1] = "DEL" -> {}
    [] l[1] = "LPUSH" -> IF Fresh(A) = {} THEN {[data |-> List(<<l[3]>>), ttl |-> DefaultTTL]}
                         ELSE {Pushed(a, l[3]) : a \in A}
    [] l[1] = "HSET" -> IF Fresh(A) = {}
                        THEN {[data |-> Hash([g \in {l[3]} |-> l[4]]), ttl |-> DefaultTTL]}
                        ELSE {Put(a, l[3], l[4]) : a \in A}

LEMMA ApplyOverwrites ==
  ASSUME NEW l \in Overwriting, NEW A PROVE Apply(A, l) = Apply({}, l)
<1>1. CASE \E k \in Keys, v \in Values, t \in Int : l = <<"SET", k, v, t>>
  BY <1>1 DEF Apply
<1>2. CASE \E k \in Keys : l = <<"DEL", k>>
  BY <1>2 DEF Apply
<1> QED
  BY <1>1, <1>2 DEF Overwriting

(* A step after which key k has content A, and other keys have what they had. *)
Becomes(k, A) ==
  /\ Content(data', k) = A
  /\ \A j \in Keys \ {k} : Content(data', j) = Content(data, j)
  /\ \A j \in DOMAIN data' :
       \/ data'[j].created_at = now
       \/ j \in DOMAIN data /\ data'[j].created_at = data[j].created_at

LEMMA SameBecomes == ASSUME UNCHANGED data, NEW k PROVE Becomes(k, Content(data, k))
  BY DEF Becomes

LEMMA StartsBecomes ==
  ASSUME TypeOK, NEW k \in Keys, NEW v, NEW ttl, Starts(k, v, ttl)
  PROVE  Becomes(k, {[data |-> v, ttl |-> ttl]})
<1>1. data'[k] = [data |-> v, created_at |-> now, ttl_seconds |-> ttl, tombstoned |-> FALSE]
        /\ k \in DOMAIN data'
  BY DEF Starts, NewEntry
<1>2. Content(data', k) = {[data |-> v, ttl |-> ttl]}
  BY <1>1 DEF Content
<1>3. ASSUME NEW j \in Keys \ {k} PROVE Content(data', j) = Content(data, j)
  BY <1>3 DEF Starts, Content
<1>4. ASSUME NEW j \in DOMAIN data'
      PROVE  \/ data'[j].created_at = now
             \/ j \in DOMAIN data /\ data'[j].created_at = data[j].created_at
  BY <1>1, <1>4 DEF Starts
<1> QED
  BY <1>2, <1>3, <1>4 DEF Becomes

LEMMA ContinuesBecomes ==
  ASSUME TypeOK, NEW k \in Keys, NEW v, Continues(k, v)
  PROVE  /\ Content(data, k) = {[data |-> data[k].data, ttl |-> data[k].ttl_seconds]}
         /\ Becomes(k, {[data |-> v, ttl |-> data[k].ttl_seconds]})
<1>0. k \in DOMAIN data /\ data[k] \in CacheAlignedValue /\ data[k].tombstoned = FALSE
  BY EntryParts DEF Continues, Live, TypeOK
<1>1. /\ data'[k].data = v /\ data'[k].ttl_seconds = data[k].ttl_seconds
      /\ data'[k].created_at = data[k].created_at
      /\ data'[k].tombstoned = FALSE /\ k \in DOMAIN data'
  BY <1>0 DEF Continues, CacheAlignedValue
<1>2. Content(data', k) = {[data |-> v, ttl |-> data[k].ttl_seconds]}
  BY <1>1 DEF Content
<1>3. ASSUME NEW j \in Keys \ {k} PROVE Content(data', j) = Content(data, j)
  BY <1>3 DEF Continues, Content
<1>4. ASSUME NEW j \in DOMAIN data'
      PROVE  j \in DOMAIN data /\ data'[j].created_at = data[j].created_at
  BY <1>1, <1>4 DEF Continues
<1>5. Content(data, k) = {[data |-> data[k].data, ttl |-> data[k].ttl_seconds]}
  BY <1>0 DEF Content
<1> QED
  BY <1>2, <1>3, <1>4, <1>5 DEF Becomes

LEMMA DelBecomes ==
  ASSUME TypeOK, NEW k \in Keys, Del(k) PROVE Becomes(k, {})
<1>1. CASE k \in DOMAIN data /\ ~data[k].tombstoned
  <2>0. data[k] \in CacheAlignedValue
    BY <1>1 DEF TypeOK
  <2>1. data' = [data EXCEPT ![k].tombstoned = TRUE]
    BY <1>1 DEF Del
  <2>2. /\ DOMAIN data' = DOMAIN data /\ data'[k].tombstoned = TRUE
        /\ data'[k].created_at = data[k].created_at
        /\ \A j \in DOMAIN data : j # k => data'[j] = data[j]
    BY <1>1, <2>0, <2>1 DEF CacheAlignedValue
  <2>3. Content(data', k) = {}
    BY <2>2 DEF Content
  <2>4. ASSUME NEW j \in Keys \ {k} PROVE Content(data', j) = Content(data, j)
    BY <2>2, <2>4 DEF Content
  <2> QED
    BY <2>2, <2>3, <2>4 DEF Becomes
<1>2. CASE ~(k \in DOMAIN data /\ ~data[k].tombstoned)
  <2>1. UNCHANGED data /\ Content(data, k) = {}
    BY <1>2 DEF Del, Content
  <2> QED
    BY <2>1, SameBecomes
<1> QED
  BY <1>1, <1>2

LEMMA EvictBecomes ==
  ASSUME TypeOK, NEW k \in Keys, EvictExpired(k) PROVE TypeOK' /\ Becomes(k, {})
<1>1. /\ DOMAIN data' = DOMAIN data \ {k}
      /\ \A j \in DOMAIN data' : data'[j] = data[j]
      /\ now' = now
  BY DEF EvictExpired
<1>2. TypeOK'
  BY EvictEffect, <1>1 DEF EvictExpired, TypeOK, DataType
<1>3. Content(data', k) = {}
  BY <1>1 DEF Content
<1>4. ASSUME NEW j \in Keys \ {k} PROVE Content(data', j) = Content(data, j)
  BY <1>1, <1>4 DEF Content
<1> QED
  BY <1>1, <1>2, <1>3, <1>4 DEF Becomes

(* SET with any TTL that parse can yield. *)
LEMMA SetBecomes ==
  ASSUME TypeOK, NEW k \in Keys, NEW v \in Values, NEW ttl \in Int, Set(k, v, ttl)
  PROVE  TypeOK' /\ Becomes(k, {[data |-> String(v), ttl |-> ttl]})
<1>1. NewEntry(String(v), ttl) \in CacheAlignedValue
  BY NewEntryType, VariantTypes DEF TypeOK
<1>2. TypeOK' /\ Starts(k, String(v), ttl)
  BY <1>1, AssignEffect DEF Set, TypeOK, DataType, Starts
<1> QED
  BY <1>2, StartsBecomes

(* An entry is alive when its content would be alive on replay. *)
FreshAgrees(k) == Live(k) <=> Fresh(Content(data, k)) # {}

LEMMA LPushBecomes ==
  ASSUME TypeOK, NEW k \in Keys, NEW v \in Values, FreshAgrees(k),
         LPush(k, v) \/ WrongType(k, "list")
  PROVE  TypeOK' /\ Becomes(k, Apply(Content(data, k), <<"LPUSH", k, v>>))
<1> DEFINE A == Content(data, k)
           B == Apply(A, <<"LPUSH", k, v>>)
<1>0. B = IF Fresh(A) = {} THEN {[data |-> List(<<v>>), ttl |-> DefaultTTL]}
          ELSE {Pushed(a, v) : a \in A}
  <2> HIDE DEF A
  <2> QED
    BY DEF Apply
<1>1. CASE WrongType(k, "list")
  <2>1. /\ k \in DOMAIN data /\ ~data[k].tombstoned /\ data[k].data.type # "list"
        /\ Live(k) /\ UNCHANGED <<data, now>>
    BY <1>1 DEF WrongType, Live, IsType
  <2>2. A = {[data |-> data[k].data, ttl |-> data[k].ttl_seconds]}
    BY <2>1 DEF Content
  <2>3. \A a \in A : Pushed(a, v) = a
    BY <2>1, <2>2 DEF Pushed
  <2>4. Fresh(A) # {}
    BY <2>1 DEF FreshAgrees
  <2> HIDE DEF A
  <2>5. B = A
    BY <1>0, <2>3, <2>4
  <2> QED
    BY <2>1, <2>5, SameBecomes DEF TypeOK, A
<1>2. CASE LPush(k, v) /\ Live(k)
  <2> DEFINE w == List(Append(data[k].data.list, v))
  <2>1. TypeOK' /\ Continues(k, w) /\ data[k].data.type = "list"
    BY <1>2, LPushEffect DEF IsType
  <2>2. A = {[data |-> data[k].data, ttl |-> data[k].ttl_seconds]}
          /\ Becomes(k, {[data |-> w, ttl |-> data[k].ttl_seconds]})
    BY <2>1, ContinuesBecomes
  <2>3. Fresh(A) # {}
    BY <1>2 DEF FreshAgrees
  <2>4. Pushed([data |-> data[k].data, ttl |-> data[k].ttl_seconds], v)
          = [data |-> w, ttl |-> data[k].ttl_seconds]
    BY <2>1 DEF Pushed
  <2> HIDE DEF A, w
  <2>5. B = {[data |-> w, ttl |-> data[k].ttl_seconds]}
    BY <1>0, <2>2, <2>3, <2>4
  <2> QED
    BY <2>1, <2>2, <2>5 DEF A
<1>3. CASE LPush(k, v) /\ ~Live(k)
  <2>1. TypeOK' /\ Starts(k, List(<<v>>), DefaultTTL)
    BY <1>3, LPushEffect DEF Continues
  <2>2. Fresh(A) = {}
    BY <1>3 DEF FreshAgrees
  <2> HIDE DEF A
  <2>3. B = {[data |-> List(<<v>>), ttl |-> DefaultTTL]}
    BY <1>0, <2>2
  <2> QED
    BY <2>1, <2>3, StartsBecomes DEF A
<1> QED
  BY <1>1, <1>2, <1>3

LEMMA HSetBecomes ==
  ASSUME TypeOK, NEW k \in Keys, NEW f \in Fields, NEW v \in Values, FreshAgrees(k),
         HSet(k, f, v) \/ WrongType(k, "hash")
  PROVE  TypeOK' /\ Becomes(k, Apply(Content(data, k), <<"HSET", k, f, v>>))
<1> DEFINE A == Content(data, k)
           B == Apply(A, <<"HSET", k, f, v>>)
<1>0. B = IF Fresh(A) = {} THEN {[data |-> Hash([g \in {f} |-> v]), ttl |-> DefaultTTL]}
          ELSE {Put(a, f, v) : a \in A}
  <2> HIDE DEF A
  <2> QED
    BY DEF Apply
<1>1. CASE WrongType(k, "hash")
  <2>1. /\ k \in DOMAIN data /\ ~data[k].tombstoned /\ data[k].data.type # "hash"
        /\ Live(k) /\ UNCHANGED <<data, now>>
    BY <1>1 DEF WrongType, Live, IsType
  <2>2. A = {[data |-> data[k].data, ttl |-> data[k].ttl_seconds]}
    BY <2>1 DEF Content
  <2>3. \A a \in A : Put(a, f, v) = a
    BY <2>1, <2>2 DEF Put
  <2>4. Fresh(A) # {}
    BY <2>1 DEF FreshAgrees
  <2> HIDE DEF A
  <2>5. B = A
    BY <1>0, <2>3, <2>4
  <2> QED
    BY <2>1, <2>5, SameBecomes DEF TypeOK, A
<1>2. CASE HSet(k, f, v) /\ Live(k)
  <2> DEFINE w == Hash(WithField(data[k].data.hash, f, v))
  <2>1. TypeOK' /\ Continues(k, w) /\ data[k].data.type = "hash"
    BY <1>2, HSetEffect DEF IsType
  <2>2. A = {[data |-> data[k].data, ttl |-> data[k].ttl_seconds]}
          /\ Becomes(k, {[data |-> w, ttl |-> data[k].ttl_seconds]})
    BY <2>1, ContinuesBecomes
  <2>3. Fresh(A) # {}
    BY <1>2 DEF FreshAgrees
  <2>4. Put([data |-> data[k].data, ttl |-> data[k].ttl_seconds], f, v)
          = [data |-> w, ttl |-> data[k].ttl_seconds]
    BY <2>1 DEF Put
  <2> HIDE DEF A, w
  <2>5. B = {[data |-> w, ttl |-> data[k].ttl_seconds]}
    BY <1>0, <2>2, <2>3, <2>4
  <2> QED
    BY <2>1, <2>2, <2>5 DEF A
<1>3. CASE HSet(k, f, v) /\ ~Live(k)
  <2>1. TypeOK' /\ Starts(k, Hash([g \in {f} |-> v]), DefaultTTL)
    BY <1>3, HSetEffect DEF Continues
  <2>2. Fresh(A) = {}
    BY <1>3 DEF FreshAgrees
  <2> HIDE DEF A
  <2>3. B = {[data |-> Hash([g \in {f} |-> v]), ttl |-> DefaultTTL]}
    BY <1>0, <2>2
  <2> QED
    BY <2>1, <2>3, StartsBecomes DEF A
<1> QED
  BY <1>1, <1>2, <1>3
-----------------------------------------------------------------------------
(* What replay makes of a line is the command that the line spells. *)
LEMMA ReadBack ==
  ASSUME NEW l \in LogLine
  PROVE  /\ Parse(l) \in ParsedCommand /\ Parse(l).name \in {"SET", "DEL", "LPUSH", "HSET"}
         /\ Serialize(Parse(l)) = l /\ Parse(l).key = l[2] /\ l[2] \in Keys
         /\ KeysOf(l) = {l[2]}
<1>1. ASSUME \E k \in Keys, v \in Values, t \in Int : l = <<"SET", k, v, t>>
      PROVE  /\ Parse(l) \in ParsedCommand /\ Parse(l).name \in {"SET", "DEL", "LPUSH", "HSET"}
             /\ Serialize(Parse(l)) = l /\ Parse(l).key = l[2] /\ l[2] \in Keys
  <2>1. PICK k \in Keys, v \in Values, t \in Int : l = <<"SET", k, v, t>>
    BY <1>1
  <2>2. Parse(l) = [name |-> "SET", key |-> k, value |-> v, ttl |-> t]
    BY <2>1, ParseLines
  <2> QED
    BY <2>1, <2>2 DEF ParsedCommand, Serialize
<1>2. ASSUME \E k \in Keys : l = <<"DEL", k>>
      PROVE  /\ Parse(l) \in ParsedCommand /\ Parse(l).name \in {"SET", "DEL", "LPUSH", "HSET"}
             /\ Serialize(Parse(l)) = l /\ Parse(l).key = l[2] /\ l[2] \in Keys
  <2>1. PICK k \in Keys : l = <<"DEL", k>>
    BY <1>2
  <2>2. Parse(l) = [name |-> "DEL", key |-> k]
    BY <2>1, ParseLines
  <2> QED
    BY <2>1, <2>2 DEF ParsedCommand, Serialize
<1>3. ASSUME \E k \in Keys, v \in Values : l = <<"LPUSH", k, v>>
      PROVE  /\ Parse(l) \in ParsedCommand /\ Parse(l).name \in {"SET", "DEL", "LPUSH", "HSET"}
             /\ Serialize(Parse(l)) = l /\ Parse(l).key = l[2] /\ l[2] \in Keys
  <2>1. PICK k \in Keys, v \in Values : l = <<"LPUSH", k, v>>
    BY <1>3
  <2>2. Parse(l) = [name |-> "LPUSH", key |-> k, value |-> v]
    BY <2>1, ParseLines
  <2> QED
    BY <2>1, <2>2 DEF ParsedCommand, Serialize
<1>4. ASSUME \E k \in Keys, f \in Fields, v \in Values : l = <<"HSET", k, f, v>>
      PROVE  /\ Parse(l) \in ParsedCommand /\ Parse(l).name \in {"SET", "DEL", "LPUSH", "HSET"}
             /\ Serialize(Parse(l)) = l /\ Parse(l).key = l[2] /\ l[2] \in Keys
  <2>1. PICK k \in Keys, f \in Fields, v \in Values : l = <<"HSET", k, f, v>>
    BY <1>4
  <2>2. Parse(l) = [name |-> "HSET", key |-> k, field |-> f, value |-> v]
    <3>1. Parse(<<"HSET", k, f, v>>) = [name |-> "HSET", key |-> k, field |-> f, value |-> v]
      BY DEF Parse
    <3> QED
      BY <2>1, <3>1
  <2> QED
    BY <2>1, <2>2 DEF ParsedCommand, Serialize
<1>5. /\ Parse(l) \in ParsedCommand /\ Parse(l).name \in {"SET", "DEL", "LPUSH", "HSET"}
      /\ Serialize(Parse(l)) = l /\ Parse(l).key = l[2] /\ l[2] \in Keys
  BY <1>1, <1>2, <1>3, <1>4 DEF LogLine, Overwriting
<1>6. Parse(l) # Null
  BY <1>5, PersistenceAssumption
<1>7. KeysOf(l) = {l[2]}
  <2> HIDE DEF Parse
  <2> QED
    BY <1>5, <1>6 DEF KeysOf, Writes
<1> QED
  BY <1>5, <1>7

(* A line of the log or what a torn line reads as: a command that writes, or not. *)
Lines == LogLine \cup Readings

LEMMA LineIs ==
  ASSUME NEW l \in Lines
  PROVE  /\ Parse(l) \in ParsedCommand \cup {Null}
         /\ ~Writes(Parse(l)) => KeysOf(l) = {}
         /\ Writes(Parse(l)) => Parse(l) \in ParsedCommand /\ KeysOf(l) = {Parse(l).key}
         /\ KeysOf(l) \subseteq Keys
<1>1. Parse(l) \in ParsedCommand \cup {Null}
  BY ReadBack, PersistenceAssumption DEF Lines
<1>2. /\ Writes(Parse(l)) => KeysOf(l) = {Parse(l).key}
      /\ ~Writes(Parse(l)) => KeysOf(l) = {}
  BY DEF KeysOf
<1>3. Writes(Parse(l)) => Parse(l) \in ParsedCommand /\ Parse(l).key \in Keys
  BY <1>1 DEF Writes, ParsedCommand
<1> QED
  BY <1>1, <1>2, <1>3

(* A command that is not logged changes nothing. *)
LEMMA NotLogged ==
  ASSUME NEW c, Execute(c), ~Logs(c)
  PROVE  UNCHANGED <<data, now>>
<1>1. CASE c.name = "SET"
  BY <1>1 DEF Execute, Logs, Set, OutOfMemory
<1>2. CASE c.name = "DEL"
  BY <1>2 DEF Execute, Logs, Del
<1>3. CASE c.name = "LPUSH"
  BY <1>3 DEF Execute, Logs, LPush, WrongType, OutOfMemory, Number, OOM, WRONGTYPE
<1>4. CASE c.name = "HSET"
  BY <1>4 DEF Execute, Logs, HSet, WrongType, OutOfMemory, Number, OOM, WRONGTYPE
<1>5. CASE c.name \notin {"SET", "DEL", "LPUSH", "HSET"}
  BY <1>5 DEF Execute, Get, Exists, Ping, LRange, HGet, WrongType
<1> QED
  BY <1>1, <1>2, <1>3, <1>4, <1>5

(* Whatever a command that can be logged does, it does to its key. *)
LEMMA ExecuteTouches ==
  ASSUME TypeOK, NEW c \in ParsedCommand, c.name \in {"SET", "DEL", "LPUSH", "HSET"},
         Execute(c)
  PROVE  TypeOK' /\ now' = now /\ c.key \in Keys /\ \E A : Becomes(c.key, A)
<1>1. CASE c.name = "SET"
  <2>1. c.key \in Keys /\ c.value \in Values /\ c.ttl \in Int
    BY <1>1 DEF ParsedCommand
  <2>2. CASE Set(c.key, c.value, c.ttl)
    BY <2>1, <2>2, SetBecomes DEF Set
  <2>3. CASE OutOfMemory
    BY <2>1, <2>3, SameBecomes DEF OutOfMemory, TypeOK
  <2> QED
    BY <1>1, <2>2, <2>3 DEF Execute
<1>2. CASE c.name = "DEL"
  <2>1. c.key \in Keys /\ Del(c.key)
    BY <1>2 DEF ParsedCommand, Execute
  <2> QED
    BY <2>1, DelBecomes, DelEffect DEF Del
<1>3. CASE c.name = "LPUSH"
  <2>1. c.key \in Keys /\ c.value \in Values
    BY <1>3 DEF ParsedCommand
  <2>2. CASE LPush(c.key, c.value)
    BY <2>1, <2>2, LPushEffect, StartsBecomes, ContinuesBecomes DEF LPush
  <2>3. CASE OutOfMemory \/ WrongType(c.key, "list")
    BY <2>1, <2>3, SameBecomes DEF OutOfMemory, WrongType, TypeOK
  <2> QED
    BY <1>3, <2>2, <2>3 DEF Execute
<1>4. CASE c.name = "HSET"
  <2>1. c.key \in Keys /\ c.field \in Fields /\ c.value \in Values
    BY <1>4 DEF ParsedCommand
  <2>2. CASE HSet(c.key, c.field, c.value)
    <3>1. TypeOK' /\ ((\E w : Continues(c.key, w)) \/ \E w : Starts(c.key, w, DefaultTTL))
      BY <2>1, <2>2, HSetEffect
    <3>2. \E A : Becomes(c.key, A)
      BY <2>1, <3>1, StartsBecomes, ContinuesBecomes
    <3> QED
      BY <2>1, <2>2, <3>1, <3>2 DEF HSet
  <2>3. CASE OutOfMemory \/ WrongType(c.key, "hash")
    BY <2>1, <2>3, SameBecomes DEF OutOfMemory, WrongType, TypeOK
  <2> QED
    BY <1>4, <2>2, <2>3 DEF Execute
<1> QED
  BY <1>1, <1>2, <1>3, <1>4

(* And it does what the replay of its line would, unless memory ran out. *)
LEMMA ExecuteBecomes ==
  ASSUME TypeOK, NEW c \in ParsedCommand, c.name \in {"SET", "DEL", "LPUSH", "HSET"},
         Execute(c), reply' # OOM,
         c.name \in {"LPUSH", "HSET"} => FreshAgrees(c.key)
  PROVE  Becomes(c.key, Apply(Content(data, c.key), Serialize(c)))
<1>0. ~OutOfMemory
  BY DEF OutOfMemory
<1>1. CASE c.name = "SET"
  <2>1. c.key \in Keys /\ c.value \in Values /\ c.ttl \in Int /\ Set(c.key, c.value, c.ttl)
    BY <1>0, <1>1 DEF ParsedCommand, Execute
  <2>2. Serialize(c) = <<"SET", c.key, c.value, c.ttl>>
    BY <1>1 DEF Serialize
  <2> QED
    <3>1. Apply(Content(data, c.key), Serialize(c)) =
            {[data |-> String(c.value), ttl |-> c.ttl]}
      BY <2>2 DEF Apply
    <3> QED
      BY <2>1, <3>1, SetBecomes
<1>2. CASE c.name = "DEL"
  <2>1. c.key \in Keys /\ Del(c.key)
    BY <1>2 DEF ParsedCommand, Execute
  <2>2. Serialize(c) = <<"DEL", c.key>>
    BY <1>2 DEF Serialize
  <2> QED
    <3>1. Apply(Content(data, c.key), Serialize(c)) = {}
      BY <2>2 DEF Apply
    <3> QED
      BY <2>1, <3>1, DelBecomes
<1>3. CASE c.name = "LPUSH"
  <2>1. /\ c.key \in Keys /\ c.value \in Values
        /\ LPush(c.key, c.value) \/ WrongType(c.key, "list")
    BY <1>0, <1>3 DEF ParsedCommand, Execute
  <2>2. Serialize(c) = <<"LPUSH", c.key, c.value>>
    BY <1>3 DEF Serialize
  <2> QED
    BY <1>3, <2>1, <2>2, LPushBecomes
<1>4. CASE c.name = "HSET"
  <2>1. /\ c.key \in Keys /\ c.field \in Fields /\ c.value \in Values
        /\ HSet(c.key, c.field, c.value) \/ WrongType(c.key, "hash")
    BY <1>0, <1>4 DEF ParsedCommand, Execute
  <2>2. Serialize(c) = <<"HSET", c.key, c.field, c.value>>
    BY <1>4 DEF Serialize
  <2> QED
    BY <1>4, <2>1, <2>2, HSetBecomes
<1> QED
  BY <1>1, <1>2, <1>3, <1>4
-----------------------------------------------------------------------------
(* The changes that wait to be logged are those of SET, DEL and the sweeper. *)
Change == [by : {"worker", "sweeper"}, line : Overwriting]

Reasons == {"order", "expiry", "lost", "torn", "skipped", "memory"}

(***************************************************************************)
(* The inductive invariant about types.  No entry is younger than the      *)
(* clock; during replay nothing waits, the log is what replay finds in the *)
(* file, and no time has passed since an entry was made.  A fragment stays *)
(* the last thing that was replayed until a line is joined to it.          *)
(***************************************************************************)
FileTyped == /\ torn \in BOOLEAN /\ durable \in Nat
             /\ Readable <= Len(entries)
             /\ torn => position <= Readable

Typed == /\ TypeOK
         /\ phase \in {"replay", "up"}
         /\ entries \in Seq(Lines) /\ position \in 0 .. Len(entries)
         /\ FileTyped
         /\ pending \in Seq(Change)
         /\ excused \subseteq Keys \X Reasons

Aged == \A k \in DOMAIN data : data[k].created_at <= now

Replaying == phase = "replay" =>
               /\ pending = <<>> /\ Readable = Len(entries)
               /\ \A k \in DOMAIN data : data[k].created_at = now

Skipping == phase = "up" => \A k \in Keys : <<k, "skipped">> \notin excused

Bounded == Cardinality(By("worker")) <= MaxWorkers /\ Cardinality(By("sweeper")) <= 1

FileInv == Typed /\ Aged /\ Replaying /\ Skipping /\ Bounded

LEMMA LogKeys ==
  ASSUME NEW s \in Seq(Lines) PROVE KeysIn(s) \subseteq Keys
<1>1. ASSUME NEW i \in DOMAIN s PROVE KeysOf(s[i]) \subseteq Keys
  <2>1. s[i] \in Lines
    OBVIOUS
  <2> QED
    BY <2>1, LineIs
<1> QED
  BY <1>1 DEF KeysIn

LEMMA FileInvGivesType == FileInv => PersistenceTypeOK
<1> SUFFICES ASSUME FileInv PROVE PersistenceTypeOK
  OBVIOUS
<1>1. KeysIn(entries) \subseteq Keys
  BY LogKeys DEF FileInv, Typed
<1>2. torn \in BOOLEAN /\ durable \in Nat /\ Readable <= Len(entries)
  BY DEF FileInv, Typed, FileTyped
<1> QED
  BY <1>1, <1>2 DEF FileInv, Typed, Bounded, PersistenceTypeOK, Reasons

(* Steps that do not touch the file. *)
LEMMA FileSame ==
  ASSUME FileTyped, UNCHANGED <<durable, torn, position>>, Len(entries) \in Nat,
         Len(entries') \in Nat, Len(entries) <= Len(entries')
  PROVE  FileTyped' /\ Readable' = Readable
<1>1. Readable' = Readable
  BY DEF Readable
<1>2. Readable \in Nat
  BY DEF FileTyped, Readable
<1>3. Readable <= Len(entries) /\ durable \in Nat
  BY DEF FileTyped
<1>4. Readable' <= Len(entries') /\ durable' \in Nat
  BY <1>1, <1>2, <1>3
<1>5. torn' \in BOOLEAN /\ (torn' => position' <= Readable')
  BY <1>1, Zenon DEF FileTyped
<1> QED
  BY <1>1, <1>4, <1>5 DEF FileTyped

LEMMA FileInvInit == PersistenceInit => FileInv
<1> SUFFICES ASSUME PersistenceInit PROVE FileInv
  OBVIOUS
<1>1. TypeOK
  BY InitTypeOK DEF PersistenceInit
<1>2. data = [k \in {} |-> Nil] /\ now = 0
  BY DEF PersistenceInit, Init
<1>3. /\ entries = <<>> /\ durable = 0 /\ torn = FALSE /\ phase = "up" /\ position = 0
      /\ pending = <<>> /\ excused = {}
  BY DEF PersistenceInit, LogInit
<1>4. Typed
  <2>1. FileTyped
    <3>1. Readable = 0 /\ Len(entries) = 0
      BY <1>3 DEF Readable
    <3>2. Readable <= Len(entries) /\ durable \in Nat
      BY <1>3, <3>1
    <3> QED
      BY <1>3, <3>2, Zenon DEF FileTyped
  <2>2. entries \in Seq(Lines) /\ position \in 0 .. Len(entries) /\ pending \in Seq(Change)
    BY <1>3
  <2> QED
    BY <1>1, <1>3, <2>1, <2>2 DEF Typed
<1>5. Aged /\ Replaying /\ Skipping
  BY <1>2, <1>3 DEF Aged, Replaying, Skipping
<1>6. \A who : By(who) = {}
  BY <1>3 DEF By
<1>7. Bounded
  BY <1>6, FS_EmptySet, PersistenceAssumption DEF Bounded
<1> QED
  BY <1>4, <1>5, <1>7 DEF FileInv

(* Those that wait for the same log() are finitely many. *)
LEMMA ByFinite ==
  ASSUME pending \in Seq(Change), NEW who
  PROVE  IsFiniteSet(By(who)) /\ By(who) \subseteq 1 .. Len(pending)
<1>1. By(who) \subseteq 1 .. Len(pending)
  BY DEF By
<1>2. IsFiniteSet(1 .. Len(pending))
  BY FS_Interval
<1> QED
  BY <1>1, <1>2, FS_Subset

(* One more waits. *)
LEMMA ByAppend ==
  ASSUME pending \in Seq(Change), NEW e \in Change, pending' = Append(pending, e), NEW who
  PROVE  /\ pending' \in Seq(Change)
         /\ e.by = who => Cardinality(By(who)') = Cardinality(By(who)) + 1
         /\ e.by # who => By(who)' = By(who)
<1>1. /\ pending' \in Seq(Change) /\ Len(pending') = Len(pending) + 1
      /\ pending'[Len(pending) + 1] = e
      /\ \A i \in 1 .. Len(pending) : pending'[i] = pending[i]
      /\ DOMAIN pending' = 1 .. Len(pending) + 1 /\ DOMAIN pending = 1 .. Len(pending)
      /\ Len(pending) \in Nat
  OBVIOUS
<1>2. CASE e.by = who
  <2>1. By(who)' = By(who) \cup {Len(pending) + 1}
    BY <1>1, <1>2 DEF By
  <2>2. Len(pending) + 1 \notin By(who) /\ IsFiniteSet(By(who))
    BY <1>1, ByFinite
  <2> QED
    BY <1>1, <1>2, <2>1, <2>2, FS_AddElement, ZenonT(40)
<1>3. CASE e.by # who
  BY <1>1, <1>3 DEF By
<1> QED
  BY <1>1, <1>2, <1>3

LEMMA RemoveAtIs ==
  ASSUME NEW S, NEW s \in Seq(S), NEW i \in 1 .. Len(s)
  PROVE  /\ Seqs!RemoveAt(s, i) \in Seq(S)
         /\ Len(Seqs!RemoveAt(s, i)) = Len(s) - 1
         /\ \A j \in 1 .. Len(s) - 1 : Seqs!RemoveAt(s, i)[j] = IF j < i THEN s[j] ELSE s[j + 1]
<1>1. PICK a, b : a = SubSeq(s, 1, i - 1) /\ b = SubSeq(s, i + 1, Len(s))
  OBVIOUS
<1>2. Seqs!RemoveAt(s, i) = a \o b
  BY <1>1 DEF Seqs!RemoveAt
<1>3. a \in Seq(S) /\ Len(a) = i - 1 /\ \A j \in 1 .. i - 1 : a[j] = s[j]
  BY <1>1
<1>4. b \in Seq(S) /\ Len(b) = Len(s) - i /\ \A j \in 1 .. Len(s) - i : b[j] = s[j + i]
  BY <1>1
<1>5. a \o b \in Seq(S) /\ Len(a \o b) = Len(s) - 1
  <2>1. a \in Seq(S) /\ b \in Seq(S)
    BY <1>3, <1>4
  <2>2. a \o b \in Seq(S) /\ Len(a \o b) = Len(a) + Len(b)
    BY <2>1
  <2> QED
    BY <1>3, <1>4, <2>2
<1>6. ASSUME NEW j \in 1 .. Len(s) - 1 PROVE (a \o b)[j] = IF j < i THEN s[j] ELSE s[j + 1]
  <2>1. CASE j < i
    BY <1>3, <1>4, <2>1
  <2>2. CASE ~(j < i)
    <3>1. (a \o b)[j] = b[j - Len(a)]
      BY <1>3, <1>4, <2>2
    <3>2. j - Len(a) \in 1 .. Len(s) - i /\ (j - Len(a)) + i = j + 1
      BY <1>3, <2>2
    <3> QED
      BY <1>4, <2>2, <3>1, <3>2
  <2> QED
    BY <2>1, <2>2
<1> QED
  BY <1>2, <1>5, <1>6

(* One that waited is logged. *)
LEMMA ByRemove ==
  ASSUME pending \in Seq(Change), NEW i \in DOMAIN pending,
         pending' = Seqs!RemoveAt(pending, i), NEW who
  PROVE  /\ pending' \in Seq(Change)
         /\ Cardinality(By(who)) \in Nat /\ Cardinality(By(who)') \in 0 .. Cardinality(By(who))
<1> DEFINE shift == [j \in By(who) |-> IF j < i THEN j ELSE j - 1]
           T == {shift[j] : j \in By(who)}
<1>1. /\ pending' \in Seq(Change) /\ Len(pending') = Len(pending) - 1 /\ Len(pending) \in Nat
      /\ i \in 1 .. Len(pending)
      /\ \A j \in 1 .. Len(pending) - 1 : pending'[j] = IF j < i THEN pending[j] ELSE pending[j + 1]
  <2>1. i \in 1 .. Len(pending) /\ Len(pending) \in Nat
    OBVIOUS
  <2> QED
    BY <2>1, RemoveAtIs
<1>2. DOMAIN pending' = 1 .. Len(pending) - 1 /\ DOMAIN pending = 1 .. Len(pending)
  BY <1>1
<1>3. shift \in Surjection(By(who), T)
  BY DEF Surjection
<1>4. IsFiniteSet(By(who))
  BY ByFinite
<1>5. IsFiniteSet(T) /\ Cardinality(T) <= Cardinality(By(who))
  BY <1>3, <1>4, FS_Surjection
<1>6. ASSUME NEW j \in By(who)' PROVE j \in T
  <2>1. j \in 1 .. Len(pending) - 1 /\ pending'[j].by = who
    BY <1>2 DEF By
  <2>2. CASE j < i
    <3>1. j \in By(who) /\ shift[j] = j
      BY <1>1, <1>2, <2>1, <2>2 DEF By
    <3> QED
      BY <3>1
  <2>3. CASE ~(j < i)
    <3>1. j + 1 \in By(who) /\ shift[j + 1] = j
      BY <1>1, <1>2, <2>1, <2>3 DEF By
    <3> QED
      BY <3>1
  <2> QED
    BY <2>2, <2>3
<1>7. Cardinality(By(who)') <= Cardinality(T)
  BY <1>5, <1>6, FS_Subset
<1>8. Cardinality(By(who)') \in Nat /\ Cardinality(T) \in Nat /\ Cardinality(By(who)) \in Nat
  BY <1>4, <1>5, <1>6, FS_Subset, FS_CardinalityType
<1> QED
  BY <1>1, <1>5, <1>7, <1>8

(* A command that calls log(), and the line it logs. *)
LEMMA LoggedLine ==
  ASSUME NEW c \in ParsedCommand, Logs(c)
  PROVE  /\ c.name \in {"SET", "DEL", "LPUSH", "HSET"} /\ reply' # OOM
         /\ Serialize(c) \in LogLine /\ Serialize(c)[2] = c.key /\ c.key \in Keys
         /\ ~LogsLocked(c) => Serialize(c) \in Overwriting
<1>1. c.name \in {"SET", "DEL", "LPUSH", "HSET"} /\ reply' # OOM
  BY DEF Logs, OK, OOM, Number
<1>2. Serialize(c) \in LogLine /\ Parse(Serialize(c)) = c
  BY <1>1, RoundTrip
<1>3. Serialize(c)[2] = c.key /\ c.key \in Keys
  BY <1>2, ReadBack
<1>4. CASE c.name = "SET"
  <2>1. c.key \in Keys /\ c.value \in Values /\ c.ttl \in Int
    BY <1>4 DEF ParsedCommand
  <2>2. Serialize(c) = <<"SET", c.key, c.value, c.ttl>>
    BY <1>4 DEF Serialize
  <2> QED
    BY <1>1, <1>2, <1>3, <2>1, <2>2 DEF Overwriting
<1>5. CASE c.name = "DEL"
  <2>1. Serialize(c) = <<"DEL", c.key>>
    BY <1>5 DEF Serialize
  <2> QED
    BY <1>1, <1>2, <1>3, <2>1 DEF Overwriting
<1>6. CASE c.name \in {"LPUSH", "HSET"}
  BY <1>1, <1>2, <1>3, <1>6 DEF LogsLocked
<1> QED
  BY <1>1, <1>4, <1>5, <1>6

LEMMA AgedStep ==
  ASSUME now \in Nat, Aged, now' = now, NEW k, NEW A, Becomes(k, A) PROVE Aged'
  BY DEF Aged, Becomes

LEMMA LogAppend ==
  ASSUME entries \in Seq(Lines), NEW l \in LogLine, LogCommand(l)
  PROVE  /\ entries' \in Seq(Lines) /\ Len(entries') = Len(entries) + 1
         /\ entries'[Len(entries) + 1] = l
         /\ \A i \in 1 .. Len(entries) : entries'[i] = entries[i]
         /\ Len(entries) \in Nat /\ durable' = durable /\ torn' = torn
<1>1. l \in Lines
  BY DEF Lines
<1> QED
  BY <1>1 DEF LogCommand

LEMMA RequestFileInv ==
  ASSUME FileInv, NEW tokens \in Requests, Request(tokens) PROVE FileInv'
<1> DEFINE c == Parse(tokens)
<1>1. /\ phase = "up" /\ phase' = phase /\ position' = position
      /\ Cardinality(By("worker")) < MaxWorkers /\ c \in ParsedCommand /\ Execute(c)
  BY PersistenceAssumption DEF Request
<1>2. Typed /\ Aged /\ Skipping /\ Bounded /\ now \in Nat /\ TypeOK
  BY DEF FileInv, Typed, TypeOK
<1>3. CASE ~Logs(c)
  <2>1. UNCHANGED <<data, now, pending, entries, durable, torn, excused>>
    BY <1>1, <1>3, NotLogged DEF Request, logVars
  <2> QED
    <3>1. FileTyped' /\ Readable' = Readable
      BY <1>1, <1>2, <2>1, FileSame DEF Typed
    <3> QED
      BY <1>1, <2>1, <3>1 DEF FileInv, Typed, TypeOK, Aged, Replaying, Skipping, Bounded, By
<1>4. CASE Logs(c)
  <2> DEFINE l == Serialize(c)
  <2>1. /\ c.name \in {"SET", "DEL", "LPUSH", "HSET"}
        /\ l \in LogLine /\ l[2] = c.key /\ c.key \in Keys
        /\ ~LogsLocked(c) => l \in Overwriting
    BY <1>1, <1>4, LoggedLine
  <2>2. TypeOK' /\ now' = now /\ \E A : Becomes(c.key, A)
    BY <1>1, <1>2, <2>1, ExecuteTouches
  <2>3. Aged' /\ Replaying'
    BY <1>1, <1>2, <2>2, AgedStep DEF Replaying
  <2>4. CASE ~LogsLocked(c)
    <3>1. /\ pending' = Append(pending, [by |-> "worker", line |-> l])
          /\ UNCHANGED <<entries, durable, torn, excused>>
      BY <1>4, <2>4 DEF Request, logVars
    <3>2. [by |-> "worker", line |-> l] \in Change
      BY <2>1, <2>4 DEF Change
    <3>3. /\ pending' \in Seq(Change)
          /\ Cardinality(By("worker")') = Cardinality(By("worker")) + 1
          /\ By("sweeper")' = By("sweeper")
      BY <1>2, <3>1, <3>2, ByAppend DEF Typed
    <3>4. Cardinality(By("worker")) \in Nat
      BY <1>2, ByFinite, FS_CardinalityType DEF Typed
    <3>5. Bounded'
      BY <1>1, <1>2, <3>3, <3>4, PersistenceAssumption DEF Bounded
    <3>6. FileTyped'
      BY <1>1, <1>2, <3>1, FileSame DEF Typed
    <3>7. Typed' /\ Skipping'
      BY <1>1, <1>2, <2>2, <3>1, <3>3, <3>6 DEF Typed, Skipping
    <3> QED
      BY <2>3, <3>5, <3>7 DEF FileInv
  <2>5. CASE LogsLocked(c)
    <3>1. /\ LogCommand(l) /\ pending' = pending
          /\ excused' = (excused \cup {k \in {c.key} : Lapsed(k)} \X {"expiry"})
                          \cup ({c.key} \cap PendingKeys(Len(pending))) \X {"order"}
      BY <1>4, <2>5 DEF Request
    <3>2. excused' \subseteq Keys \X Reasons
      BY <1>2, <2>1, <3>1 DEF Typed, Reasons
    <3>3. \A k \in Keys : <<k, "skipped">> \notin excused'
      BY <1>1, <1>2, <3>1 DEF Skipping
    <3>4. Typed'
      <4>1. /\ entries' \in Seq(Lines) /\ Len(entries') = Len(entries) + 1
            /\ Len(entries) \in Nat /\ durable' = durable /\ torn' = torn
        BY <1>2, <2>1, <3>1, LogAppend DEF Typed
      <4>2. FileTyped'
        BY <1>1, <1>2, <4>1, FileSame DEF Typed
      <4> QED
        BY <1>1, <1>2, <2>2, <3>1, <3>2, <4>1, <4>2 DEF Typed
    <3>5. Bounded' /\ Skipping'
      BY <1>2, <3>1, <3>3 DEF Bounded, By, Skipping
    <3> QED
      BY <2>3, <3>4, <3>5 DEF FileInv
  <2> QED
    BY <2>4, <2>5
<1> QED
  BY <1>3, <1>4

LEMMA SweepFileInv ==
  ASSUME FileInv, NEW k \in Keys, Sweep(k) PROVE FileInv'
<1> DEFINE e == [by |-> "sweeper", line |-> <<"DEL", k>>]
<1>1. /\ phase = "up" /\ phase' = phase /\ position' = position /\ By("sweeper") = {}
      /\ EvictExpired(k) /\ pending' = Append(pending, e)
      /\ UNCHANGED <<entries, durable, torn, excused>>
  BY DEF Sweep, logVars
<1>2. Typed /\ Aged /\ Skipping /\ Bounded /\ now \in Nat /\ TypeOK
  BY DEF FileInv, Typed, TypeOK
<1>3. TypeOK' /\ now' = now /\ Becomes(k, {})
  BY <1>1, <1>2, EvictBecomes DEF EvictExpired
<1>4. Aged' /\ Replaying'
  BY <1>1, <1>2, <1>3, AgedStep DEF Replaying
<1>5. e \in Change /\ e.by = "sweeper"
  BY DEF Change, Overwriting
<1>6. /\ pending' \in Seq(Change)
      /\ Cardinality(By("sweeper")') = Cardinality(By("sweeper")) + 1
      /\ By("worker")' = By("worker")
  BY <1>1, <1>2, <1>5, ByAppend DEF Typed
<1>7. Bounded'
  <2>0. Cardinality(By("sweeper")) = 0
    BY <1>1, FS_EmptySet, Zenon
  <2>1. Cardinality(By("sweeper")') = 1
    BY <1>6, <2>0
  <2> QED
    BY <1>2, <1>6, <2>1 DEF Bounded
<1>8. Typed' /\ Skipping'
  <2>1. FileTyped'
    BY <1>1, <1>2, FileSame DEF Typed
  <2> QED
    BY <1>1, <1>2, <1>3, <1>6, <2>1 DEF Typed, Skipping
<1> QED
  BY <1>4, <1>7, <1>8 DEF FileInv

LEMMA LogPendingFileInv ==
  ASSUME FileInv, NEW i \in DOMAIN pending, LogPending(i) PROVE FileInv'
<1> DEFINE l == pending[i].line
<1>1. /\ LogCommand(l) /\ pending' = Seqs!RemoveAt(pending, i)
      /\ excused' = excused \cup ({l[2]} \cap PendingKeys(i - 1)) \X {"order"}
      /\ UNCHANGED <<data, now, phase, position>>
  BY DEF LogPending
<1>2. Typed /\ Aged /\ Replaying /\ Skipping /\ Bounded
  BY DEF FileInv
<1>3. pending[i] \in Change
  BY <1>2 DEF Typed
<1>4. l \in LogLine /\ l[2] \in Keys
  BY <1>3, ReadBack DEF Change, LogLine
<1>5. phase = "up"
  BY <1>2 DEF Replaying, Typed
<1>6. excused' \subseteq Keys \X Reasons /\ \A k \in Keys : <<k, "skipped">> \notin excused'
  BY <1>1, <1>2, <1>4, <1>5 DEF Typed, Reasons, Skipping
<1>7. /\ pending' \in Seq(Change)
      /\ \A who : /\ Cardinality(By(who)) \in Nat
                  /\ Cardinality(By(who)') \in 0 .. Cardinality(By(who))
  BY <1>1, <1>2, ByRemove DEF Typed
<1>8. Typed'
  <2>1. /\ entries' \in Seq(Lines) /\ Len(entries') = Len(entries) + 1
        /\ Len(entries) \in Nat /\ durable' = durable /\ torn' = torn
    BY <1>1, <1>2, <1>4, LogAppend DEF Typed
  <2>2. FileTyped'
    BY <1>1, <1>2, <2>1, FileSame DEF Typed
  <2> QED
    BY <1>1, <1>2, <1>6, <1>7, <2>1, <2>2 DEF Typed, TypeOK
<1>9. Bounded'
  BY <1>2, <1>7, PersistenceAssumption DEF Bounded
<1>10. Aged' /\ Replaying' /\ Skipping'
  BY <1>1, <1>2, <1>5, <1>6 DEF Aged, Replaying, Skipping
<1> QED
  BY <1>8, <1>9, <1>10 DEF FileInv

LEMMA FileBounds ==
  ASSUME Typed
  PROVE  /\ durable \in Nat /\ Readable \in Nat /\ Len(entries) \in Nat
         /\ Readable \in 0 .. Len(entries) /\ durable \in 0 .. Len(entries)
         /\ torn \in BOOLEAN /\ entries \in Seq(Lines)
<1>1. durable \in Nat /\ Readable <= Len(entries) /\ torn \in BOOLEAN
  BY DEF Typed, FileTyped
<1>2. entries \in Seq(Lines) /\ Len(entries) \in Nat
  BY DEF Typed
<1>3. Readable \in Nat /\ durable <= Readable
  BY <1>1 DEF Readable
<1> QED
  BY <1>1, <1>2, <1>3

(* The lines of the log that a process leaves when it ends between lines ... *)
LEMMA CrashBetweenIs ==
  ASSUME Typed, CrashBetween
  PROVE  /\ entries' \in Seq(Lines) /\ Len(entries') = Readable
         /\ \A i \in 1 .. Readable : entries'[i] = entries[i]
         /\ durable' = durable /\ torn' = torn /\ Readable' = Readable
         /\ Readable \in 0 .. Len(entries) /\ Len(entries) \in Nat
<1>1. Readable \in 0 .. Len(entries) /\ Len(entries) \in Nat /\ entries \in Seq(Lines)
  BY FileBounds
<1>2. entries' = SubSeq(entries, 1, Readable) /\ durable' = durable /\ torn' = torn
  BY DEF CrashBetween
<1>3. Readable' = Readable
  BY <1>2 DEF Readable
<1> QED
  BY <1>1, <1>2, <1>3

(* ... and inside one. *)
LEMMA CrashInsideIs ==
  ASSUME Typed, NEW r \in Readings, CrashInside(r)
  PROVE  /\ entries' \in Seq(Lines) /\ Len(entries') = durable + 1
         /\ \A i \in 1 .. durable : entries'[i] = entries[i]
         /\ entries'[durable + 1] = r
         /\ durable' = durable /\ torn' = TRUE /\ Readable' = durable + 1
         /\ durable \in 0 .. Len(entries) /\ Len(entries) \in Nat /\ Readable < Len(entries)
<1>1. /\ durable \in 0 .. Len(entries) /\ Len(entries) \in Nat /\ entries \in Seq(Lines)
      /\ durable \in Nat
  BY FileBounds
<1>2. /\ entries' = Append(SubSeq(entries, 1, durable), r) /\ durable' = durable
      /\ torn' = TRUE /\ Readable < Len(entries)
  BY DEF CrashInside
<1>3. PICK s : s = SubSeq(entries, 1, durable)
  OBVIOUS
<1>4. s \in Seq(Lines) /\ Len(s) = durable /\ \A i \in 1 .. durable : s[i] = entries[i]
  BY <1>1, <1>3
<1>5. r \in Lines
  BY DEF Lines
<1>6. Readable' = durable + 1
  BY <1>2 DEF Readable
<1>7. /\ Append(s, r) \in Seq(Lines) /\ Len(Append(s, r)) = durable + 1
      /\ Append(s, r)[durable + 1] = r /\ \A i \in 1 .. durable : Append(s, r)[i] = s[i]
  BY <1>1, <1>4, <1>5
<1> QED
  BY <1>1, <1>2, <1>3, <1>4, <1>6, <1>7

(* The log after a line has been joined to the fragment. *)
LEMMA JoinedIs ==
  ASSUME entries \in Seq(Lines), durable \in Nat, durable + 2 <= Len(entries),
         NEW r \in Readings
  PROVE  /\ Joined(r) \in Seq(Lines) /\ Len(Joined(r)) = Len(entries) - 1
         /\ \A i \in 1 .. durable : Joined(r)[i] = entries[i]
         /\ Joined(r)[durable + 1] = r
         /\ \A i \in (durable + 2) .. (Len(entries) - 1) : Joined(r)[i] = entries[i + 1]
<1>0. PICK n : n = Len(entries)
  OBVIOUS
<1>1. n \in Nat /\ r \in Lines /\ durable + 2 <= n
  BY <1>0 DEF Lines
<1>2. PICK a, b : a = SubSeq(entries, 1, durable) /\ b = SubSeq(entries, durable + 3, n)
  OBVIOUS
<1>3. a \in Seq(Lines) /\ Len(a) = durable /\ \A i \in 1 .. durable : a[i] = entries[i]
  BY <1>0, <1>1, <1>2
<1>4. /\ b \in Seq(Lines) /\ Len(b) = n - (durable + 2)
      /\ \A i \in 1 .. n - (durable + 2) : b[i] = entries[i + (durable + 2)]
  BY <1>0, <1>1, <1>2
<1>5. PICK c : c = Append(a, r)
  OBVIOUS
<1>6. /\ c \in Seq(Lines) /\ Len(c) = durable + 1 /\ c[durable + 1] = r
      /\ \A i \in 1 .. durable : c[i] = a[i]
  BY <1>1, <1>3, <1>5
<1>7. a \o <<r>> = c
  BY <1>1, <1>3, <1>5, AppendIsConcat
<1>8. Joined(r) = c \o b
  BY <1>0, <1>2, <1>7 DEF Joined
<1>9. PICK d : d = c \o b
  OBVIOUS
<1>10. /\ d \in Seq(Lines) /\ Len(d) = Len(c) + Len(b)
       /\ \A i \in 1 .. Len(d) : d[i] = IF i <= Len(c) THEN c[i] ELSE b[i - Len(c)]
  <2>1. c \in Seq(Lines) /\ b \in Seq(Lines)
    BY <1>4, <1>6
  <2> QED
    BY <1>9, <2>1, ConcatProperties
<1>11. Len(d) = n - 1
  BY <1>1, <1>4, <1>6, <1>10
<1>12. \A i \in (durable + 2) .. (n - 1) : d[i] = entries[i + 1]
  <2> SUFFICES ASSUME NEW i \in (durable + 2) .. (n - 1) PROVE d[i] = entries[i + 1]
    OBVIOUS
  <2>1. PICK m : m = i - (durable + 1)
    OBVIOUS
  <2>2. m \in 1 .. n - (durable + 2) /\ m + (durable + 2) = i + 1
    BY <1>1, <2>1
  <2>3. i \in 1 .. Len(d) /\ ~(i <= Len(c)) /\ i - Len(c) = m
    BY <1>1, <1>6, <1>11, <2>1
  <2>4. d[i] = b[m]
    BY <1>10, <2>3
  <2> QED
    BY <1>4, <2>2, <2>4
<1>13. d[durable + 1] = r /\ \A i \in 1 .. durable : d[i] = entries[i]
  BY <1>1, <1>3, <1>6, <1>10, <1>11
<1> QED
  BY <1>0, <1>8, <1>9, <1>10, <1>11, <1>12, <1>13

LEMMA MissingKeys == ASSUME Typed, NEW n \in 0 .. Len(entries) PROVE Missing(n) \subseteq Keys
<1>1. ASSUME NEW i \in 1 .. Len(pending) PROVE pending[i].line[2] \in Keys
  <2>1. pending[i] \in Change
    BY DEF Typed
  <2> QED
    BY <2>1, ReadBack DEF Change, LogLine
<1>2. PendingKeys(Len(pending)) \subseteq Keys
  BY <1>1 DEF PendingKeys
<1>3. SubSeq(entries, n + 1, Len(entries)) \in Seq(Lines)
  BY DEF Typed
<1> QED
  BY <1>2, <1>3, LogKeys DEF Missing

LEMMA KillFileInv ==
  ASSUME FileInv, Kill PROVE FileInv'
<1>1. /\ now' = now
      /\ data' = Empty /\ pending' = <<>> /\ phase' = "replay" /\ position' = 0
  BY DEF Kill
<1>2. Typed
  BY DEF FileInv
<1>3. DOMAIN data' = {} /\ TypeOK'
  BY <1>1, <1>2 DEF Typed, TypeOK, Empty
<1>4. /\ entries' \in Seq(Lines) /\ Readable' = Len(entries') /\ Len(entries') \in Nat
      /\ durable' \in Nat /\ torn' \in BOOLEAN
      /\ excused' \subseteq Keys \X Reasons
  <2>1. CASE CrashBetween
    <3>1. /\ entries' \in Seq(Lines) /\ Readable' = Len(entries')
          /\ Readable \in 0 .. Len(entries)
          /\ durable' \in Nat /\ torn' \in BOOLEAN
      BY <1>2, <2>1, CrashBetweenIs, FileBounds
    <3>2. Missing(Readable) \subseteq Keys /\ Missing(durable) \subseteq Keys
      BY <1>2, <3>1, MissingKeys, FileBounds
    <3>3. \A r \in Readings : KeysOf(r) \subseteq Keys
      BY LineIs DEF Lines
    <3>4. excused' \subseteq Keys \X Reasons
      BY <1>2, <3>2, <3>3, SMTT(40) DEF Kill, Typed, Reasons
    <3> QED
      BY <3>1, <3>4
  <2>2. ASSUME NEW r \in Readings, CrashInside(r),
               excused' = (excused \cup Missing(durable) \X {"lost"}) \cup KeysOf(r) \X {"torn"}
        PROVE  /\ entries' \in Seq(Lines) /\ Readable' = Len(entries')
               /\ durable' \in Nat /\ torn' \in BOOLEAN
               /\ excused' \subseteq Keys \X Reasons
    <3>1. /\ entries' \in Seq(Lines) /\ Readable' = Len(entries')
          /\ durable' \in Nat /\ torn' \in BOOLEAN /\ durable \in 0 .. Len(entries)
      BY <1>2, <2>2, CrashInsideIs, FileBounds
    <3>2. Missing(durable) \subseteq Keys
      BY <1>2, <3>1, MissingKeys
    <3>3. KeysOf(r) \subseteq Keys
      BY LineIs DEF Lines
    <3>4. excused' \subseteq Keys \X Reasons
      BY <1>2, <2>2, <3>2, <3>3 DEF Typed, Reasons
    <3> QED
      BY <3>1, <3>4
  <2>3. CrashBetween \/ \E r \in Readings :
          /\ CrashInside(r)
          /\ excused' = (excused \cup Missing(durable) \X {"lost"}) \cup KeysOf(r) \X {"torn"}
    BY DEF Kill
  <2> QED
    BY <2>1, <2>2, <2>3
<1>5. FileTyped'
  <2>1. Readable' <= Len(entries') /\ position' <= Readable'
    BY <1>1, <1>4
  <2> QED
    BY <1>4, <2>1 DEF FileTyped
<1>6. Typed'
  BY <1>1, <1>2, <1>3, <1>4, <1>5 DEF Typed
<1>7. Aged' /\ Replaying' /\ Skipping'
  BY <1>1, <1>3, <1>4 DEF Aged, Replaying, Skipping
<1>8. \A who : By(who)' = {}
  BY <1>1 DEF By
<1>9. Bounded'
  BY <1>8, FS_EmptySet, PersistenceAssumption DEF Bounded
<1> QED
  BY <1>6, <1>7, <1>9 DEF FileInv

LEMMA FlushFileInv ==
  ASSUME FileInv, Flush PROVE FileInv'
<1>1. UNCHANGED <<data, now, phase, position, pending>> /\ Persist
  BY DEF Flush
<1>2. Typed /\ Aged /\ Replaying /\ Skipping /\ Bounded
  BY DEF FileInv
<1>3. Len(entries) \in Nat /\ durable \in Nat /\ phase \in {"replay", "up"}
  BY <1>2, FileBounds DEF Typed
<1>4. CASE ~torn
  <2>1. /\ durable' \in (durable + 1) .. Len(entries) /\ UNCHANGED <<entries, torn, excused>>
    BY <1>1, <1>4 DEF Flush, Persist
  <2>2. phase = "up"
    BY <1>2, <1>3, <1>4, <2>1 DEF Replaying, Readable
  <2>3. FileTyped'
    <3>1. ~torn' /\ Readable' = durable'
      BY <1>4, <2>1 DEF Readable
    <3>2. durable' \in Nat /\ durable' <= Len(entries')
      BY <1>3, <2>1
    <3>3. torn' \in BOOLEAN
      BY <1>2, <2>1, FileBounds
    <3> QED
      BY <3>1, <3>2, <3>3, Zenon DEF FileTyped
  <2>4. Typed'
    BY <1>1, <1>2, <2>1, <2>3 DEF Typed, TypeOK
  <2> QED
    BY <1>1, <1>2, <2>1, <2>2, <2>4 DEF FileInv, Aged, Replaying, Skipping, Bounded, By
<1>5. CASE torn
  <2>1. /\ durable' \in (durable + 1) .. (Len(entries) - 1) /\ torn' = FALSE
        /\ \E r \in Readings : entries' = Joined(r)
    BY <1>1, <1>5 DEF Persist
  <2>2. PICK r \in Readings : entries' = Joined(r)
    BY <2>1
  <2>3. durable + 2 <= Len(entries)
    BY <1>3, <2>1
  <2>4. /\ entries' \in Seq(Lines) /\ Len(entries') = Len(entries) - 1
        /\ entries'[durable + 1] = r
    BY <1>2, <1>3, <2>2, <2>3, JoinedIs DEF Typed
  <2>5. phase = "up"
    BY <1>2, <1>3, <1>5, <2>3 DEF Replaying, Readable
  <2>6. position \in 0 .. Len(entries')
    <3>1. Readable = durable + 1
      BY <1>5 DEF Readable
    <3>2. position <= Readable
      BY <1>2, <1>5 DEF Typed, FileTyped
    <3>3. position \in Nat
      BY <1>2 DEF Typed
    <3> QED
      BY <1>3, <2>3, <2>4, <3>1, <3>2, <3>3
  <2>7. PICK K : /\ K \subseteq Keys /\ excused' = excused \cup K \X {"torn"}
    <3>1. SubSeq(entries, durable + 1, durable + 2) \in Seq(Lines)
      BY <1>2, <1>3, <2>3 DEF Typed
    <3>2. KeysIn(SubSeq(entries, durable + 1, durable + 2)) \subseteq Keys
      BY <3>1, LogKeys
    <3>3. KeysOf(entries'[durable + 1]) \subseteq Keys
      BY <2>4, LineIs DEF Lines
    <3> QED
      BY <1>5, <3>2, <3>3 DEF Flush
  <2>8. Typed'
    <3>1. Readable' = durable'
      BY <2>1 DEF Readable
    <3>2. durable' \in Nat /\ durable' <= Len(entries')
      BY <1>3, <2>1, <2>4
    <3>3. FileTyped'
      BY <2>1, <3>1, <3>2 DEF FileTyped
    <3>4. excused' \subseteq Keys \X Reasons
      BY <1>2, <2>7 DEF Typed, Reasons
    <3> QED
      BY <1>1, <1>2, <2>4, <2>6, <3>3, <3>4 DEF Typed, TypeOK
  <2>9. Skipping'
    BY <1>1, <1>2, <2>5, <2>7 DEF Skipping
  <2> QED
    BY <1>1, <1>2, <2>5, <2>8, <2>9 DEF FileInv, Aged, Replaying, Bounded, By
<1> QED
  BY <1>4, <1>5

(* During replay no time passes. *)
LEMMA FreshOnReplay ==
  ASSUME TypeOK, NEW k \in Keys, \A j \in DOMAIN data : data[j].created_at = now
  PROVE  FreshAgrees(k)
<1>1. CASE k \in DOMAIN data /\ ~data[k].tombstoned
  <2>1. data[k].created_at = now /\ data[k].ttl_seconds \in Int /\ now \in Nat
    BY <1>1, EntryParts DEF TypeOK
  <2>2. Live(k) <=> data[k].ttl_seconds # 0
    BY <1>1, <2>1 DEF IsExpired, Live
  <2>3. PICK a : Content(data, k) = {a} /\ a.ttl = data[k].ttl_seconds
    <3>1. PICK a : a = [data |-> data[k].data, ttl |-> data[k].ttl_seconds]
      OBVIOUS
    <3> QED
      BY <1>1, <3>1 DEF Content
  <2>4. Fresh({a}) # {} <=> a.ttl # 0
    BY DEF Fresh
  <2> QED
    BY <2>2, <2>3, <2>4 DEF FreshAgrees
<1>2. CASE ~(k \in DOMAIN data /\ ~data[k].tombstoned)
  BY <1>2 DEF FreshAgrees, Live, Fresh, Content
<1> QED
  BY <1>1, <1>2

(* What replay of line l makes of content A of key k. *)
Step(A, l, k) == IF k \in KeysOf(l) THEN Apply(A, Serialize(Parse(l))) ELSE A

LEMMA ReplayEffect ==
  ASSUME Typed, Replaying, Replay, NEW l, l = entries[position + 1]
  PROVE  /\ l \in Lines /\ position + 1 \in 1 .. Len(entries)
         /\ TypeOK' /\ now' = now /\ \A k \in DOMAIN data' : data'[k].created_at = now
         /\ excused \subseteq excused'
         /\ excused' \subseteq excused \cup KeysOf(l) \X {"skipped"}
         /\ \A k \in Keys : <<k, "skipped">> \notin excused'
              => Content(data', k) = Step(Content(data, k), l, k)
<1>1. phase = "replay" /\ position < Len(entries)
  BY DEF Replay
<1>2. l \in Lines /\ position + 1 \in 1 .. Len(entries)
  BY <1>1 DEF Typed
<1>3. TypeOK /\ \A k \in DOMAIN data : data[k].created_at = now
  BY <1>1 DEF Typed, Replaying
<1>4. PICK c : c = Parse(l)
  OBVIOUS
<1>5. \/ c = Null /\ UNCHANGED <<data, now, excused>>
      \/ /\ c # Null /\ Execute(c)
         /\ excused' = IF reply' = OOM THEN excused \cup KeysOf(l) \X {"skipped"} ELSE excused
  BY <1>4 DEF Replay
<1>6. /\ c \in ParsedCommand \cup {Null} /\ KeysOf(l) \subseteq Keys
      /\ ~Writes(c) => KeysOf(l) = {}
      /\ Writes(c) => c \in ParsedCommand /\ KeysOf(l) = {c.key}
  BY <1>2, <1>4, LineIs
<1>7. CASE ~Writes(c)
  <2>1. KeysOf(l) = {}
    BY <1>6, <1>7
  <2>2. excused' = excused
    BY <1>5, <2>1
  <2>3. UNCHANGED <<data, now>>
    <3>1. CASE c = Null
      BY <1>5, <3>1
    <3>2. CASE c # Null
      <4>1. ~Logs(c)
        BY <1>7, <3>2 DEF Writes, Logs
      <4> QED
        BY <1>5, <3>2, <4>1, NotLogged
    <3> QED
      BY <3>1, <3>2
  <2>4. TypeOK'
    BY <1>3, <2>3 DEF TypeOK
  <2> QED
    BY <1>2, <1>3, <2>1, <2>2, <2>3, <2>4 DEF Step
<1>8. CASE Writes(c)
  <2>1. /\ c \in ParsedCommand /\ KeysOf(l) = {c.key} /\ c # Null
        /\ c.name \in {"SET", "DEL", "LPUSH", "HSET"}
    BY <1>6, <1>8 DEF Writes
  <2>2. /\ Execute(c)
        /\ excused' = IF reply' = OOM THEN excused \cup KeysOf(l) \X {"skipped"} ELSE excused
    BY <1>5, <2>1
  <2>3. TypeOK' /\ now' = now /\ c.key \in Keys
    BY <1>3, <2>1, <2>2, ExecuteTouches
  <2>4. PICK A : Becomes(c.key, A)
    BY <1>3, <2>1, <2>2, ExecuteTouches
  <2>5. \A k \in DOMAIN data' : data'[k].created_at = now
    BY <1>3, <2>4 DEF Becomes
  <2>6. FreshAgrees(c.key)
    BY <1>3, <2>3, FreshOnReplay
  <2>7. reply' # OOM => Becomes(c.key, Apply(Content(data, c.key), Serialize(c)))
    BY <1>3, <2>1, <2>2, <2>6, ExecuteBecomes
  <2>8. ASSUME NEW k \in Keys, <<k, "skipped">> \notin excused'
        PROVE  Content(data', k) = Step(Content(data, k), l, k)
    <3>1. CASE k = c.key
      <4>1. reply' # OOM
        BY <2>1, <2>2, <2>8, <3>1
      <4> QED
        BY <1>4, <2>1, <2>7, <3>1, <4>1 DEF Becomes, Step
    <3>2. CASE k # c.key
      BY <2>1, <2>4, <3>2 DEF Becomes, Step
    <3> QED
      BY <3>1, <3>2
  <2>9. excused \subseteq excused' /\ excused' \subseteq excused \cup KeysOf(l) \X {"skipped"}
    BY <2>2
  <2> QED
    BY <1>2, <2>3, <2>5, <2>8, <2>9
<1> QED
  BY <1>7, <1>8

LEMMA ReplayFileInv ==
  ASSUME FileInv, Replay PROVE FileInv'
<1>1. /\ phase = "replay" /\ position < Len(entries) /\ position' = position + 1
      /\ UNCHANGED <<entries, durable, torn, phase, pending>>
  BY DEF Replay, logVars
<1>2. Typed /\ Replaying /\ Bounded /\ now \in Nat
  BY DEF FileInv, Typed, TypeOK
<1>3. PICK l : l = entries[position + 1]
  OBVIOUS
<1>4. /\ l \in Lines /\ position + 1 \in 1 .. Len(entries)
      /\ TypeOK' /\ now' = now /\ \A k \in DOMAIN data' : data'[k].created_at = now
      /\ excused' \subseteq excused \cup KeysOf(l) \X {"skipped"}
  BY <1>2, <1>3, ReplayEffect
<1>5. Readable' = Readable
  BY <1>1 DEF Readable
<1>6. Aged' /\ Replaying' /\ Skipping'
  BY <1>1, <1>2, <1>4, <1>5 DEF Aged, Replaying, Skipping
<1>7. excused' \subseteq Keys \X Reasons
  <2>1. KeysOf(l) \subseteq Keys
    BY <1>4, LineIs
  <2> QED
    BY <1>2, <1>4, <2>1 DEF Typed, Reasons
<1>8. Typed'
  <2>1. position' \in 0 .. Len(entries') /\ position' <= Readable'
    BY <1>1, <1>2, <1>4, <1>5 DEF Replaying
  <2>2. FileTyped'
    BY <1>1, <1>2, <1>5, <2>1, Zenon DEF Typed, FileTyped
  <2> QED
    BY <1>1, <1>2, <1>4, <1>7, <2>1, <2>2 DEF Typed
<1>9. Bounded'
  BY <1>1, <1>2 DEF Bounded, By
<1> QED
  BY <1>6, <1>8, <1>9 DEF FileInv

LEMMA FileInvStep ==
  FileInv /\ [PersistenceNext]_persistenceVars => FileInv'
<1> SUFFICES ASSUME FileInv, [PersistenceNext]_persistenceVars PROVE FileInv'
  OBVIOUS
<1>1. ASSUME NEW tokens \in Requests, Request(tokens) PROVE FileInv'
  BY <1>1, RequestFileInv
<1>2. ASSUME NEW k \in Keys, Sweep(k) PROVE FileInv'
  BY <1>2, SweepFileInv
<1>3. ASSUME NEW i \in DOMAIN pending, LogPending(i) PROVE FileInv'
  BY <1>3, LogPendingFileInv
<1>4. CASE Flush
  BY <1>4, FlushFileInv
<1>5. CASE Kill
  BY <1>5, KillFileInv
<1>6. CASE Replay
  BY <1>6, ReplayFileInv
<1>7. CASE StartUp
  <2>1. /\ phase' = "up" /\ UNCHANGED <<data, now, entries, durable, torn, position, pending>>
        /\ excused' \subseteq Keys \X {"memory"}
    BY <1>7 DEF StartUp, logVars
  <2>2. excused' \subseteq Keys \X Reasons /\ \A k \in Keys : <<k, "skipped">> \notin excused'
    BY <2>1 DEF Reasons
  <2> QED
    <3>1. FileTyped'
      BY <2>1, FileSame DEF FileInv, Typed
    <3> QED
      BY <2>1, <2>2, <3>1 DEF FileInv, Typed, TypeOK, Aged, Replaying, Skipping, Bounded, By
<1>8. CASE Clock
  <2>1. /\ phase = "up" /\ now' = now + 1
        /\ UNCHANGED <<data, entries, durable, torn, phase, position, pending, excused>>
    BY <1>8 DEF Clock, Tick, logVars
  <2>2. TypeOK' /\ Aged'
    <3>1. ASSUME NEW k \in DOMAIN data PROVE data[k].created_at \in Nat
      BY EntryParts DEF FileInv, Typed, TypeOK
    <3> QED
      BY <2>1, <3>1 DEF FileInv, Typed, TypeOK, Aged
  <2> QED
    <3>1. FileTyped'
      BY <2>1, FileSame DEF FileInv, Typed
    <3> QED
      BY <2>1, <2>2, <3>1 DEF FileInv, Typed, Replaying, Skipping, Bounded, By
<1>9. CASE UNCHANGED persistenceVars
  <2>1. FileTyped' /\ Readable' = Readable
    BY <1>9, FileSame DEF persistenceVars, FileInv, Typed
  <2> QED
    BY <1>9, <2>1 DEF persistenceVars, FileInv, Typed, TypeOK, Aged, Replaying, Skipping,
                      Bounded, By
<1> QED
  BY <1>1, <1>2, <1>3, <1>4, <1>5, <1>6, <1>7, <1>8, <1>9 DEF PersistenceNext, Terminated

(***************************************************************************)
(* The types, that replay and flushing stay within the log, and that no    *)
(* more changes wait for their log() than there are threads to make them.  *)
(***************************************************************************)
THEOREM PersistenceTypeCorrect == PersistenceSpec => []PersistenceTypeOK
  BY FileInvInit, FileInvStep, FileInvGivesType, PTL DEF PersistenceSpec
-----------------------------------------------------------------------------
(***************************************************************************)
(* f[i] is the content of k after the first i lines of a log es.  The last *)
(* conjunct follows from the others, by an induction.                      *)
(***************************************************************************)
Trace(f, es, n, k) ==
  /\ f[0] = {}
  /\ \A i \in 1 .. n : f[i] = Step(f[i - 1], es[i], k)
  /\ \A i, j \in 0 .. n :
       i <= j /\ (\A m \in (i + 1) .. j : k \notin KeysOf(es[m])) => f[i] = f[j]

(* The first n lines of es leave k with content A. *)
Says(A, es, n, k) == \E f : Trace(f, es, n, k) /\ f[n] = A

(* The changes of k that wait, by their place. *)
Waits(k) == {i \in DOMAIN pending : pending[i].line[2] = k}

IsLastWait(i, k) == i \in Waits(k) /\ \A j \in Waits(k) : j <= i

(* Key k is what the log, which leaves it with content A, and the changes that wait say. *)
UpToDate(A, k) ==
  /\ Waits(k) = {} => Content(data, k) = A
  /\ \A i \in DOMAIN pending : IsLastWait(i, k) => Content(data, k) = Apply({}, pending[i].line)

UpAgrees == phase = "up" =>
  \A k \in Keys \ Excused(Reasons) :
    \E A : Says(A, entries, Len(entries), k) /\ UpToDate(A, k)

(* Replay has brought key k to where the log was, on its way to where it ended. *)
OnItsWay(f, k) ==
  /\ Trace(f, entries, Len(entries), k) /\ f[Len(entries)] = Content(before, k)
  /\ k \notin Excused({"skipped"}) => Content(data, k) = f[position]

ReplayAgrees == phase = "replay" =>
  \A k \in Keys :
    /\ k \notin Excused({"skipped"}) => Says(Content(data, k), entries, position, k)
    /\ k \notin Excused(Reasons \ {"skipped"}) => \E f : OnItsWay(f, k)

(***************************************************************************)
(* The inductive invariant of replay: the log explains the store, key by   *)
(* key.  Whole lines cannot be asked to: the keys that a torn line harms   *)
(* have a log that says something else until the next replay.              *)
(***************************************************************************)
ReplayInv == FileInv /\ UpAgrees /\ ReplayAgrees

LEMMA NothingSaid == ASSUME NEW es, NEW k PROVE Says({}, es, 0, k)
<1>1. PICK f : f = [i \in {0} |-> {}]
  OBVIOUS
<1>2. f[0] = {}
  BY <1>1
<1>3. \A i, j \in 0 .. 0 : i = j
  OBVIOUS
<1>4. Trace(f, es, 0, k)
  BY <1>2, <1>3 DEF Trace
<1> QED
  BY <1>2, <1>4 DEF Says

(* A log that begins like another says the same so far. *)
LEMMA TracePrefix ==
  ASSUME NEW n \in Nat, NEW d \in 0 .. n, NEW k, NEW es, NEW other, NEW f, Trace(f, es, n, k),
         \A i \in 1 .. d : other[i] = es[i]
  PROVE  Trace(f, other, d, k)
<1>1. f[0] = {}
  BY DEF Trace
<1>2. ASSUME NEW i \in 1 .. d PROVE f[i] = Step(f[i - 1], other[i], k)
  <2>1. i \in 1 .. n /\ other[i] = es[i]
    OBVIOUS
  <2> QED
    BY <2>1 DEF Trace
<1>3. ASSUME NEW i \in 0 .. d, NEW j \in 0 .. d, i <= j,
             \A m \in (i + 1) .. j : k \notin KeysOf(other[m])
      PROVE  f[i] = f[j]
  <2>1. \A m \in (i + 1) .. j : k \notin KeysOf(es[m])
    <3> SUFFICES ASSUME NEW m \in (i + 1) .. j PROVE k \notin KeysOf(es[m])
      OBVIOUS
    <3>1. m \in 1 .. d
      OBVIOUS
    <3> QED
      BY <1>3, <3>1
  <2>2. i \in 0 .. n /\ j \in 0 .. n
    OBVIOUS
  <2> QED
    BY <1>3, <2>1, <2>2 DEF Trace
<1> QED
  BY <1>1, <1>2, <1>3 DEF Trace

LEMMA SaysSame ==
  ASSUME NEW n \in Nat, NEW k, NEW es, NEW other, NEW A, Says(A, es, n, k),
         \A i \in 1 .. n : other[i] = es[i]
  PROVE  Says(A, other, n, k)
<1>1. PICK f : Trace(f, es, n, k) /\ f[n] = A
  BY DEF Says
<1>2. n \in 0 .. n
  OBVIOUS
<1>3. Trace(f, other, n, k)
  BY <1>1, <1>2, TracePrefix
<1> QED
  BY <1>1, <1>3 DEF Says

(* Lines at the end that do not touch k say nothing of it. *)
LEMMA SaysBefore ==
  ASSUME NEW n \in Nat, NEW d \in 0 .. n, NEW k, NEW es, NEW A, Says(A, es, n, k),
         \A m \in (d + 1) .. n : k \notin KeysOf(es[m])
  PROVE  Says(A, es, d, k)
<1>1. PICK f : Trace(f, es, n, k) /\ f[n] = A
  BY DEF Says
<1>2. Trace(f, es, d, k)
  BY <1>1, TracePrefix
<1>3. f[d] = f[n]
  <2>1. d \in 0 .. n /\ n \in 0 .. n /\ d <= n
    OBVIOUS
  <2> QED
    BY <1>1, <2>1 DEF Trace
<1> QED
  BY <1>1, <1>2, <1>3 DEF Says

(* One line more. *)
LEMMA SaysMore ==
  ASSUME NEW n \in Nat, NEW k, NEW es, NEW A, Says(A, es, n, k)
  PROVE  Says(Step(A, es[n + 1], k), es, n + 1, k)
<1>1. PICK f : Trace(f, es, n, k) /\ f[n] = A
  BY DEF Says
<1>2. PICK B, l : B = Step(A, l, k) /\ l = es[n + 1]
  OBVIOUS
<1>3. PICK g : g = [i \in 0 .. n + 1 |-> IF i = n + 1 THEN B ELSE f[i]]
  OBVIOUS
<1>4. g[n + 1] = B /\ \A i \in 0 .. n : g[i] = f[i]
  BY <1>3
<1>5. g[0] = {}
  BY <1>1, <1>4 DEF Trace
<1>6. ASSUME NEW i \in 1 .. n + 1 PROVE g[i] = Step(g[i - 1], es[i], k)
  <2>1. CASE i = n + 1
    <3>1. g[i - 1] = A /\ es[i] = l
      BY <1>1, <1>2, <1>4, <2>1
    <3> QED
      BY <1>2, <1>4, <2>1, <3>1
  <2>2. CASE i \in 1 .. n
    <3>1. g[i] = f[i] /\ g[i - 1] = f[i - 1]
      BY <1>4, <2>2
    <3> QED
      BY <1>1, <2>2, <3>1 DEF Trace
  <2> QED
    BY <2>1, <2>2
<1>7. ASSUME NEW i \in 0 .. n + 1, NEW j \in 0 .. n + 1, i <= j,
             \A m \in (i + 1) .. j : k \notin KeysOf(es[m])
      PROVE  g[i] = g[j]
  <2>1. CASE j \in 0 .. n
    <3>1. i \in 0 .. n
      BY <1>7, <2>1
    <3>2. f[i] = f[j]
      BY <1>1, <1>7, <2>1, <3>1 DEF Trace
    <3> QED
      BY <1>4, <2>1, <3>1, <3>2
  <2>2. CASE j = n + 1 /\ i \in 0 .. n
    <3>1. k \notin KeysOf(l) /\ \A m \in (i + 1) .. n : k \notin KeysOf(es[m])
      BY <1>2, <1>7, <2>2
    <3>2. n \in 0 .. n /\ i <= n
      BY <2>2
    <3>3. f[i] = f[n]
      BY <1>1, <2>2, <3>1, <3>2 DEF Trace
    <3>4. B = A
      BY <1>2, <3>1 DEF Step
    <3> QED
      BY <1>1, <1>4, <2>2, <3>3, <3>4
  <2>3. CASE i = j
    BY <2>3
  <2> QED
    BY <1>7, <2>1, <2>2, <2>3
<1>8. Trace(g, es, n + 1, k)
  BY <1>5, <1>6, <1>7 DEF Trace
<1> QED
  BY <1>2, <1>4, <1>8 DEF Says

(* Two lines become one, and none of the three touches k. *)
LEMMA SaysJoined ==
  ASSUME NEW n \in Nat, NEW d \in Nat, d + 2 <= n, NEW k, NEW es, NEW other, NEW A,
         Says(A, es, n, k),
         \A i \in 1 .. d : other[i] = es[i],
         \A i \in (d + 2) .. (n - 1) : other[i] = es[i + 1],
         k \notin KeysOf(es[d + 1]), k \notin KeysOf(es[d + 2]), k \notin KeysOf(other[d + 1])
  PROVE  Says(A, other, n - 1, k)
<1>1. PICK f : Trace(f, es, n, k) /\ f[n] = A
  BY DEF Says
<1>2. PICK g : g = [i \in 0 .. (n - 1) |-> IF i <= d THEN f[i] ELSE f[i + 1]]
  OBVIOUS
<1>3. /\ \A i \in 0 .. d : g[i] = f[i]
      /\ \A i \in (d + 1) .. (n - 1) : g[i] = f[i + 1]
  BY <1>2
<1>4. f[d] = f[d + 2]
  <2>1. \A m \in (d + 1) .. (d + 2) : k \notin KeysOf(es[m])
    <3> SUFFICES ASSUME NEW m \in (d + 1) .. (d + 2) PROVE k \notin KeysOf(es[m])
      OBVIOUS
    <3>1. m = d + 1 \/ m = d + 2
      OBVIOUS
    <3> QED
      BY <3>1
  <2>2. d \in 0 .. n /\ d + 2 \in 0 .. n /\ d <= d + 2
    OBVIOUS
  <2> QED
    BY <1>1, <2>1, <2>2 DEF Trace
<1>5. g[0] = {}
  BY <1>1, <1>3 DEF Trace
<1>6. ASSUME NEW i \in 1 .. (n - 1) PROVE g[i] = Step(g[i - 1], other[i], k)
  <2>1. CASE i <= d
    <3>1. g[i] = f[i] /\ g[i - 1] = f[i - 1] /\ other[i] = es[i] /\ i \in 1 .. n
      BY <1>3, <2>1
    <3> QED
      BY <1>1, <3>1 DEF Trace
  <2>2. CASE i = d + 1
    <3>1. g[i] = f[d + 2] /\ g[i - 1] = f[d]
      <4>1. i \in (d + 1) .. (n - 1) /\ i + 1 = d + 2 /\ i - 1 = d /\ d \in 0 .. d
        BY <2>2
      <4> QED
        BY <1>3, <4>1
    <3>2. Step(g[i - 1], other[i], k) = g[i - 1]
      BY <2>2 DEF Step
    <3> QED
      BY <1>4, <3>1, <3>2
  <2>3. CASE i >= d + 2
    <3>1. /\ i \in (d + 1) .. (n - 1) /\ i - 1 \in (d + 1) .. (n - 1) /\ (i - 1) + 1 = i
          /\ i + 1 \in 1 .. n /\ (i + 1) - 1 = i /\ i \in (d + 2) .. (n - 1)
      BY <2>3
    <3>2. g[i] = f[i + 1] /\ g[i - 1] = f[i] /\ other[i] = es[i + 1]
      BY <1>3, <3>1
    <3>3. f[i + 1] = Step(f[i], es[i + 1], k)
      BY <1>1, <3>1 DEF Trace
    <3> QED
      BY <3>2, <3>3
  <2> QED
    BY <2>1, <2>2, <2>3
<1>7. ASSUME NEW i \in 0 .. (n - 1), NEW j \in 0 .. (n - 1), i <= j,
             \A m \in (i + 1) .. j : k \notin KeysOf(other[m])
      PROVE  g[i] = g[j]
  <2>1. CASE j <= d
    <3>1. /\ i \in 0 .. d /\ j \in 0 .. d /\ i \in 0 .. n /\ j \in 0 .. n
      BY <1>7, <2>1
    <3>2. \A m \in (i + 1) .. j : k \notin KeysOf(es[m])
      <4> SUFFICES ASSUME NEW m \in (i + 1) .. j PROVE k \notin KeysOf(es[m])
        OBVIOUS
      <4>1. m \in 1 .. d
        BY <2>1
      <4> QED
        BY <1>7, <4>1
    <3>3. f[i] = f[j]
      BY <1>1, <1>7, <3>1, <3>2 DEF Trace
    <3> QED
      BY <1>3, <3>1, <3>3
  <2>2. CASE j > d
    <3>1. PICK a : a = IF i <= d THEN i ELSE i + 1
      OBVIOUS
    <3>2. /\ a \in 0 .. n /\ j + 1 \in 0 .. n /\ a <= j + 1
          /\ j \in (d + 1) .. (n - 1)
          /\ i <= d => i \in 0 .. d
          /\ ~(i <= d) => i \in (d + 1) .. (n - 1)
      BY <1>7, <2>2, <3>1
    <3>3. g[i] = f[a] /\ g[j] = f[j + 1]
      BY <1>3, <3>1, <3>2
    <3>4. \A m \in (a + 1) .. (j + 1) : k \notin KeysOf(es[m])
      <4> SUFFICES ASSUME NEW m \in (a + 1) .. (j + 1) PROVE k \notin KeysOf(es[m])
        OBVIOUS
      <4>1. CASE m <= d
        <5>1. m \in 1 .. d /\ m \in (i + 1) .. j
          BY <2>2, <3>1, <4>1
        <5> QED
          BY <1>7, <5>1
      <4>2. CASE m = d + 1 \/ m = d + 2
        BY <4>2
      <4>3. CASE m > d + 2
        <5>1. PICK h : h = m - 1
          OBVIOUS
        <5>2. h \in (d + 2) .. (n - 1) /\ h \in (i + 1) .. j /\ h + 1 = m
          BY <2>2, <3>1, <4>3, <5>1
        <5>3. other[h] = es[m]
          BY <5>2
        <5> QED
          BY <1>7, <5>2, <5>3
      <4> QED
        BY <3>2, <4>1, <4>2, <4>3
    <3>5. f[a] = f[j + 1]
      BY <1>1, <3>2, <3>4 DEF Trace
    <3> QED
      BY <3>3, <3>5
  <2> QED
    BY <2>1, <2>2
<1>8. n - 1 \in (d + 1) .. (n - 1) /\ (n - 1) + 1 = n
  OBVIOUS
<1>9. g[n - 1] = A
  BY <1>1, <1>3, <1>8
<1>10. Trace(g, other, n - 1, k)
  BY <1>5, <1>6, <1>7 DEF Trace
<1> QED
  BY <1>9, <1>10 DEF Says

LEMMA ReplayInvGivesRestores == ReplayInv => ReplayRestores
<1> SUFFICES ASSUME ReplayInv, ReplayIsOver, NEW k \in Keys, k \notin Excused(Reasons)
             PROVE  Restored(k)
  BY DEF ReplayRestores, Reasons
<1>1. k \notin Excused({"skipped"}) /\ k \notin Excused(Reasons \ {"skipped"})
  BY DEF Excused, Reasons
<1>2. PICK f : OnItsWay(f, k)
  BY <1>1 DEF ReplayInv, ReplayAgrees, ReplayIsOver
<1>3. Content(data, k) = Content(before, k)
  BY <1>1, <1>2 DEF OnItsWay, ReplayIsOver
<1>4. CASE k \in DOMAIN before /\ ~before[k].tombstoned
  <2>1. Content(before, k) = {[data |-> before[k].data, ttl |-> before[k].ttl_seconds]}
    BY <1>4 DEF Content
  <2>2. k \in DOMAIN data /\ ~data[k].tombstoned
    BY <1>3, <2>1 DEF Content
  <2>3. Content(data, k) = {[data |-> data[k].data, ttl |-> data[k].ttl_seconds]}
    BY <2>2 DEF Content
  <2>4. [data |-> before[k].data, ttl |-> before[k].ttl_seconds]
          = [data |-> data[k].data, ttl |-> data[k].ttl_seconds]
    BY <1>3, <2>1, <2>3
  <2> QED
    BY <1>4, <2>2, <2>4 DEF Restored
<1>5. CASE ~(k \in DOMAIN before /\ ~before[k].tombstoned)
  <2>1. Content(data, k) = {}
    BY <1>3, <1>5 DEF Content
  <2>2. ~(k \in DOMAIN data /\ ~data[k].tombstoned)
    BY <2>1 DEF Content
  <2> QED
    BY <1>5, <2>2 DEF Restored, Live
<1> QED
  BY <1>4, <1>5

(* While the server is up, a key that has not lapsed is as alive as it will be on replay. *)
LEMMA FreshWhenUp ==
  ASSUME TypeOK, Aged, NEW k \in Keys, ~Lapsed(k) PROVE FreshAgrees(k)
<1>1. CASE k \in DOMAIN data /\ ~data[k].tombstoned
  <2>1. data[k].created_at \in Nat /\ data[k].ttl_seconds \in Int /\ now \in Nat
    BY <1>1, EntryParts DEF TypeOK
  <2>2. ~IsExpired(data[k]) /\ Live(k)
    BY <1>1 DEF Lapsed, Live
  <2>3. data[k].ttl_seconds # 0
    BY <1>1, <2>1, <2>2 DEF IsExpired, Aged
  <2>4. [data |-> data[k].data, ttl |-> data[k].ttl_seconds] \in Fresh(Content(data, k))
    BY <1>1, <2>3 DEF Fresh, Content
  <2> QED
    BY <2>2, <2>4 DEF FreshAgrees
<1>2. CASE ~(k \in DOMAIN data /\ ~data[k].tombstoned)
  BY <1>2 DEF FreshAgrees, Live, Fresh, Content
<1> QED
  BY <1>1, <1>2

LEMMA ExcusedGrows ==
  ASSUME excused \subseteq excused', NEW R, NEW k, k \notin Excused(R)', k \in Keys
  PROVE  k \notin Excused(R)
  BY DEF Excused

(* One more change waits, which says all there is to know of its key. *)
LEMMA AppendUpToDate ==
  ASSUME pending \in Seq(Change), NEW e \in Change, pending' = Append(pending, e),
         Becomes(e.line[2], Apply({}, e.line)), NEW A, NEW k \in Keys, UpToDate(A, k)
  PROVE  UpToDate(A, k)'
<1> DEFINE n == Len(pending)
<1>1. /\ n \in Nat /\ Len(pending') = n + 1 /\ pending'[n + 1] = e
      /\ \A i \in 1 .. n : pending'[i] = pending[i]
      /\ DOMAIN pending' = 1 .. n + 1 /\ DOMAIN pending = 1 .. n
  OBVIOUS
<1>2. CASE e.line[2] = k
  <2>1. n + 1 \in Waits(k)'
    BY <1>1, <1>2 DEF Waits
  <2>2. ASSUME NEW i \in DOMAIN pending', IsLastWait(i, k)'
        PROVE  Content(data', k) = Apply({}, pending'[i].line)
    <3>1. i = n + 1
      BY <1>1, <2>1, <2>2 DEF IsLastWait
    <3> QED
      BY <1>1, <1>2, <3>1 DEF Becomes
  <2> QED
    BY <2>1, <2>2 DEF UpToDate
<1>3. CASE e.line[2] # k
  <2>1. Waits(k)' = Waits(k)
    BY <1>1, <1>3 DEF Waits
  <2>2. Content(data', k) = Content(data, k)
    BY <1>3 DEF Becomes
  <2>3. ASSUME NEW i \in DOMAIN pending', IsLastWait(i, k)'
        PROVE  Content(data', k) = Apply({}, pending'[i].line)
    <3>1. IsLastWait(i, k) /\ i \in DOMAIN pending
      BY <2>1, <2>3 DEF IsLastWait, Waits
    <3> QED
      BY <1>1, <2>2, <3>1 DEF UpToDate
  <2> QED
    BY <2>1, <2>2, <2>3 DEF UpToDate
<1> QED
  BY <1>2, <1>3

(* One more line is logged. *)
LEMMA SaysLogged ==
  ASSUME entries \in Seq(Lines), NEW l \in LogLine, LogCommand(l), NEW k, NEW A,
         Says(A, entries, Len(entries), k), NEW key, key = l[2]
  PROVE  Says(IF key = k THEN Apply(A, l) ELSE A, entries', Len(entries'), k)
<1>1. PICK n : n = Len(entries)
  OBVIOUS
<1>2. /\ n \in Nat /\ Len(entries') = n + 1 /\ entries'[n + 1] = l
      /\ \A i \in 1 .. n : entries'[i] = entries[i]
  BY <1>1, LogAppend
<1>3. Says(A, entries', n, k)
  BY <1>1, <1>2, SaysSame
<1>4. Says(Step(A, l, k), entries', n + 1, k)
  BY <1>2, <1>3, SaysMore
<1>5. KeysOf(l) = {key} /\ Serialize(Parse(l)) = l
  BY ReadBack
<1>6. Step(A, l, k) = IF key = k THEN Apply(A, l) ELSE A
  BY <1>5 DEF Step
<1> QED
  BY <1>2, <1>4, <1>6

(* Steps that change neither the store nor the log. *)
LEMMA UpSame ==
  ASSUME UpAgrees, UNCHANGED <<data, pending, entries, excused, phase>> PROVE UpAgrees'
<1>1. ASSUME NEW k \in Keys \ Excused(Reasons)', phase = "up"
      PROVE  \E A : Says(A, entries, Len(entries), k)' /\ UpToDate(A, k)'
  <2>1. PICK A : Says(A, entries, Len(entries), k) /\ UpToDate(A, k)
    BY <1>1 DEF UpAgrees, Excused
  <2>2. UpToDate(A, k)'
    BY <2>1 DEF UpToDate, Waits, IsLastWait
  <2>3. Says(A, entries', Len(entries'), k)
    BY <2>1
  <2> QED
    BY <2>2, <2>3
<1> QED
  BY <1>1 DEF UpAgrees

LEMMA SweepReplayInv ==
  ASSUME ReplayInv, FileInv', NEW k \in Keys, Sweep(k) PROVE ReplayInv'
<1> DEFINE e == [by |-> "sweeper", line |-> <<"DEL", k>>]
<1>1. /\ phase = "up" /\ phase' = phase /\ EvictExpired(k) /\ pending' = Append(pending, e)
      /\ UNCHANGED <<entries, excused>>
  BY DEF Sweep, logVars
<1>2. Typed /\ TypeOK
  BY DEF ReplayInv, FileInv, Typed
<1>3. UpAgrees
  BY DEF ReplayInv
<1>4. e \in Change /\ e.line = <<"DEL", k>> /\ e.line[2] = k /\ Apply({}, e.line) = {}
  BY DEF Change, Overwriting, Apply
<1>5. Becomes(e.line[2], Apply({}, e.line))
  BY <1>1, <1>2, <1>4, EvictBecomes
<1> HIDE DEF e
<1>6. ASSUME NEW j \in Keys, j \notin Excused(Reasons)'
      PROVE  \E A : Says(A, entries, Len(entries), j)' /\ UpToDate(A, j)'
  <2>1. PICK A : Says(A, entries, Len(entries), j) /\ UpToDate(A, j)
    BY <1>1, <1>3, <1>6 DEF UpAgrees, Excused
  <2>2. UpToDate(A, j)'
    BY <1>1, <1>2, <1>4, <1>5, <2>1, AppendUpToDate DEF Typed
  <2>3. Says(A, entries', Len(entries'), j)
    BY <1>1, <2>1
  <2> QED
    BY <2>2, <2>3
<1>7. UpAgrees' /\ ReplayAgrees'
  BY <1>1, <1>6 DEF UpAgrees, ReplayAgrees
<1> QED
  BY <1>7 DEF ReplayInv

LEMMA RequestReplayInv ==
  ASSUME ReplayInv, FileInv', NEW tokens \in Requests, Request(tokens) PROVE ReplayInv'
<1> DEFINE c == Parse(tokens)
           l == Serialize(c)
<1>1. phase = "up" /\ phase' = phase /\ c \in ParsedCommand /\ Execute(c)
  BY PersistenceAssumption DEF Request
<1>2. Typed /\ TypeOK /\ Aged
  BY DEF ReplayInv, FileInv, Typed
<1>3. UpAgrees
  BY DEF ReplayInv
<1>4. CASE ~Logs(c)
  <2>1. UNCHANGED <<data, pending, entries, excused>>
    BY <1>1, <1>4, NotLogged DEF Request, logVars
  <2>2. ReplayAgrees'
    BY <1>1 DEF ReplayAgrees
  <2>3. UpAgrees'
    BY <1>1, <1>3, <2>1, UpSame
  <2> QED
    BY <2>2, <2>3 DEF ReplayInv
<1>5. CASE Logs(c) /\ ~LogsLocked(c)
  <2>1. /\ c.name \in {"SET", "DEL", "LPUSH", "HSET"} /\ reply' # OOM
        /\ l \in Overwriting /\ l[2] = c.key /\ c.key \in Keys
    BY <1>1, <1>5, LoggedLine
  <2>2. /\ pending' = Append(pending, [by |-> "worker", line |-> l])
        /\ UNCHANGED <<entries, excused>>
    BY <1>5 DEF Request, logVars
  <2>3. Becomes(c.key, Apply(Content(data, c.key), l))
    BY <1>1, <1>2, <1>5, <2>1, ExecuteBecomes DEF LogsLocked
  <2> HIDE DEF c, l
  <2>4. Becomes(l[2], Apply({}, l))
    BY <2>1, <2>3, ApplyOverwrites
  <2>5. PICK e \in Change : e.line = l /\ pending' = Append(pending, e)
    BY <2>1, <2>2 DEF Change
  <2>6. ASSUME NEW j \in Keys, j \notin Excused(Reasons)'
        PROVE  \E A : Says(A, entries, Len(entries), j)' /\ UpToDate(A, j)'
    <3>1. PICK A : Says(A, entries, Len(entries), j) /\ UpToDate(A, j)
      BY <1>1, <1>3, <2>2, <2>6 DEF UpAgrees, Excused
    <3>2. UpToDate(A, j)'
      BY <1>2, <2>4, <2>5, <3>1, AppendUpToDate DEF Typed
    <3>3. Says(A, entries', Len(entries'), j)
      BY <2>2, <3>1
    <3> QED
      BY <3>2, <3>3
  <2>7. UpAgrees' /\ ReplayAgrees'
    BY <1>1, <2>6 DEF UpAgrees, ReplayAgrees
  <2> QED
    BY <2>7 DEF ReplayInv
<1>6. CASE Logs(c) /\ LogsLocked(c)
  <2>1. /\ c.name \in {"SET", "DEL", "LPUSH", "HSET"} /\ reply' # OOM
        /\ l \in LogLine /\ l[2] = c.key /\ c.key \in Keys
    BY <1>1, <1>6, LoggedLine
  <2>2. /\ LogCommand(l) /\ pending' = pending
        /\ excused' = (excused \cup {k \in {c.key} : Lapsed(k)} \X {"expiry"})
                        \cup ({c.key} \cap PendingKeys(Len(pending))) \X {"order"}
    BY <1>6 DEF Request
  <2>3. ~Lapsed(c.key) => Becomes(c.key, Apply(Content(data, c.key), l))
    BY <1>1, <1>2, <2>1, ExecuteBecomes, FreshWhenUp
  <2>4. \A j \in Keys \ {c.key} : Content(data', j) = Content(data, j)
    <3>1. \E A : Becomes(c.key, A)
      BY <1>1, <1>2, <2>1, ExecuteTouches
    <3> QED
      BY <3>1 DEF Becomes
  <2>5. PICK key : key = c.key
    OBVIOUS
  <2> HIDE DEF c, l
  <2>6. ASSUME NEW j \in Keys, j \notin Excused(Reasons)'
        PROVE  \E A : Says(A, entries, Len(entries), j)' /\ UpToDate(A, j)'
    <3>0. excused \subseteq excused'
      BY <2>2
    <3>1. PICK A : Says(A, entries, Len(entries), j) /\ UpToDate(A, j)
      BY <1>1, <1>3, <2>6, <3>0, ExcusedGrows DEF UpAgrees
    <3>2. Waits(j)' = Waits(j) /\ \A i : IsLastWait(i, j)' <=> IsLastWait(i, j)
      BY <2>2 DEF Waits, IsLastWait
    <3>3. PICK B : B = IF key = j THEN Apply(A, l) ELSE A
      OBVIOUS
    <3>4. Says(B, entries', Len(entries'), j)
      BY <1>2, <2>1, <2>2, <2>5, <3>1, <3>3, SaysLogged DEF Typed
    <3>5. CASE j # key
      <4>1. Content(data', j) = Content(data, j) /\ B = A
        BY <2>4, <2>5, <3>3, <3>5
      <4>2. UpToDate(B, j)'
        BY <2>2, <3>1, <3>2, <4>1 DEF UpToDate
      <4> QED
        BY <3>4, <4>2
    <3>6. CASE j = key
      <4>1. <<j, "expiry">> \notin excused' /\ <<j, "order">> \notin excused'
        BY <2>6 DEF Excused, Reasons
      <4>2. ~Lapsed(j) /\ j \notin PendingKeys(Len(pending))
        BY <2>2, <2>5, <3>6, <4>1
      <4>3. Waits(j) = {}
        BY <1>2, <4>2 DEF Waits, PendingKeys, Typed
      <4>4. Content(data, j) = A
        BY <3>1, <4>3 DEF UpToDate
      <4>5. Content(data', j) = Apply(Content(data, j), l)
        BY <2>3, <2>5, <3>6, <4>2 DEF Becomes
      <4>6. Content(data', j) = B
        BY <3>3, <3>6, <4>4, <4>5
      <4>7. UpToDate(B, j)'
        BY <3>2, <4>3, <4>6 DEF UpToDate, IsLastWait
      <4> QED
        BY <3>4, <4>7
    <3> QED
      BY <3>5, <3>6
  <2>7. UpAgrees' /\ ReplayAgrees'
    BY <1>1, <2>6 DEF UpAgrees, ReplayAgrees
  <2> QED
    BY <2>7 DEF ReplayInv
<1> QED
  BY <1>4, <1>5, <1>6

LEMMA LogPendingReplayInv ==
  ASSUME ReplayInv, FileInv', NEW i \in DOMAIN pending, LogPending(i) PROVE ReplayInv'
<1> DEFINE l == pending[i].line
           n == Len(pending)
<1>1. /\ LogCommand(l) /\ pending' = Seqs!RemoveAt(pending, i)
      /\ excused' = excused \cup ({l[2]} \cap PendingKeys(i - 1)) \X {"order"}
      /\ UNCHANGED <<data, phase>>
  BY DEF LogPending
<1>2. Typed /\ Replaying
  BY DEF ReplayInv, FileInv
<1>3. pending[i] \in Change /\ pending \in Seq(Change) /\ i \in 1 .. n /\ n \in Nat
  BY <1>2 DEF Typed
<1>4. l \in Overwriting /\ l \in LogLine
  BY <1>3 DEF Change, LogLine
<1>5. phase = "up"
  BY <1>2, <1>3 DEF Replaying, Typed
<1>6. UpAgrees
  BY DEF ReplayInv
<1>7. /\ pending' \in Seq(Change) /\ Len(pending') = n - 1
      /\ \A j \in 1 .. n - 1 : pending'[j] = IF j < i THEN pending[j] ELSE pending[j + 1]
  BY <1>1, <1>3, RemoveAtIs
<1>8. DOMAIN pending' = 1 .. n - 1 /\ DOMAIN pending = 1 .. n
  BY <1>3, <1>7
<1>9. PICK key, line : key = l[2] /\ line = l
  OBVIOUS
<1>10. ASSUME NEW k \in Keys, k \notin Excused(Reasons)'
       PROVE  \E A : Says(A, entries, Len(entries), k)' /\ UpToDate(A, k)'
  <2>0. excused \subseteq excused'
    BY <1>1
  <2>1. PICK A : Says(A, entries, Len(entries), k) /\ UpToDate(A, k)
    BY <1>5, <1>6, <1>10, <2>0, ExcusedGrows DEF UpAgrees
  <2>a. PICK B : B = IF key = k THEN Apply(A, line) ELSE A
    OBVIOUS
  <2>b. Says(B, entries', Len(entries'), k)
    BY <1>1, <1>2, <1>4, <1>9, <2>1, <2>a, SaysLogged DEF Typed
  <2>2. \A j \in 1 .. n : j \in Waits(k) /\ j # i
          => (IF j < i THEN j ELSE j - 1) \in Waits(k)'
    BY <1>3, <1>7, <1>8, SMTT(40) DEF Waits
  <2>3. \A j \in Waits(k)' : j \in 1 .. n - 1 /\ (IF j < i THEN j ELSE j + 1) \in Waits(k)
    BY <1>3, <1>7, <1>8 DEF Waits
  <2>4. ASSUME Waits(k)' = {} PROVE UpToDate(B, k)'
    <3>1. \A j \in Waits(k) : j = i
      BY <1>8, <2>2, <2>4 DEF Waits
    <3>2. CASE k = key
      <4>1. IsLastWait(i, k)
        BY <1>3, <1>8, <1>9, <3>1, <3>2 DEF IsLastWait, Waits
      <4>2. Content(data, k) = Apply({}, line)
        BY <1>9, <2>1, <4>1 DEF UpToDate
      <4>3. Apply(A, line) = Apply({}, line)
        BY <1>4, <1>9, ApplyOverwrites
      <4>4. Content(data', k) = B
        BY <1>1, <2>a, <3>2, <4>2, <4>3
      <4> QED
        BY <2>4, <4>4 DEF UpToDate, IsLastWait
    <3>3. CASE k # key
      <4>1. Waits(k) = {}
        BY <1>9, <3>1, <3>3 DEF Waits
      <4>2. Content(data', k) = B
        BY <1>1, <2>1, <2>a, <3>3, <4>1 DEF UpToDate
      <4> QED
        BY <2>4, <4>2 DEF UpToDate, IsLastWait
    <3> QED
      BY <3>2, <3>3
  <2>5. ASSUME Waits(k)' # {} PROVE UpToDate(B, k)'
    <3>1. ASSUME NEW j \in DOMAIN pending', IsLastWait(j, k)'
          PROVE  Content(data', k) = Apply({}, pending'[j].line)
      <4> DEFINE m == IF j < i THEN j ELSE j + 1
      <4>1. /\ j \in Waits(k)' /\ j \in 1 .. n - 1 /\ m \in Waits(k) /\ m \in 1 .. n
            /\ pending'[j] = pending[m]
        BY <1>3, <1>7, <1>8, <2>3, <3>1 DEF IsLastWait
      <4>2. ASSUME NEW h \in Waits(k) PROVE h <= m
        <5>1. h \in 1 .. n
          BY <1>8, <4>2 DEF Waits
        <5>2. CASE h # i
          <6>1. (IF h < i THEN h ELSE h - 1) <= j
            BY <2>2, <3>1, <4>2, <5>1, <5>2 DEF IsLastWait
          <6> QED
            BY <1>3, <4>1, <5>1, <5>2, <6>1
        <5>3. CASE h = i
          <6>1. k \notin PendingKeys(i - 1)
            <7>1. <<k, "order">> \notin excused'
              BY <1>10 DEF Excused, Reasons
            <7>2. key = k
              BY <1>9, <4>2, <5>3 DEF Waits
            <7> QED
              BY <1>1, <1>9, <7>1, <7>2
          <6>2. ~(j < i)
            <7>1. CASE j < i
              <8>1. j \in 1 .. i - 1 /\ pending[j].line[2] = k
                BY <1>3, <4>1, <7>1 DEF Waits
              <8> QED
                BY <6>1, <8>1 DEF PendingKeys
            <7> QED
              BY <7>1
          <6> QED
            BY <1>3, <4>1, <5>3, <6>2
        <5> QED
          BY <5>2, <5>3
      <4>3. IsLastWait(m, k) /\ m \in DOMAIN pending
        BY <1>8, <4>1, <4>2 DEF IsLastWait
      <4> HIDE DEF m
      <4> QED
        BY <1>1, <2>1, <4>1, <4>3 DEF UpToDate
    <3> QED
      BY <2>5, <3>1 DEF UpToDate
  <2> QED
    BY <2>b, <2>4, <2>5
<1>11. UpAgrees' /\ ReplayAgrees'
  BY <1>1, <1>5, <1>10 DEF UpAgrees, ReplayAgrees
<1> QED
  BY <1>11 DEF ReplayInv

(* A key that the lines after the n-th do not touch, and that has no change waiting. *)
LEMMA NotMissing ==
  ASSUME Typed, NEW n \in 0 .. Len(entries), NEW k \in Keys, k \notin Missing(n),
         NEW A, Says(A, entries, Len(entries), k), UpToDate(A, k)
  PROVE  Says(Content(data, k), entries, n, k)
<1>1. PICK rest : rest = SubSeq(entries, n + 1, Len(entries))
  OBVIOUS
<1>2. k \notin PendingKeys(Len(pending)) /\ k \notin KeysIn(rest)
  BY <1>1 DEF Missing
<1>3. Waits(k) = {}
  BY <1>2 DEF Waits, PendingKeys, Typed
<1>4. Content(data, k) = A
  BY <1>3 DEF UpToDate
<1>5. entries \in Seq(Lines) /\ Len(entries) \in Nat
  BY FileBounds
<1>6. /\ DOMAIN rest = 1 .. Len(entries) - n
      /\ \A m \in 1 .. Len(entries) - n : rest[m] = entries[m + n]
  BY <1>1, <1>5
<1>7. ASSUME NEW m \in (n + 1) .. Len(entries) PROVE k \notin KeysOf(entries[m])
  <2>1. m - n \in 1 .. Len(entries) - n /\ (m - n) + n = m
    BY <1>5
  <2>2. m - n \in DOMAIN rest /\ rest[m - n] = entries[m]
    BY <1>6, <2>1
  <2> QED
    BY <1>2, <2>2 DEF KeysIn
<1> QED
  BY <1>4, <1>5, <1>7, SaysBefore

(* A kill, and what the next replay has to start from. *)
LEMMA KillReplayInv ==
  ASSUME ReplayInv, FileInv', Kill PROVE ReplayInv'
<1>1. data' = Empty /\ phase' = "replay" /\ position' = 0
  BY DEF Kill
<1>2. Typed /\ Replaying /\ Skipping /\ phase \in {"replay", "up"}
  BY DEF ReplayInv, FileInv, Typed
<1>3. \A k : Content(data', k) = {}
  BY <1>1 DEF Content, Empty
<1>4. ASSUME NEW k \in Keys, k \notin Excused(Reasons \ {"skipped"})'
      PROVE  \E f : OnItsWay(f, k)'
  <2>0. ASSUME Says(Content(before', k), entries', Len(entries'), k)
        PROVE  \E f : OnItsWay(f, k)'
    <3>1. PICK f : /\ Trace(f, entries', Len(entries'), k)
                   /\ f[Len(entries')] = Content(before', k)
      BY <2>0 DEF Says
    <3>2. f[position'] = {}
      BY <1>1, <3>1 DEF Trace
    <3> QED
      BY <1>3, <3>1, <3>2 DEF OnItsWay
  <2>1. CASE phase = "replay"
    <3>1. excused' = excused \ Keys \X {"skipped"} /\ before' = before /\ CrashBetween
      BY <2>1 DEF Kill
    <3>2. k \notin Excused(Reasons \ {"skipped"})
      BY <1>4, <3>1 DEF Excused
    <3>3. PICK f : OnItsWay(f, k)
      BY <2>1, <3>2 DEF ReplayInv, ReplayAgrees
    <3>4. Says(Content(before', k), entries, Len(entries), k)
      BY <3>1, <3>3 DEF OnItsWay, Says
    <3>5. /\ Len(entries') = Len(entries) /\ Len(entries) \in Nat
          /\ \A i \in 1 .. Len(entries) : entries'[i] = entries[i]
      BY <1>2, <2>1, <3>1, CrashBetweenIs DEF Replaying
    <3>6. Says(Content(before', k), entries', Len(entries), k)
      BY <3>4, <3>5, SaysSame
    <3> QED
      BY <2>0, <3>5, <3>6
  <2>2. CASE phase = "up"
    <3>1. excused \subseteq excused' /\ before' = data
      BY <2>2 DEF Kill
    <3>2. k \notin Excused(Reasons)
      BY <1>2, <1>4, <2>2, <3>1 DEF Excused, Skipping
    <3>3. PICK A : Says(A, entries, Len(entries), k) /\ UpToDate(A, k)
      BY <2>2, <3>2 DEF ReplayInv, UpAgrees
    <3>4. <<k, "lost">> \notin excused' /\ <<k, "torn">> \notin excused'
      BY <1>4 DEF Excused, Reasons
    <3>5. ASSUME CrashBetween, excused' = excused \cup Missing(Readable) \X {"lost"}
          PROVE  Says(Content(before', k), entries', Len(entries'), k)
      <4>1. /\ Len(entries') = Readable /\ Readable \in 0 .. Len(entries) /\ Readable \in Nat
            /\ \A i \in 1 .. Readable : entries'[i] = entries[i]
        BY <1>2, <3>5, CrashBetweenIs, FileBounds
      <4>2. k \notin Missing(Readable)
        BY <3>4, <3>5
      <4>3. Says(Content(data, k), entries, Readable, k)
        BY <1>2, <3>3, <4>1, <4>2, NotMissing
      <4>4. Says(Content(data, k), entries', Readable, k)
        BY <4>1, <4>3, SaysSame
      <4> QED
        BY <3>1, <4>1, <4>4
    <3>6. ASSUME NEW r \in Readings, CrashInside(r),
                 excused' = (excused \cup Missing(durable) \X {"lost"}) \cup KeysOf(r) \X {"torn"}
          PROVE  Says(Content(before', k), entries', Len(entries'), k)
      <4>1. /\ Len(entries') = durable + 1 /\ durable \in 0 .. Len(entries) /\ durable \in Nat
            /\ \A i \in 1 .. durable : entries'[i] = entries[i]
            /\ entries'[durable + 1] = r
        BY <1>2, <3>6, CrashInsideIs, FileBounds
      <4>2. k \notin Missing(durable) /\ k \notin KeysOf(r)
        BY <3>4, <3>6
      <4>3. Says(Content(data, k), entries, durable, k)
        BY <1>2, <3>3, <4>1, <4>2, NotMissing
      <4>4. Says(Content(data, k), entries', durable, k)
        BY <4>1, <4>3, SaysSame
      <4>5. Says(Step(Content(data, k), r, k), entries', durable + 1, k)
        BY <4>1, <4>4, SaysMore
      <4>6. Step(Content(data, k), r, k) = Content(data, k)
        BY <4>2 DEF Step
      <4> QED
        BY <3>1, <4>1, <4>5, <4>6
    <3>7. \/ CrashBetween /\ excused' = excused \cup Missing(Readable) \X {"lost"}
          \/ \E r \in Readings :
               /\ CrashInside(r)
               /\ excused' = (excused \cup Missing(durable) \X {"lost"})
                                \cup KeysOf(r) \X {"torn"}
      BY <2>2 DEF Kill
    <3> QED
      BY <2>0, <3>5, <3>6, <3>7
  <2> QED
    BY <1>2, <2>1, <2>2
<1>5. \A k \in Keys : Says(Content(data', k), entries', position', k)
  BY <1>1, <1>3, NothingSaid
<1>6. UpAgrees' /\ ReplayAgrees'
  BY <1>1, <1>4, <1>5 DEF UpAgrees, ReplayAgrees
<1> QED
  BY <1>6 DEF ReplayInv

(* What reaches the file, whole or joined to a fragment. *)
LEMMA FlushReplayInv ==
  ASSUME ReplayInv, FileInv', Flush PROVE ReplayInv'
<1>1. UNCHANGED <<data, phase, position, pending, before>> /\ Persist
  BY DEF Flush
<1>2. Typed /\ Replaying
  BY DEF ReplayInv, FileInv
<1>3. Len(entries) \in Nat /\ durable \in Nat /\ entries \in Seq(Lines)
  BY <1>2, FileBounds
<1>4. phase = "up"
  <2>1. durable + 1 <= Len(entries) /\ (torn => durable + 2 <= Len(entries))
    BY <1>1, <1>3 DEF Persist
  <2>2. Readable # Len(entries)
    BY <1>3, <2>1 DEF Readable
  <2> QED
    BY <1>2, <2>2 DEF Replaying, Typed
<1>5. CASE ~torn
  <2>1. UNCHANGED <<entries, excused>>
    BY <1>1, <1>5 DEF Flush, Persist
  <2>2. UpAgrees'
    BY <1>1, <2>1, UpSame DEF ReplayInv
  <2> QED
    BY <1>1, <1>4, <2>2 DEF ReplayInv, ReplayAgrees
<1>6. CASE torn
  <2>1. durable' \in (durable + 1) .. (Len(entries) - 1)
    BY <1>1, <1>6 DEF Persist
  <2>2. PICK r \in Readings : entries' = Joined(r)
    BY <1>1, <1>6 DEF Persist
  <2>3. durable + 2 <= Len(entries)
    BY <1>3, <2>1
  <2>4. /\ entries' \in Seq(Lines) /\ Len(entries') = Len(entries) - 1
        /\ \A i \in 1 .. durable : entries'[i] = entries[i]
        /\ \A i \in (durable + 2) .. (Len(entries) - 1) : entries'[i] = entries[i + 1]
    BY <1>3, <2>2, <2>3, JoinedIs
  <2>5. PICK two : two = SubSeq(entries, durable + 1, durable + 2)
    OBVIOUS
  <2>6. excused' = excused \cup (KeysIn(two) \cup KeysOf(entries'[durable + 1])) \X {"torn"}
    BY <1>6, <2>5 DEF Flush
  <2>7. KeysOf(entries[durable + 1]) \subseteq KeysIn(two)
          /\ KeysOf(entries[durable + 2]) \subseteq KeysIn(two)
    <3>1. /\ DOMAIN two = 1 .. 2 /\ two[1] = entries[durable + 1]
          /\ two[2] = entries[durable + 2]
      <4>1. durable + 1 \in 1 .. Len(entries) /\ durable + 2 \in 1 .. Len(entries)
        BY <1>3, <2>3
      <4>2. /\ Len(two) = 2 /\ two \in Seq(Lines)
            /\ \A i \in 1 .. 2 : two[i] = entries[durable + i]
        BY <1>3, <2>5, <4>1
      <4>3. DOMAIN two = 1 .. 2
        BY <4>2
      <4> QED
        BY <4>2, <4>3
    <3>2. 1 \in DOMAIN two /\ 2 \in DOMAIN two
      BY <3>1
    <3> QED
      BY <3>1, <3>2 DEF KeysIn
  <2>8. ASSUME NEW k \in Keys, k \notin Excused(Reasons)'
        PROVE  \E A : Says(A, entries, Len(entries), k)' /\ UpToDate(A, k)'
    <3>0. excused \subseteq excused'
      BY <2>6
    <3>1. PICK A : Says(A, entries, Len(entries), k) /\ UpToDate(A, k)
      BY <1>4, <2>8, <3>0, ExcusedGrows DEF ReplayInv, UpAgrees
    <3>2. <<k, "torn">> \notin excused'
      BY <2>8 DEF Excused, Reasons
    <3>3. /\ k \notin KeysOf(entries[durable + 1]) /\ k \notin KeysOf(entries[durable + 2])
          /\ k \notin KeysOf(entries'[durable + 1])
      BY <2>6, <2>7, <3>2
    <3>4. Says(A, entries', Len(entries) - 1, k)
      BY <1>3, <2>3, <2>4, <3>1, <3>3, SaysJoined
    <3>5. UpToDate(A, k)'
      BY <1>1, <3>1 DEF UpToDate, Waits, IsLastWait
    <3>6. Says(A, entries', Len(entries'), k)
      BY <2>4, <3>4
    <3> QED
      BY <3>5, <3>6
  <2>9. UpAgrees' /\ ReplayAgrees'
    BY <1>1, <1>4, <2>8 DEF UpAgrees, ReplayAgrees
  <2> QED
    BY <2>9 DEF ReplayInv
<1> QED
  BY <1>5, <1>6

LEMMA ReplayReplayInv ==
  ASSUME ReplayInv, FileInv', Replay PROVE ReplayInv'
<1>1. /\ phase = "replay" /\ position' = position + 1
      /\ UNCHANGED <<entries, phase, before>>
  BY DEF Replay, logVars
<1>2. Typed /\ Replaying /\ position \in Nat /\ Len(entries) \in Nat
  BY DEF ReplayInv, FileInv, Typed
<1>3. PICK l : l = entries[position + 1]
  OBVIOUS
<1>4. /\ position + 1 \in 1 .. Len(entries) /\ excused \subseteq excused'
      /\ \A k \in Keys : <<k, "skipped">> \notin excused'
           => Content(data', k) = Step(Content(data, k), l, k)
  BY <1>2, <1>3, ReplayEffect
<1>5. ASSUME NEW k \in Keys, k \notin Excused({"skipped"})'
      PROVE  /\ k \notin Excused({"skipped"})
             /\ Content(data', k) = Step(Content(data, k), l, k)
  <2>1. <<k, "skipped">> \notin excused'
    BY <1>5 DEF Excused
  <2> QED
    BY <1>4, <1>5, <2>1, ExcusedGrows
<1>6. ASSUME NEW k \in Keys, k \notin Excused({"skipped"})'
      PROVE  Says(Content(data', k), entries', position', k)
  <2>1. Says(Content(data, k), entries, position, k)
    BY <1>1, <1>5, <1>6 DEF ReplayInv, ReplayAgrees
  <2>2. Says(Step(Content(data, k), l, k), entries, position + 1, k)
    BY <1>2, <1>3, <2>1, SaysMore
  <2> QED
    BY <1>1, <1>5, <1>6, <2>2
<1>7. ASSUME NEW k \in Keys, k \notin Excused(Reasons \ {"skipped"})'
      PROVE  \E f : OnItsWay(f, k)'
  <2>1. k \notin Excused(Reasons \ {"skipped"})
    BY <1>4, <1>7, ExcusedGrows
  <2>2. PICK f : OnItsWay(f, k)
    BY <1>1, <2>1 DEF ReplayInv, ReplayAgrees
  <2>3. f[position + 1] = Step(f[position], l, k)
    <3>1. (position + 1) - 1 = position
      BY <1>2
    <3> QED
      BY <1>3, <1>4, <2>2, <3>1 DEF OnItsWay, Trace
  <2>4. k \notin Excused({"skipped"})' => Content(data', k) = f[position']
    BY <1>1, <1>5, <2>2, <2>3 DEF OnItsWay
  <2>5. /\ Trace(f, entries', Len(entries'), k)
        /\ f[Len(entries')] = Content(before', k)
    BY <1>1, <2>2 DEF OnItsWay
  <2> QED
    BY <2>4, <2>5 DEF OnItsWay
<1>8. UpAgrees' /\ ReplayAgrees'
  BY <1>1, <1>6, <1>7 DEF UpAgrees, ReplayAgrees
<1> QED
  BY <1>8 DEF ReplayInv

LEMMA StartUpReplayInv ==
  ASSUME ReplayInv, FileInv', StartUp PROVE ReplayInv'
<1>1. /\ phase = "replay" /\ position = Len(entries) /\ phase' = "up"
      /\ excused' = {k \in Keys : <<k, "skipped">> \in excused} \X {"memory"}
      /\ UNCHANGED <<data, entries, pending>>
  BY DEF StartUp, logVars
<1>2. pending = <<>>
  BY <1>1 DEF ReplayInv, FileInv, Replaying
<1>3. ASSUME NEW k \in Keys, k \notin Excused(Reasons)'
      PROVE  \E A : Says(A, entries, Len(entries), k)' /\ UpToDate(A, k)'
  <2>1. <<k, "memory">> \notin excused'
    BY <1>3 DEF Excused, Reasons
  <2>2. k \notin Excused({"skipped"})
    BY <1>1, <2>1 DEF Excused
  <2>0. PICK A : A = Content(data, k)
    OBVIOUS
  <2>3. Says(A, entries, Len(entries), k)
    BY <1>1, <2>0, <2>2 DEF ReplayInv, ReplayAgrees
  <2>4. DOMAIN pending' = {} /\ Content(data', k) = A
    BY <1>1, <1>2, <2>0
  <2>5. UpToDate(A, k)'
    BY <2>4 DEF UpToDate, Waits
  <2>6. Says(A, entries', Len(entries'), k)
    BY <1>1, <2>3
  <2> QED
    BY <2>5, <2>6
<1>4. UpAgrees' /\ ReplayAgrees'
  BY <1>1, <1>3 DEF UpAgrees, ReplayAgrees
<1> QED
  BY <1>4 DEF ReplayInv

LEMMA ReplayInvInit == PersistenceInit => ReplayInv
<1> SUFFICES ASSUME PersistenceInit PROVE ReplayInv
  OBVIOUS
<1>1. data = [k \in {} |-> Nil] /\ entries = <<>> /\ pending = <<>> /\ phase = "up"
  BY DEF PersistenceInit, Init, LogInit
<1>2. Len(entries) = 0 /\ DOMAIN pending = {}
  BY <1>1
<1>3. \A k : Content(data, k) = {}
  BY <1>1 DEF Content
<1>4. ASSUME NEW k PROVE Says({}, entries, Len(entries), k) /\ UpToDate({}, k)
  BY <1>2, <1>3, NothingSaid DEF UpToDate
<1> QED
  BY <1>1, <1>4, FileInvInit DEF ReplayInv, UpAgrees, ReplayAgrees

LEMMA ReplayInvStep ==
  ReplayInv /\ [PersistenceNext]_persistenceVars => ReplayInv'
<1> SUFFICES ASSUME ReplayInv, [PersistenceNext]_persistenceVars PROVE ReplayInv'
  OBVIOUS
<1>0. FileInv'
  BY FileInvStep DEF ReplayInv
<1>1. ASSUME NEW tokens \in Requests, Request(tokens) PROVE ReplayInv'
  BY <1>0, <1>1, RequestReplayInv
<1>2. ASSUME NEW k \in Keys, Sweep(k) PROVE ReplayInv'
  BY <1>0, <1>2, SweepReplayInv
<1>3. ASSUME NEW i \in DOMAIN pending, LogPending(i) PROVE ReplayInv'
  BY <1>0, <1>3, LogPendingReplayInv
<1>4. CASE Kill
  BY <1>0, <1>4, KillReplayInv
<1>5. CASE Replay
  BY <1>0, <1>5, ReplayReplayInv
<1>6. CASE StartUp
  BY <1>0, <1>6, StartUpReplayInv
<1>7. CASE Flush
  BY <1>0, <1>7, FlushReplayInv
<1>8. CASE Clock \/ UNCHANGED persistenceVars
  <2>1. UNCHANGED <<data, entries, phase, position, pending, before, excused>>
    BY <1>8 DEF Clock, Tick, logVars, persistenceVars
  <2>2. UpAgrees'
    BY <2>1, UpSame DEF ReplayInv
  <2>3. ASSUME phase = "replay", NEW k \in Keys
        PROVE  /\ k \notin Excused({"skipped"})'
                    => Says(Content(data', k), entries', position', k)
               /\ k \notin Excused(Reasons \ {"skipped"})' => \E f : OnItsWay(f, k)'
    <3>1. \A R : Excused(R)' = Excused(R)
      BY <2>1 DEF Excused
    <3>2. \A f : OnItsWay(f, k) => OnItsWay(f, k)'
      BY <2>1, <3>1 DEF OnItsWay
    <3> QED
      BY <2>1, <2>3, <3>1, <3>2 DEF ReplayInv, ReplayAgrees
  <2> QED
    BY <1>0, <2>1, <2>2, <2>3 DEF ReplayInv, ReplayAgrees
<1> QED
  BY <1>1, <1>2, <1>3, <1>4, <1>5, <1>6, <1>7, <1>8 DEF PersistenceNext, Terminated

(***************************************************************************)
(* When replay is over, every key whose changes had all reached the file   *)
(* in the order they were made has the value and TTL it had when the       *)
(* process died, or is absent as it was: whatever commands ran, wherever   *)
(* the kills fell, inside a line of the file or during an earlier replay   *)
(* included, and whatever the fragments and the lines joined to them were  *)
(* read as.  Excused are, of the keys that a torn line may harm, just      *)
(* those that the lines concerned named or now name.                       *)
(***************************************************************************)
THEOREM ReplayRestoresHolds == PersistenceSpec => []ReplayRestores
  BY ReplayInvInit, ReplayInvStep, ReplayInvGivesRestores, PTL DEF PersistenceSpec
=============================================================================
