---------------------------- MODULE StoreProofs ----------------------------
(***************************************************************************)
(* Proofs about the storage engine, for all keys, fields, values, TTLs and *)
(* indices, and for lists of every length.                                 *)
(***************************************************************************)
EXTENDS Store, TLAPS, SequenceTheorems

(* The values that commands store. *)
LEMMA VariantTypes ==
  /\ \A v \in Values : String(v) \in ValueVariant
  /\ \A s \in Seq(Values) : List(s) \in ValueVariant
  /\ \A h \in HashOf : Hash(h) \in ValueVariant
  BY DEF String, List, Hash, ValueVariant

(* A value of a type holds what the type says. *)
LEMMA VariantParts ==
  ASSUME NEW x \in ValueVariant
  PROVE  /\ x.type = "string" => x.string \in Values
         /\ x.type = "list" => x.list \in Seq(Values)
         /\ x.type = "hash" => x.hash \in HashOf
         /\ x.type \in {"string", "list", "hash"}
  BY DEF ValueVariant

LEMMA HashAdd ==
  ASSUME NEW h \in HashOf, NEW f \in Fields, NEW v \in Values
  PROVE  /\ [g \in DOMAIN h \cup {f} |-> IF g = f THEN v ELSE h[g]] \in HashOf
         /\ DOMAIN h \subseteq Fields
<1>1. PICK F \in SUBSET Fields : h \in [F -> Values]
  BY DEF HashOf
<1>2. [g \in DOMAIN h \cup {f} |-> IF g = f THEN v ELSE h[g]] \in [F \cup {f} -> Values]
  BY <1>1
<1>3. F \cup {f} \in SUBSET Fields
  BY <1>1
<1> QED
  BY <1>1, <1>2, <1>3 DEF HashOf

LEMMA HashStart ==
  ASSUME NEW f \in Fields, NEW v \in Values
  PROVE  [g \in {f} |-> v] \in HashOf
<1>1. [g \in {f} |-> v] \in [{f} -> Values] /\ {f} \in SUBSET Fields
  OBVIOUS
<1> QED
  BY <1>1 DEF HashOf

LEMMA EntryParts ==
  ASSUME NEW e \in CacheAlignedValue
  PROVE  /\ e.data \in ValueVariant /\ e.created_at \in Nat /\ e.ttl_seconds \in Int
         /\ e.tombstoned \in BOOLEAN
  BY DEF CacheAlignedValue

LEMMA NewEntryType ==
  ASSUME now \in Nat, NEW v \in ValueVariant, NEW ttl \in Int
  PROVE  NewEntry(v, ttl) \in CacheAlignedValue
  BY DEF NewEntry, CacheAlignedValue

(* A map of entries. *)
DataType == DOMAIN data \subseteq Keys /\ data \in [DOMAIN data -> CacheAlignedValue]

LEMMA AssignEffect ==
  ASSUME DataType, NEW k \in Keys, NEW e \in CacheAlignedValue, Assign(k, e)
  PROVE  /\ DataType'
         /\ DOMAIN data' = DOMAIN data \cup {k}
         /\ data'[k] = e
         /\ \A j \in DOMAIN data : j # k => data'[j] = data[j]
  BY DEF DataType, Assign

LEMMA UpdateEffect ==
  ASSUME DataType, NEW k \in DOMAIN data, NEW v \in ValueVariant, Update(k, v)
  PROVE  /\ DataType'
         /\ DOMAIN data' = DOMAIN data
         /\ data'[k] = [data[k] EXCEPT !.data = v]
         /\ \A j \in DOMAIN data : j # k => data'[j] = data[j]
<1>1. [data[k] EXCEPT !.data = v] \in CacheAlignedValue
  BY DEF DataType, CacheAlignedValue
<1>2. data' = [data EXCEPT ![k] = [data[k] EXCEPT !.data = v]]
  BY DEF Update
<1> QED
  BY <1>1, <1>2 DEF DataType

(* DEL of an entry that is there. *)
LEMMA TombstoneEffect ==
  ASSUME DataType, NEW k \in DOMAIN data, data' = [data EXCEPT ![k].tombstoned = TRUE]
  PROVE  /\ DataType'
         /\ DOMAIN data' = DOMAIN data
         /\ data'[k] = [data[k] EXCEPT !.tombstoned = TRUE]
         /\ \A j \in DOMAIN data : j # k => data'[j] = data[j]
<1>1. [data[k] EXCEPT !.tombstoned = TRUE] \in CacheAlignedValue
  BY DEF DataType, CacheAlignedValue
<1>2. data' = [data EXCEPT ![k] = [data[k] EXCEPT !.tombstoned = TRUE]]
  OBVIOUS
<1> QED
  BY <1>1, <1>2 DEF DataType

LEMMA EvictEffect ==
  ASSUME DataType, NEW k \in Keys, data' = [j \in DOMAIN data \ {k} |-> data[j]]
  PROVE  /\ DataType'
         /\ DOMAIN data' = DOMAIN data \ {k}
         /\ \A j \in DOMAIN data' : data'[j] = data[j]
  BY DEF DataType
-----------------------------------------------------------------------------
(* What the commands that write do to the map; a list or hash is continued *)
(* or started.                                                             *)
Continues(k, v) == /\ Live(k)
                   /\ DOMAIN data' = DOMAIN data
                   /\ data'[k] = [data[k] EXCEPT !.data = v]
                   /\ \A j \in DOMAIN data : j # k => data'[j] = data[j]

Starts(k, v, ttl) == /\ DOMAIN data' = DOMAIN data \cup {k}
                     /\ data'[k] = NewEntry(v, ttl)
                     /\ \A j \in DOMAIN data : j # k => data'[j] = data[j]

LEMMA SetEffect ==
  ASSUME TypeOK, NEW k \in Keys, NEW v \in Values, NEW ttl \in TTLs, Set(k, v, ttl)
  PROVE  TypeOK' /\ Starts(k, String(v), ttl)
<1>1. NewEntry(String(v), ttl) \in CacheAlignedValue
  BY NewEntryType, VariantTypes, StoreAssumption DEF TypeOK
<1> QED
  BY <1>1, AssignEffect DEF Set, TypeOK, DataType, Starts

LEMMA LPushEffect ==
  ASSUME TypeOK, NEW k \in Keys, NEW v \in Values, LPush(k, v)
  PROVE  /\ TypeOK'
         /\ \/ /\ IsType(k, "list") /\ data[k].data.list \in Seq(Values)
               /\ Continues(k, List(Append(data[k].data.list, v)))
               /\ reply' = Number(Len(data[k].data.list) + 1)
            \/ /\ ~Live(k) /\ Starts(k, List(<<v>>), DefaultTTL)
               /\ reply' = Number(1)
<1>1. CASE /\ Live(k) /\ IsType(k, "list")
           /\ Update(k, List(Append(data[k].data.list, v)))
           /\ reply' = Number(Len(data[k].data.list) + 1)
  <2>1. k \in DOMAIN data /\ data[k] \in CacheAlignedValue
    BY <1>1 DEF Live, TypeOK
  <2>2. data[k].data.list \in Seq(Values)
    BY <1>1, <2>1, EntryParts, VariantParts DEF IsType
  <2>3. Append(data[k].data.list, v) \in Seq(Values)
    BY <2>2, AppendProperties
  <2>4. List(Append(data[k].data.list, v)) \in ValueVariant
    BY <2>3, VariantTypes
  <2>5. DataType' /\ Continues(k, List(Append(data[k].data.list, v)))
    BY <1>1, <2>1, <2>4, UpdateEffect DEF TypeOK, DataType, Continues
  <2> QED
    BY <1>1, <2>2, <2>5 DEF LPush, TypeOK, DataType
<1>2. CASE /\ ~Live(k) /\ Assign(k, NewEntry(List(<<v>>), DefaultTTL))
           /\ reply' = Number(1)
  <2>1. <<v>> \in Seq(Values)
    OBVIOUS
  <2>2. NewEntry(List(<<v>>), DefaultTTL) \in CacheAlignedValue
    <3>1. List(<<v>>) \in ValueVariant
      BY <2>1, VariantTypes
    <3>2. DefaultTTL \in Int /\ now \in Nat
      BY StoreAssumption DEF TypeOK
    <3> QED
      BY <3>1, <3>2, NewEntryType
  <2>3. DataType' /\ Starts(k, List(<<v>>), DefaultTTL)
    BY <1>2, <2>2, AssignEffect DEF TypeOK, DataType, Starts
  <2> QED
    BY <1>2, <2>3 DEF LPush, TypeOK, DataType
<1> QED
  BY <1>1, <1>2 DEF LPush

(* The hash h with v in field f. *)
WithField(h, f, v) == [g \in DOMAIN h \cup {f} |-> IF g = f THEN v ELSE h[g]]

LEMMA HSetEffect ==
  ASSUME TypeOK, NEW k \in Keys, NEW f \in Fields, NEW v \in Values, HSet(k, f, v)
  PROVE  /\ TypeOK'
         /\ \/ /\ IsType(k, "hash")
               /\ Continues(k, Hash(WithField(data[k].data.hash, f, v)))
               /\ reply' = Number(IF f \in DOMAIN data[k].data.hash THEN 0 ELSE 1)
            \/ /\ ~Live(k) /\ Starts(k, Hash([g \in {f} |-> v]), DefaultTTL)
               /\ reply' = Number(1)
<1>1. CASE /\ Live(k) /\ IsType(k, "hash")
           /\ Update(k, Hash(WithField(data[k].data.hash, f, v)))
           /\ reply' = Number(IF f \in DOMAIN data[k].data.hash THEN 0 ELSE 1)
  <2>1. k \in DOMAIN data /\ data[k] \in CacheAlignedValue
    BY <1>1 DEF Live, TypeOK
  <2>2. data[k].data.hash \in HashOf
    BY <1>1, <2>1, EntryParts, VariantParts DEF IsType
  <2>3. WithField(data[k].data.hash, f, v) \in HashOf
    BY <2>2, HashAdd DEF WithField
  <2>4. Hash(WithField(data[k].data.hash, f, v)) \in ValueVariant
    BY <2>3, VariantTypes
  <2>5. DataType' /\ Continues(k, Hash(WithField(data[k].data.hash, f, v)))
    BY <1>1, <2>1, <2>4, UpdateEffect DEF TypeOK, DataType, Continues
  <2> QED
    BY <1>1, <2>5 DEF HSet, TypeOK, DataType
<1>2. CASE /\ ~Live(k) /\ Assign(k, NewEntry(Hash([g \in {f} |-> v]), DefaultTTL))
           /\ reply' = Number(1)
  <2>1. [g \in {f} |-> v] \in HashOf
    BY HashStart
  <2>2. NewEntry(Hash([g \in {f} |-> v]), DefaultTTL) \in CacheAlignedValue
    BY <2>1, NewEntryType, VariantTypes, StoreAssumption DEF TypeOK
  <2>3. DataType' /\ Starts(k, Hash([g \in {f} |-> v]), DefaultTTL)
    BY <1>2, <2>2, AssignEffect DEF TypeOK, DataType, Starts
  <2> QED
    BY <1>2, <2>3 DEF HSet, TypeOK, DataType
<1> QED
  BY <1>1, <1>2 DEF HSet, WithField

LEMMA DelEffect ==
  ASSUME TypeOK, NEW k \in Keys, Del(k)
  PROVE  /\ TypeOK'
         /\ \/ /\ k \in DOMAIN data /\ reply' = Number(1)
               /\ DOMAIN data' = DOMAIN data
               /\ data'[k] = [data[k] EXCEPT !.tombstoned = TRUE]
               /\ \A j \in DOMAIN data : j # k => data'[j] = data[j]
            \/ ~Live(k) /\ UNCHANGED data /\ reply' = Number(0)
<1>1. CASE k \in DOMAIN data /\ ~data[k].tombstoned
  BY <1>1, TombstoneEffect DEF Del, TypeOK, DataType
<1>2. CASE ~(k \in DOMAIN data /\ ~data[k].tombstoned)
  BY <1>2 DEF Del, TypeOK, Live
<1> QED
  BY <1>1, <1>2

(* The commands that only look. *)
Reads(k) == \/ Get(k) \/ Exists(k) \/ WrongType(k, "list") \/ WrongType(k, "hash")
            \/ \E start, stop \in Indices : LRange(k, start, stop)
            \/ \E f \in Fields : HGet(k, f)

LEMMA ReadsChangeNothing ==
  ASSUME NEW k \in Keys, Reads(k)
  PROVE  UNCHANGED <<data, now>>
  BY DEF Reads, Get, Exists, WrongType, LRange, HGet

LEMMA CommandIs ==
  ASSUME NEW k \in Keys, Command(k)
  PROVE  \/ Reads(k) \/ Del(k)
         \/ \E v \in Values : LPush(k, v) \/ \E ttl \in TTLs : Set(k, v, ttl)
         \/ \E f \in Fields, v \in Values : HSet(k, f, v)
  BY DEF Command, Reads

LEMMA InitTypeOK == Init => TypeOK
  BY DEF Init, TypeOK

LEMMA NextTypeOK == TypeOK /\ [Next]_vars => TypeOK'
<1> SUFFICES ASSUME TypeOK, [Next]_vars PROVE TypeOK'
  OBVIOUS
<1>1. ASSUME NEW k \in Keys, Command(k) PROVE TypeOK'
  <2>1. CASE Reads(k)
    BY <2>1, ReadsChangeNothing DEF TypeOK
  <2>2. CASE Del(k)
    BY <2>2, DelEffect
  <2>3. ASSUME NEW v \in Values, LPush(k, v) PROVE TypeOK'
    BY <2>3, LPushEffect
  <2>4. ASSUME NEW v \in Values, NEW ttl \in TTLs, Set(k, v, ttl) PROVE TypeOK'
    BY <2>4, SetEffect
  <2>5. ASSUME NEW f \in Fields, NEW v \in Values, HSet(k, f, v) PROVE TypeOK'
    BY <2>5, HSetEffect
  <2> QED
    BY <1>1, <2>1, <2>2, <2>3, <2>4, <2>5, CommandIs
<1>2. ASSUME NEW k \in Keys, EvictExpired(k) PROVE TypeOK'
  BY <1>2, EvictEffect DEF EvictExpired, TypeOK, DataType
<1>3. ASSUME Ping \/ OutOfMemory PROVE TypeOK'
  BY <1>3 DEF Ping, OutOfMemory, TypeOK
<1>4. ASSUME Tick PROVE TypeOK'
  BY <1>4 DEF Tick, TypeOK
<1>5. CASE UNCHANGED vars
  BY <1>5 DEF vars, TypeOK
<1> QED
  BY <1>1, <1>2, <1>3, <1>4, <1>5 DEF Next

(***************************************************************************)
(* Every entry keeps a value of one of the stored types, a time, a TTL and *)
(* a flag, whatever commands continue, replace, delete or evict it.        *)
(***************************************************************************)
THEOREM TypeCorrect == Spec => []TypeOK
  BY InitTypeOK, NextTypeOK, PTL DEF Spec
-----------------------------------------------------------------------------
LEMMA StepKeepsLeases ==
  TypeOK /\ [Next]_vars =>
    [\A k \in DOMAIN data \cap DOMAIN data' : Live(k) => KeepsLease(k)]_vars
<1> SUFFICES ASSUME TypeOK, [Next]_vars, NEW j \in DOMAIN data \cap DOMAIN data', Live(j)
             PROVE  KeepsLease(j)
  OBVIOUS
<1> DEFINE Same == data'[j].created_at = data[j].created_at
                     /\ data'[j].ttl_seconds = data[j].ttl_seconds
<1>1. ASSUME NEW k \in Keys, Command(k) PROVE KeepsLease(j)
  <2>1. CASE Reads(k)
    BY <2>1, ReadsChangeNothing DEF KeepsLease
  <2>2. CASE Del(k)
    <3>1. data[j] \in CacheAlignedValue
      BY DEF TypeOK
    <3>2. Same
      BY <2>2, <3>1, DelEffect, ZenonT(40) DEF CacheAlignedValue
    <3> QED
      BY <3>2 DEF KeepsLease
  <2>3. ASSUME NEW v \in ValueVariant, Continues(k, v) PROVE KeepsLease(j)
    <3>1. data[j] \in CacheAlignedValue
      BY DEF TypeOK
    <3>2. Same
      BY <2>3, <3>1 DEF Continues, CacheAlignedValue
    <3> QED
      BY <3>2 DEF KeepsLease
  <2>4. ASSUME NEW v, NEW ttl, Starts(k, v, ttl), j # k PROVE KeepsLease(j)
    BY <2>4 DEF Starts, KeepsLease
  <2>5. ASSUME NEW v \in Values, LPush(k, v) PROVE KeepsLease(j)
    <3>1. CASE Live(k)
      <4>1. data[k].data.list \in Seq(Values)
            /\ Continues(k, List(Append(data[k].data.list, v)))
        BY <2>5, <3>1, LPushEffect
      <4>2. Append(data[k].data.list, v) \in Seq(Values)
        BY <4>1, AppendProperties
      <4> QED
        BY <2>3, <4>1, <4>2, VariantTypes
    <3>2. CASE ~Live(k)
      BY <2>4, <2>5, <3>2, LPushEffect DEF Continues
    <3> QED
      BY <3>1, <3>2
  <2>6. ASSUME NEW v \in Values, NEW ttl \in TTLs, Set(k, v, ttl) PROVE KeepsLease(j)
    <3>1. CASE j = k
      BY <2>6, <3>1 DEF KeepsLease
    <3>2. CASE j # k
      BY <2>4, <2>6, <3>2, SetEffect
    <3> QED
      BY <3>1, <3>2
  <2>7. ASSUME NEW f \in Fields, NEW v \in Values, HSet(k, f, v) PROVE KeepsLease(j)
    <3>1. CASE Live(k)
      <4>1. IsType(k, "hash") /\ Continues(k, Hash(WithField(data[k].data.hash, f, v)))
        BY <2>7, <3>1, HSetEffect
      <4>2. data[k] \in CacheAlignedValue
        BY <3>1 DEF Live, TypeOK
      <4>3. data[k].data.hash \in HashOf
        BY <4>1, <4>2, EntryParts, VariantParts DEF IsType
      <4>4. WithField(data[k].data.hash, f, v) \in HashOf
        BY <4>3, HashAdd DEF WithField
      <4> QED
        BY <2>3, <4>1, <4>4, VariantTypes
    <3>2. CASE ~Live(k)
      BY <2>4, <2>7, <3>2, HSetEffect DEF Continues
    <3> QED
      BY <3>1, <3>2
  <2> QED
    BY <1>1, <2>1, <2>2, <2>5, <2>6, <2>7, CommandIs
<1>2. ASSUME NEW k \in Keys, EvictExpired(k) PROVE KeepsLease(j)
  BY <1>2, EvictEffect DEF EvictExpired, KeepsLease, TypeOK, DataType
<1>3. CASE Ping \/ OutOfMemory \/ Tick \/ UNCHANGED vars
  BY <1>3 DEF Ping, OutOfMemory, Tick, vars, KeepsLease
<1> QED
  BY <1>1, <1>2, <1>3 DEF Next

(***************************************************************************)
(* Whatever the commands of all clients do, a live key's deadline moves    *)
(* only when that key is SET.                                              *)
(***************************************************************************)
THEOREM LeaseKeptHolds == Spec => LeaseKept
  BY InitTypeOK, NextTypeOK, StepKeepsLeases, PTL DEF Spec, LeaseKept
-----------------------------------------------------------------------------
(* What clients see of an entry. *)
Seen(e) == [value |-> e.data, until |-> RunsOut(e)]

LEMMA ViewParts ==
  /\ DOMAIN View = {j \in Keys : Live(j)}
  /\ \A j \in Keys : Live(j) => View[j] = Seen(data[j])
  BY DEF View, Seen

(* The view of other keys does not change. *)
LEMMA OthersSeen ==
  ASSUME NEW j \in Keys, UNCHANGED now, j \in DOMAIN data' <=> j \in DOMAIN data,
         j \in DOMAIN data => data'[j] = data[j]
  PROVE  Live(j)' <=> Live(j)
  BY DEF Live, IsExpired

LEMMA ViewPut ==
  ASSUME NEW k \in Keys, NEW v, Live(k)', Seen(data'[k]) = v,
         \A j \in Keys : j # k => (Live(j)' <=> Live(j)) /\ (Live(j) => data'[j] = data[j])
  PROVE  View' = KV!Put(View, k, v)
<1>1. {j \in Keys : Live(j)'} = DOMAIN View \cup {k}
  BY ViewParts
<1>2. \A j \in DOMAIN View \cup {k} : Seen(data'[j]) = IF j = k THEN v ELSE View[j]
  BY ViewParts
<1>3. View' = [j \in {i \in Keys : Live(i)'} |-> Seen(data'[j])]
  BY DEF View, Seen
<1> QED
  BY <1>1, <1>2, <1>3 DEF KV!Put

LEMMA ViewWithout ==
  ASSUME NEW K \in SUBSET Keys,
         \A j \in Keys : /\ Live(j)' <=> Live(j) /\ j \notin K
                         /\ Live(j) /\ j \notin K => data'[j] = data[j]
  PROVE  View' = KV!Without(View, K)
<1>1. {j \in Keys : Live(j)'} = DOMAIN View \ K
  BY ViewParts
<1>2. \A j \in DOMAIN View \ K : Seen(data'[j]) = View[j]
  BY ViewParts
<1>3. View' = [j \in {i \in Keys : Live(i)'} |-> Seen(data'[j])]
  BY DEF View, Seen
<1> QED
  BY <1>1, <1>2, <1>3 DEF KV!Without

LEMMA StartsView ==
  ASSUME TypeOK, NEW k \in Keys, NEW v, NEW ttl \in Int, Starts(k, v, ttl), UNCHANGED now
  PROVE  /\ ttl # 0 => View' = KV!Put(View, k, KV!Item(v, KV!Deadline(ttl)))
         /\ ttl = 0 => View' = KV!Without(View, {k})
<1>1. Live(k)' <=> ttl # 0
  BY DEF Live, IsExpired, Starts, NewEntry, TypeOK
<1>2. Seen(data'[k]) = KV!Item(v, KV!Deadline(ttl))
  BY DEF Starts, NewEntry, Seen, RunsOut, KV!Item, KV!Deadline, KV!Never
<1>3. \A j \in Keys : j # k => (Live(j)' <=> Live(j)) /\ (Live(j) => data'[j] = data[j])
  BY OthersSeen DEF Starts, Live
<1>4. ttl # 0 => View' = KV!Put(View, k, KV!Item(v, KV!Deadline(ttl)))
  BY <1>1, <1>2, <1>3, ViewPut
<1>5. ttl = 0 => View' = KV!Without(View, {k})
  BY <1>1, <1>3, ViewWithout
<1> QED
  BY <1>4, <1>5

LEMMA ContinuesView ==
  ASSUME TypeOK, NEW k \in Keys, NEW v, Continues(k, v), UNCHANGED now
  PROVE  View' = KV!Put(View, k, KV!Item(v, KV!Until(k)))
<1>1. k \in DOMAIN data /\ data[k] \in CacheAlignedValue
  BY DEF TypeOK, Continues, Live
<1>2. /\ data'[k].data = v /\ data'[k].created_at = data[k].created_at
      /\ data'[k].ttl_seconds = data[k].ttl_seconds
      /\ data'[k].tombstoned = data[k].tombstoned
  BY <1>1 DEF Continues, CacheAlignedValue
<1>3. Live(k)'
  BY <1>1, <1>2 DEF Continues, Live, IsExpired
<1>4. \A j \in Keys : j # k => (Live(j)' <=> Live(j)) /\ (Live(j) => data'[j] = data[j])
  BY OthersSeen DEF Continues, Live
<1>5. KV!Until(k) = RunsOut(data[k])
  BY ViewParts DEF Continues, KV!Until, Seen
<1>6. Seen(data'[k]) = KV!Item(v, KV!Until(k))
  BY <1>2, <1>5 DEF Seen, RunsOut, KV!Item
<1> QED
  BY <1>3, <1>4, <1>6, ViewPut
-----------------------------------------------------------------------------
(***************************************************************************)
(* The clamping of LRANGE selects the positions that its indices name, for *)
(* lists of every length and indices of either sign, inside the list or    *)
(* far outside it.                                                         *)
(***************************************************************************)
LEMMA SliceIsRange ==
  ASSUME NEW list \in Seq(Values), NEW start \in Int, NEW stop \in Int
  PROVE  KV!IsRange(Slice(list, start, stop), list, start, stop)
<1> DEFINE len == Len(list)
           from == IF start < 0 THEN start + len ELSE start
           to == IF stop < 0 THEN stop + len ELSE stop
           s == IF from < 0 THEN 0 ELSE from
           e == IF to >= len THEN len - 1 ELSE to
           r == Slice(list, start, stop)
<1>1. len \in Nat /\ s \in Nat /\ e \in Int /\ e <= len - 1
  BY LenProperties
<1>2. \A i \in 0 .. (len - 1) : KV!Selected(i, len, start, stop) <=> s <= i /\ i <= e
  BY <1>1 DEF KV!Selected
<1>3. r = IF s > e THEN <<>> ELSE SubSeq(list, s + 1, e + 1)
  BY DEF Slice
<1> HIDE DEF s, e, from, to, r
<1>4. CASE s > e
  <2>1. r = <<>> /\ Len(r) = 0
    BY <1>3, <1>4
  <2>2. 0 \in 0 .. len /\ Len(r) <= len - 0
    BY <1>1, <2>1
  <2>3. \A i \in 0 .. (len - 1) :
          KV!Selected(i, len, start, stop) <=> i \in 0 .. (0 + Len(r) - 1)
    BY <1>1, <1>2, <1>4, <2>1
  <2>4. \A i \in 1 .. Len(r) : r[i] = list[0 + i]
    BY <2>1
  <2> QED
    BY <2>2, <2>3, <2>4 DEF KV!IsRange, r
<1>5. CASE s <= e
  <2>1. \A i \in (s + 1) .. (e + 1) : list[i] \in Values
    BY <1>1, ElementOfSeq
  <2>2. s + 1 \in Int /\ e + 1 \in Int
    BY <1>1
  <2>3. /\ Len(SubSeq(list, s + 1, e + 1))
             = IF s + 1 <= e + 1 THEN (e + 1) - (s + 1) + 1 ELSE 0
        /\ \A i \in 1 .. (e + 1) - (s + 1) + 1 :
             SubSeq(list, s + 1, e + 1)[i] = list[(s + 1) + i - 1]
    BY <2>1, <2>2, SubSeqProperties
  <2>4. r = SubSeq(list, s + 1, e + 1)
    BY <1>1, <1>3, <1>5
  <2>5. Len(r) = e - s + 1
    BY <1>1, <1>5, <2>3, <2>4
  <2>6. \A i \in 1 .. Len(r) : r[i] = list[s + i]
    BY <1>1, <1>5, <2>3, <2>4, <2>5
  <2>7. s \in 0 .. len /\ Len(r) <= len - s
    BY <1>1, <1>5, <2>5
  <2>8. \A i \in 0 .. (len - 1) :
          KV!Selected(i, len, start, stop) <=> i \in s .. (s + Len(r) - 1)
    BY <1>1, <1>2, <2>5
  <2> QED
    BY <2>6, <2>7, <2>8 DEF KV!IsRange, r
<1> QED
  BY <1>1, <1>4, <1>5
-----------------------------------------------------------------------------
(* KeyValue has the replies and values of Replies under names of its own. *)
LEMMA RepliesAgree ==
  /\ KV!OK = OK /\ KV!PONG = PONG /\ KV!OOM = OOM /\ KV!WRONGTYPE = WRONGTYPE /\ KV!Nil = Nil
  /\ \A x : /\ KV!Bulk(x) = Bulk(x) /\ KV!Number(x) = Number(x)
           /\ KV!String(x) = String(x) /\ KV!List(x) = List(x) /\ KV!Hash(x) = Hash(x)
  BY DEF KV!OK, OK, KV!PONG, PONG, KV!OOM, OOM, KV!WRONGTYPE, WRONGTYPE, KV!Nil, Nil, KV!Bulk,
     Bulk, KV!Number, Number, KV!String, String, KV!List, List, KV!Hash, Hash

LEMMA SameView == ASSUME UNCHANGED <<data, now>> PROVE View' = View
  BY DEF View, Live, IsExpired, RunsOut

(* What clients see of a live key. *)
LEMMA LiveSeen ==
  ASSUME TypeOK, NEW k \in Keys, Live(k)
  PROVE  /\ k \in DOMAIN View /\ View[k].value = data[k].data
         /\ k \in DOMAIN data /\ data[k] \in CacheAlignedValue /\ data[k].data \in ValueVariant
<1>1. k \in DOMAIN data /\ data[k] \in CacheAlignedValue
  BY DEF Live, TypeOK
<1>2. k \in DOMAIN View /\ View[k].value = data[k].data
  BY ViewParts DEF Seen
<1> QED
  BY <1>1, <1>2, EntryParts

LEMMA DeadUnseen == ASSUME NEW k \in Keys, ~Live(k) PROVE k \notin DOMAIN View
  BY ViewParts

LEMMA ReadRefines ==
  ASSUME TypeOK, NEW k \in Keys, Reads(k)
  PROVE  KV!KVNext
<1>1. View' = View /\ UNCHANGED now
  BY ReadsChangeNothing, SameView
<1>2. CASE Get(k)
  <2>1. KV!Get(k)
    BY <1>1, <1>2, LiveSeen, DeadUnseen, RepliesAgree DEF Get, IsType, KV!Get
  <2> QED
    BY <2>1 DEF KV!KVNext
<1>3. CASE Exists(k)
  <2>1. KV!Exists(k)
    BY <1>1, <1>3, LiveSeen, DeadUnseen, RepliesAgree DEF Exists, KV!Exists
  <2> QED
    BY <2>1 DEF KV!KVNext
<1>4. ASSUME NEW type \in {"list", "hash"}, WrongType(k, type) PROVE KV!KVNext
  <2>1. KV!RefuseType(k, type)
    BY <1>1, <1>4, LiveSeen, RepliesAgree DEF WrongType, IsType, KV!RefuseType, KV!Mismatch
  <2> QED
    BY <1>4, <2>1 DEF KV!KVNext
<1>5. ASSUME NEW start \in Indices, NEW stop \in Indices, LRange(k, start, stop)
      PROVE  KV!KVNext
  <2>1. CASE Live(k)
    <3>1. IsType(k, "list") /\ reply' = Array(Slice(data[k].data.list, start, stop))
      BY <1>5, <2>1 DEF LRange
    <3>2. data[k].data.list \in Seq(Values)
      BY <2>1, <3>1, LiveSeen, VariantParts DEF IsType
    <3>3. ~KV!Mismatch(k, "list") /\ KV!ListAt(k) = data[k].data.list
      BY <2>1, <3>1, LiveSeen DEF KV!Mismatch, KV!ListAt, IsType
    <3>4. start \in Int /\ stop \in Int
      BY StoreAssumption
    <3>5. KV!IsRange(Slice(data[k].data.list, start, stop), data[k].data.list, start, stop)
      BY <3>2, <3>4, SliceIsRange
    <3>6. reply'[1] = "array" /\ reply'[2] = Slice(data[k].data.list, start, stop)
      BY <3>1 DEF Array
    <3>7. KV!LRange(k, start, stop)
      BY <1>1, <3>3, <3>5, <3>6 DEF KV!LRange
    <3> QED
      BY <3>7 DEF KV!KVNext
  <2>2. CASE ~Live(k)
    <3>1. ~KV!Mismatch(k, "list") /\ KV!ListAt(k) = <<>>
      BY <2>2, DeadUnseen DEF KV!Mismatch, KV!ListAt
    <3>2. reply'[1] = "array" /\ reply'[2] = <<>>
      BY <1>5, <2>2 DEF LRange, Array
    <3>3. KV!IsRange(<<>>, <<>>, start, stop)
      BY DEF KV!IsRange
    <3>4. KV!LRange(k, start, stop)
      BY <1>1, <3>1, <3>2, <3>3 DEF KV!LRange
    <3> QED
      BY <3>4 DEF KV!KVNext
  <2> QED
    BY <2>1, <2>2
<1>6. ASSUME NEW f \in Fields, HGet(k, f) PROVE KV!KVNext
  <2>1. CASE Live(k)
    <3>1. IsType(k, "hash")
          /\ reply' = IF f \in DOMAIN data[k].data.hash THEN Bulk(data[k].data.hash[f]) ELSE Nil
      BY <1>6, <2>1 DEF HGet
    <3>2. ~KV!Mismatch(k, "hash") /\ KV!HashAt(k) = data[k].data.hash
      BY <2>1, <3>1, LiveSeen DEF KV!Mismatch, KV!HashAt, IsType
    <3>3. KV!HGet(k, f)
      BY <1>1, <3>1, <3>2, RepliesAgree DEF KV!HGet
    <3> QED
      BY <3>3 DEF KV!KVNext
  <2>2. CASE ~Live(k)
    <3>1. ~KV!Mismatch(k, "hash") /\ f \notin DOMAIN KV!HashAt(k)
      BY <2>2, DeadUnseen, RepliesAgree DEF KV!Mismatch, KV!HashAt
    <3>2. KV!HGet(k, f)
      BY <1>1, <1>6, <2>2, <3>1, RepliesAgree DEF HGet, KV!HGet
    <3> QED
      BY <3>2 DEF KV!KVNext
  <2> QED
    BY <2>1, <2>2
<1> QED
  BY <1>2, <1>3, <1>4, <1>5, <1>6 DEF Reads

LEMMA SetRefines ==
  ASSUME TypeOK, NEW k \in Keys, NEW v \in Values, NEW ttl \in TTLs, Set(k, v, ttl)
  PROVE  KV!KVNext
<1>1. Starts(k, String(v), ttl) /\ UNCHANGED now /\ reply' = OK /\ ttl \in Int
  BY SetEffect, StoreAssumption DEF Set
<1>2. View' = IF ttl = 0 THEN KV!Without(View, {k})
              ELSE KV!Put(View, k, KV!Item(String(v), KV!Deadline(ttl)))
  BY <1>1, StartsView
<1>3. KV!Set(k, v, ttl)
  BY <1>1, <1>2, RepliesAgree DEF KV!Set
<1> QED
  BY <1>3 DEF KV!KVNext

LEMMA DelRefines == ASSUME TypeOK, NEW k \in Keys, Del(k) PROVE KV!KVNext
<1>1. UNCHANGED now
  BY DEF Del
<1>2. CASE /\ k \in DOMAIN data /\ reply' = Number(1)
           /\ DOMAIN data' = DOMAIN data
           /\ data'[k] = [data[k] EXCEPT !.tombstoned = TRUE]
           /\ \A j \in DOMAIN data : j # k => data'[j] = data[j]
  <2>1. ~Live(k)'
    <3>1. data[k] \in CacheAlignedValue
      BY <1>2 DEF TypeOK
    <3> QED
      BY <1>2, <3>1 DEF Live, CacheAlignedValue
  <2>2. \A j \in Keys : j # k => (Live(j)' <=> Live(j)) /\ (Live(j) => data'[j] = data[j])
    BY <1>1, <1>2, OthersSeen DEF Live
  <2>3. View' = KV!Without(View, {k})
    BY <2>1, <2>2, ViewWithout
  <2>4. KV!Del(k)
    BY <1>1, <1>2, <2>3, RepliesAgree DEF KV!Del
  <2> QED
    BY <2>4 DEF KV!KVNext
<1>3. CASE ~Live(k) /\ UNCHANGED data /\ reply' = Number(0)
  <2>1. \A j \in Keys : Live(j)' <=> Live(j)
    BY <1>1, <1>3 DEF Live, IsExpired
  <2>2. View' = KV!Without(View, {k})
    BY <1>3, <2>1, ViewWithout
  <2>3. KV!Del(k)
    BY <1>1, <1>3, <2>2, DeadUnseen, RepliesAgree DEF KV!Del
  <2> QED
    BY <2>3 DEF KV!KVNext
<1> QED
  BY <1>2, <1>3, DelEffect

LEMMA LPushRefines ==
  ASSUME TypeOK, NEW k \in Keys, NEW v \in Values, LPush(k, v)
  PROVE  KV!KVNext
<1>1. UNCHANGED now
  BY DEF LPush
<1>2. CASE Live(k)
  <2>1. /\ IsType(k, "list") /\ Continues(k, List(Append(data[k].data.list, v)))
        /\ reply' = Number(Len(data[k].data.list) + 1)
    BY <1>2, LPushEffect
  <2>2. ~KV!Mismatch(k, "list") /\ KV!ListAt(k) = data[k].data.list
    BY <1>2, <2>1, LiveSeen DEF KV!Mismatch, KV!ListAt, IsType
  <2>3. View' = KV!Put(View, k, KV!Item(List(Append(data[k].data.list, v)), KV!Until(k)))
    BY <1>1, <2>1, ContinuesView
  <2>4. KV!LPush(k, v)
    BY <1>1, <2>1, <2>2, <2>3, RepliesAgree DEF KV!LPush
  <2> QED
    BY <2>4 DEF KV!KVNext
<1>3. CASE ~Live(k)
  <2>1. Starts(k, List(<<v>>), DefaultTTL) /\ reply' = Number(1)
    BY <1>3, LPushEffect DEF Continues
  <2>2. ~KV!Mismatch(k, "list") /\ KV!ListAt(k) = <<>>
    BY <1>3, DeadUnseen DEF KV!Mismatch, KV!ListAt
  <2>3. View' = KV!Put(View, k, KV!Item(List(<<v>>), KV!Until(k)))
    <3>1. DefaultTTL \in Int /\ DefaultTTL # 0
      BY StoreAssumption
    <3>2. KV!Until(k) = KV!Deadline(DefaultTTL)
      BY <1>3, DeadUnseen DEF KV!Until
    <3> QED
      BY <1>1, <2>1, <3>1, <3>2, StartsView
  <2>4. Append(<<>>, v) = <<v>> /\ Len(<<>>) + 1 = 1
    OBVIOUS
  <2>5. KV!LPush(k, v)
    BY <1>1, <2>1, <2>2, <2>3, <2>4, RepliesAgree DEF KV!LPush
  <2> QED
    BY <2>5 DEF KV!KVNext
<1> QED
  BY <1>2, <1>3

LEMMA HSetRefines ==
  ASSUME TypeOK, NEW k \in Keys, NEW f \in Fields, NEW v \in Values, HSet(k, f, v)
  PROVE  KV!KVNext
<1>1. UNCHANGED now
  BY DEF HSet
<1>2. CASE Live(k)
  <2>1. /\ IsType(k, "hash") /\ Continues(k, Hash(WithField(data[k].data.hash, f, v)))
        /\ reply' = Number(IF f \in DOMAIN data[k].data.hash THEN 0 ELSE 1)
    BY <1>2, HSetEffect
  <2>2. ~KV!Mismatch(k, "hash") /\ KV!HashAt(k) = data[k].data.hash
    BY <1>2, <2>1, LiveSeen DEF KV!Mismatch, KV!HashAt, IsType
  <2>3. View' = KV!Put(View, k, KV!Item(Hash(WithField(data[k].data.hash, f, v)), KV!Until(k)))
    BY <1>1, <2>1, ContinuesView
  <2>4. WithField(data[k].data.hash, f, v) = KV!Put(KV!HashAt(k), f, v)
    BY <2>2 DEF WithField, KV!Put
  <2>5. KV!HSet(k, f, v)
    BY <1>1, <2>1, <2>2, <2>3, <2>4, RepliesAgree DEF KV!HSet
  <2> QED
    BY <2>5 DEF KV!KVNext
<1>3. CASE ~Live(k)
  <2>1. Starts(k, Hash([g \in {f} |-> v]), DefaultTTL) /\ reply' = Number(1)
    BY <1>3, HSetEffect DEF Continues
  <2>2. ~KV!Mismatch(k, "hash") /\ KV!HashAt(k) = [g \in {} |-> Nil]
    BY <1>3, DeadUnseen, RepliesAgree DEF KV!Mismatch, KV!HashAt
  <2>3. View' = KV!Put(View, k, KV!Item(Hash([g \in {f} |-> v]), KV!Until(k)))
    <3>1. DefaultTTL \in Int /\ DefaultTTL # 0
      BY StoreAssumption
    <3>2. KV!Until(k) = KV!Deadline(DefaultTTL)
      BY <1>3, DeadUnseen DEF KV!Until
    <3> QED
      BY <1>1, <2>1, <3>1, <3>2, StartsView
  <2>4. [g \in {f} |-> v] = KV!Put(KV!HashAt(k), f, v) /\ f \notin DOMAIN KV!HashAt(k)
    BY <2>2 DEF KV!Put
  <2>5. KV!HSet(k, f, v)
    BY <1>1, <2>1, <2>2, <2>3, <2>4, RepliesAgree DEF KV!HSet
  <2> QED
    BY <2>5 DEF KV!KVNext
<1> QED
  BY <1>2, <1>3

(* Eviction is not seen. *)
LEMMA EvictUnseen == ASSUME TypeOK, NEW k \in Keys, EvictExpired(k) PROVE View' = View
<1>1. /\ DOMAIN data' = DOMAIN data \ {k}
      /\ \A j \in DOMAIN data' : data'[j] = data[j]
      /\ UNCHANGED now
  BY EvictEffect DEF EvictExpired, TypeOK, DataType
<1>2. ~Live(k) /\ ~Live(k)'
  BY <1>1 DEF EvictExpired, Live
<1>3. \A j \in Keys : j # k => (Live(j)' <=> Live(j)) /\ (Live(j) => data'[j] = data[j])
  BY <1>1, OthersSeen DEF Live
<1>4. {j \in Keys : Live(j)'} = {j \in Keys : Live(j)}
  BY <1>2, <1>3
<1>5. \A j \in {i \in Keys : Live(i)} : Seen(data'[j]) = Seen(data[j])
  BY <1>2, <1>3
<1> QED
  BY <1>4, <1>5 DEF View, Seen

(* The keys that a second takes are the ones whose TTL ends with it. *)
LEMMA TickRefines == ASSUME TypeOK, Tick PROVE KV!KVNext
<1> DEFINE K == {j \in DOMAIN View : KV!Due(j, now + 1)}
<1>1. UNCHANGED <<data, reply>> /\ now' = now + 1 /\ now \in Nat
  BY DEF Tick, TypeOK
<1>2. ASSUME NEW j \in Keys PROVE Live(j)' <=> Live(j) /\ j \notin K
  <2>1. CASE j \in DOMAIN data /\ ~data[j].tombstoned
    <3>1. data[j].created_at \in Nat /\ data[j].ttl_seconds \in Int
      BY <2>1, EntryParts DEF TypeOK
    <3>2. ASSUME Live(j)
          PROVE  j \in K <=> /\ data[j].ttl_seconds >= 0
                             /\ data[j].created_at + data[j].ttl_seconds <= now + 1
      <4>1. j \in DOMAIN View /\ View[j].until = RunsOut(data[j])
        BY <3>2, ViewParts DEF Seen
      <4> QED
        BY <3>1, <4>1 DEF RunsOut, KV!Due, KV!Never
    <3> HIDE DEF K
    <3> QED
      BY <1>1, <2>1, <3>1, <3>2 DEF Live, IsExpired
  <2>2. CASE ~(j \in DOMAIN data /\ ~data[j].tombstoned)
    BY <1>1, <2>2 DEF Live
  <2> QED
    BY <2>1, <2>2
<1>3. K \in SUBSET Keys
  BY ViewParts
<1>4. View' = KV!Without(View, K)
  <2> HIDE DEF K
  <2> QED
    BY <1>1, <1>2, <1>3, ViewWithout
<1>5. KV!Expire
  BY <1>1, <1>4 DEF KV!Expire
<1> QED
  BY <1>5 DEF KV!KVNext

LEMMA StepRefines == TypeOK /\ [Next]_vars => [KV!KVNext]_(KV!kvVars)
<1> SUFFICES ASSUME TypeOK, [Next]_vars PROVE KV!KVNext \/ UNCHANGED <<View, now, reply>>
  BY DEF KV!kvVars
<1>1. ASSUME NEW k \in Keys, Command(k) PROVE KV!KVNext
  BY <1>1, CommandIs, ReadRefines, SetRefines, DelRefines, LPushRefines, HSetRefines
<1>2. ASSUME NEW k \in Keys, EvictExpired(k) PROVE UNCHANGED <<View, now, reply>>
  <2>1. View' = View
    BY <1>2, EvictUnseen
  <2> QED
    BY <1>2, <2>1 DEF EvictExpired
<1>3. CASE Ping
  <2>1. KV!Ping
    BY <1>3, SameView, RepliesAgree DEF Ping, KV!Ping
  <2> QED
    BY <2>1 DEF KV!KVNext
<1>4. CASE OutOfMemory
  <2>1. KV!Refuse
    BY <1>4, SameView, RepliesAgree DEF OutOfMemory, KV!Refuse
  <2> QED
    BY <2>1 DEF KV!KVNext
<1>5. CASE Tick
  BY <1>5, TickRefines
<1>6. CASE UNCHANGED vars
  BY <1>6, SameView DEF vars
<1> QED
  BY <1>1, <1>2, <1>3, <1>4, <1>5, <1>6 DEF Next

(***************************************************************************)
(* The shards, with their tombstones, their lazy expiry and the sweeper's  *)
(* evictions, implement KeyValue: clients see a plain map from which a key *)
(* disappears by DEL and in the second its TTL ends, and not otherwise,    *)
(* and every reply is the one that map gives.                              *)
(***************************************************************************)
THEOREM StoreRefinesKeyValue == Spec => ImplementsKeyValue
<1>1. Init => KV!KVInit
  <2> SUFFICES ASSUME Init PROVE View = [k \in {} |-> Nil] /\ now = 0 /\ reply = OK
    BY RepliesAgree DEF KV!KVInit
  <2>1. {j \in Keys : Live(j)} = {}
    BY DEF Init, Live
  <2> QED
    BY <2>1 DEF View, Init
<1> QED
  BY <1>1, InitTypeOK, NextTypeOK, StepRefines, PTL DEF Spec, ImplementsKeyValue, KV!KVSpec
=============================================================================
