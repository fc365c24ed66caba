------------------------------ MODULE KeyValue ------------------------------
(***************************************************************************)
(* What the storage engine promises its clients: a map from keys to        *)
(* strings, lists and hashes.  A key disappears when it is deleted and in  *)
(* the very second its TTL has run out, and never otherwise.  Store, with  *)
(* its lazily expiring and tombstoned entries, is shown to implement this  *)
(* module.                                                                 *)
(***************************************************************************)
EXTENDS Integers, Sequences, Replies

CONSTANTS Keys, Fields, Values,
          Indices,      \* arguments of LRANGE
          TTLs,         \* arguments of SET
          DefaultTTL    \* the TTL of a list or hash

VARIABLES view,    \* the keys there are, with their values and deadlines
          time,    \* in seconds
          reply    \* what the last command answered

kvVars == <<view, time, reply>>

Never == -1

(* A TTL that starts now; a negative one never ends. *)
Deadline(ttl) == IF ttl < 0 THEN Never ELSE time + ttl

Item(v, until) == [value |-> v, until |-> until]

Put(map, k, v) == [j \in DOMAIN map \cup {k} |-> IF j = k THEN v ELSE map[j]]

Without(map, K) == [j \in DOMAIN map \ K |-> map[j]]

KVInit == view = [k \in {} |-> Nil] /\ time = 0 /\ reply = OK
-----------------------------------------------------------------------------
(* A value stored with a TTL of 0 is gone at once. *)
Set(k, v, ttl) == /\ view' = IF ttl = 0 THEN Without(view, {k})
                             ELSE Put(view, k, Item(String(v), Deadline(ttl)))
                  /\ reply' = OK
                  /\ UNCHANGED time

(* Memory may run out in any command that writes; nothing changes then. *)
Refuse == reply' = OOM /\ UNCHANGED <<view, time>>

Get(k) == /\ reply' = IF k \notin DOMAIN view THEN Nil
                      ELSE IF view[k].value.type = "string" THEN Bulk(view[k].value.string)
                      ELSE Bulk(view[k].value.type)
          /\ UNCHANGED <<view, time>>

(* An absent key may still count as deleted, if it has expired. *)
Del(k) == /\ view' = Without(view, {k})
          /\ reply' \in {Number(1)} \cup (IF k \in DOMAIN view THEN {} ELSE {Number(0)})
          /\ UNCHANGED time

Exists(k) == /\ reply' = Number(IF k \in DOMAIN view THEN 1 ELSE 0)
             /\ UNCHANGED <<view, time>>

Ping == reply' = PONG /\ UNCHANGED <<view, time>>

(* A command for one type meets a key of another. *)
Mismatch(k, type) == k \in DOMAIN view /\ view[k].value.type # type

(* A key that is there keeps its deadline when its value changes. *)
Until(k) == IF k \in DOMAIN view THEN view[k].until ELSE Deadline(DefaultTTL)

ListAt(k) == IF k \in DOMAIN view THEN view[k].value.list ELSE <<>>

(***************************************************************************)
(* The value is added to the list, and the others stay in order.  At which *)
(* end is left open: README.md (Command Reference) and command.h:71 say    *)
(* the front, and the code appends.                                        *)
(***************************************************************************)
LPush(k, v) == /\ ~Mismatch(k, "list")
               /\ \E list \in {<<v>> \o ListAt(k), Append(ListAt(k), v)} :
                    view' = Put(view, k, Item(List(list), Until(k)))
               /\ reply' = Number(Len(ListAt(k)) + 1)
               /\ UNCHANGED time

(* Position i, from 0, is selected; negative arguments count from the end. *)
Selected(i, len, start, stop) ==
  /\ IF start < 0 THEN i - len >= start ELSE i >= start
  /\ IF stop < 0 THEN i - len <= stop ELSE i <= stop

(* s is the stretch of list that holds the selected positions. *)
IsRange(s, list, start, stop) ==
  \E from \in 0 .. Len(list) :
    /\ Len(s) <= Len(list) - from
    /\ \A i \in 1 .. Len(s) : s[i] = list[from + i]
    /\ \A i \in 0 .. (Len(list) - 1) :
         Selected(i, Len(list), start, stop) <=> i \in from .. (from + Len(s) - 1)

LRange(k, start, stop) ==
  /\ ~Mismatch(k, "list")
  /\ reply'[1] = "array" /\ IsRange(reply'[2], ListAt(k), start, stop)
  /\ UNCHANGED <<view, time>>

HashAt(k) == IF k \in DOMAIN view THEN view[k].value.hash ELSE [f \in {} |-> Nil]

HSet(k, f, v) == /\ ~Mismatch(k, "hash")
                 /\ view' = Put(view, k, Item(Hash(Put(HashAt(k), f, v)), Until(k)))
                 /\ reply' = Number(IF f \in DOMAIN HashAt(k) THEN 0 ELSE 1)
                 /\ UNCHANGED time

HGet(k, f) == /\ ~Mismatch(k, "hash")
              /\ reply' = IF f \in DOMAIN HashAt(k) THEN Bulk(HashAt(k)[f]) ELSE Nil
              /\ UNCHANGED <<view, time>>

RefuseType(k, type) == /\ Mismatch(k, type)
                       /\ reply' = WRONGTYPE
                       /\ UNCHANGED <<view, time>>

Due(k, second) == view[k].until # Never /\ view[k].until <= second

(* A second passes: the keys whose deadline has come disappear, and no others. *)
Expire == /\ time' = time + 1
          /\ view' = Without(view, {k \in DOMAIN view : Due(k, time + 1)})
          /\ UNCHANGED reply

KVNext ==
  \/ Refuse \/ Ping \/ Expire
  \/ \E k \in Keys :
       \/ Get(k) \/ Del(k) \/ Exists(k)
       \/ RefuseType(k, "list") \/ RefuseType(k, "hash")
       \/ \E v \in Values : LPush(k, v) \/ \E ttl \in TTLs : Set(k, v, ttl)
       \/ \E start, stop \in Indices : LRange(k, start, stop)
       \/ \E f \in Fields : HGet(k, f) \/ \E v \in Values : HSet(k, f, v)

KVSpec == KVInit /\ [][KVNext]_kvVars
=============================================================================
