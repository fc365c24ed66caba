--------------------------- MODULE MCPersistence ---------------------------
(* Persistence with the constants of its run; values are interchangeable. *)
EXTENDS Persistence, TLC

Symmetry == Permutations(Keys) \cup Permutations(Values)

(* The last reply: no step and no property looks back at it. *)
WithoutReply == <<data, now, entries, durable, torn, phase, position, pending,
                  starts, before, excused>>

MCTTLs == {1}

MCIndices == {0}

(* A torn line may read as a command on either key, or as none. *)
MCReadings == {<<"DEL", k>> : k \in Keys} \cup {<<"SE">>}

MCRequests ==
  {<<"SET", k, v, 1>> : k \in Keys, v \in Values}
    \cup {<<"SET", k, v, NotANumber>> : k \in Keys, v \in Values}
    \cup {<<"DEL", k>> : k \in Keys}
    \cup {<<"LPUSH", k, v>> : k \in Keys, v \in Values}
    \cup {<<"HSET", k, f, v>> : k \in Keys, f \in Fields, v \in Values}
    \cup {<<"GET", k>> : k \in Keys} \cup {<<"EXISTS", k>> : k \in Keys}
    \cup {<<"LRANGE", k, 0, i>> : k \in Keys, i \in {0, NotANumber}}
    \cup {<<"HGET", k, f>> : k \in Keys, f \in Fields}
    \cup {<<"PING">>, <<>>}
=============================================================================
