------------------------------ MODULE Commands ------------------------------
(***************************************************************************)
(* From a line of text to a command and back: CommandFactory::parse, what  *)
(* each command does to the store and whether it is logged, and serialize. *)
(* A line is the sequence of its tokens.  Command words stand for all      *)
(* their spellings; a number stands for its digits, and NotANumber for a   *)
(* token that std::stoll refuses.                                          *)
(***************************************************************************)
EXTENDS Store

CONSTANTS NotANumber, Null   \* Null: nullptr

ASSUME CommandsAssumption == NotANumber \notin Int

(* The TTL of a SET: 86400 if there is none, or if it is no number. *)
TTLOf(tokens) == IF Len(tokens) >= 4 /\ tokens[4] # NotANumber
                 THEN tokens[4] ELSE DefaultTTL

(* Tokens after the ones a command needs are ignored. *)
Parse(tokens) ==
  LET Is(name, size) == tokens # <<>> /\ tokens[1] = name /\ Len(tokens) >= size IN
  CASE Is("SET", 3) -> [name |-> "SET", key |-> tokens[2], value |-> tokens[3],
                        ttl |-> TTLOf(tokens)]
    [] Is("GET", 2) -> [name |-> "GET", key |-> tokens[2]]
    [] Is("DEL", 2) -> [name |-> "DEL", key |-> tokens[2]]
    [] Is("EXISTS", 2) -> [name |-> "EXISTS", key |-> tokens[2]]
    [] Is("PING", 1) -> [name |-> "PING"]
    [] Is("LPUSH", 3) -> [name |-> "LPUSH", key |-> tokens[2], value |-> tokens[3]]
    [] Is("LRANGE", 4) /\ NotANumber \notin {tokens[3], tokens[4]} ->
         [name |-> "LRANGE", key |-> tokens[2], start |-> tokens[3], stop |-> tokens[4]]
    [] Is("HSET", 4) -> [name |-> "HSET", key |-> tokens[2], field |-> tokens[3],
                         value |-> tokens[4]]
    [] Is("HGET", 3) -> [name |-> "HGET", key |-> tokens[2], field |-> tokens[3]]
    [] OTHER -> Null

(* The commands that parse makes of keys, fields and values that there are. *)
ParsedCommand ==
  [name : {"SET"}, key : Keys, value : Values, ttl : Int]
    \cup [name : {"GET", "DEL", "EXISTS"}, key : Keys]
    \cup [name : {"PING"}]
    \cup [name : {"LPUSH"}, key : Keys, value : Values]
    \cup [name : {"LRANGE"}, key : Keys, start : Int, stop : Int]
    \cup [name : {"HSET"}, key : Keys, field : Fields, value : Values]
    \cup [name : {"HGET"}, key : Keys, field : Fields]

(* Mutant: the TTL of a SET is not written. *)
SerializeNoTTL(c) ==
  CASE c.name = "SET" -> <<"SET", c.key, c.value>>
    [] c.name = "DEL" -> <<"DEL", c.key>>
    [] c.name = "LPUSH" -> <<"LPUSH", c.key, c.value>>
    [] c.name = "HSET" -> <<"HSET", c.key, c.field, c.value>>

(* serialize() of the commands that are logged. *)
Serialize(c) ==
  CASE c.name = "SET" -> <<"SET", c.key, c.value, c.ttl>>
    [] c.name = "DEL" -> <<"DEL", c.key>>
    [] c.name = "LPUSH" -> <<"LPUSH", c.key, c.value>>
    [] c.name = "HSET" -> <<"HSET", c.key, c.field, c.value>>

(* execute(), without its logging. *)
Execute(c) ==
  \/ c.name = "SET" /\ (Set(c.key, c.value, c.ttl) \/ OutOfMemory)
  \/ c.name = "GET" /\ Get(c.key)
  \/ c.name = "DEL" /\ Del(c.key)
  \/ c.name = "EXISTS" /\ Exists(c.key)
  \/ c.name = "PING" /\ Ping
  \/ c.name = "LPUSH" /\ (LPush(c.key, c.value) \/ WrongType(c.key, "list") \/ OutOfMemory)
  \/ c.name = "LRANGE" /\ (LRange(c.key, c.start, c.stop) \/ WrongType(c.key, "list"))
  \/ c.name = "HSET" /\ (HSet(c.key, c.field, c.value) \/ WrongType(c.key, "hash")
                           \/ OutOfMemory)
  \/ c.name = "HGET" /\ (HGet(c.key, c.field) \/ WrongType(c.key, "hash"))

(* The command changed the store, as its reply tells, and calls log(). *)
Logs(c) == \/ c.name = "SET" /\ reply' = OK
           \/ c.name = "DEL" /\ reply' = Number(1)
           \/ c.name \in {"LPUSH", "HSET"} /\ reply' \notin {OOM, WRONGTYPE}

(* LPUSH and HSET call log() before they release the shard's lock. *)
LogsLocked(c) == c.name \in {"LPUSH", "HSET"}
=============================================================================
