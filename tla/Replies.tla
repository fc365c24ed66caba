------------------------------ MODULE Replies ------------------------------
(***************************************************************************)
(* The replies of the commands, a tag and what it carries, and the values  *)
(* they are about.                                                         *)
(***************************************************************************)

OK == <<"status", "OK">>
PONG == <<"status", "PONG">>
OOM == <<"error", "OOM">>
WRONGTYPE == <<"error", "WRONGTYPE">>
Nil == <<"nil">>
Bulk(v) == <<"bulk", v>>
Number(n) == <<"integer", n>>
Array(s) == <<"array", s>>

(* The alternatives of ValueVariant that are ever stored. *)
String(v) == [type |-> "string", string |-> v]
List(s) == [type |-> "list", list |-> s]
Hash(h) == [type |-> "hash", hash |-> h]
=============================================================================
