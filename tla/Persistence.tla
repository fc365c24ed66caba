---------------------------- MODULE Persistence ----------------------------
(***************************************************************************)
(* The store and its log together: workers execute commands and log them,  *)
(* the sweeper evicts keys and logs their deletion, the process is killed, *)
(* and the next one replays the file.  SET, DEL and the sweeper call log() *)
(* after they have released the shard's lock, so that between a change of  *)
(* the store and its entry in the log others may change the same key.      *)
(*                                                                         *)
(* The log is the one of CommandLog, torn lines included; no write fails.  *)
(* An orderly shutdown is the case in which everything is durable when the *)
(* process ends.  The sweeper may visit any key at any time, which is more *)
(* than the timing wheel does.                                             *)
(***************************************************************************)
EXTENDS Commands, CommandLog, FiniteSets

Seqs == INSTANCE SequencesExt

CONSTANTS Requests,     \* lines clients send
          MaxWorkers,   \* the number of worker threads
          MaxEntries,   \* bound: length of the log
          MaxStarts     \* bound: runs of the server

ASSUME PersistenceAssumption ==
  /\ Null \notin ParsedCommand
  /\ \A tokens \in Requests \cup Readings : Parse(tokens) \in ParsedCommand \cup {Null}
  /\ MaxWorkers \in Nat /\ MaxEntries \in Nat /\ MaxStarts \in Nat

VARIABLES phase,      \* "replay" or "up"
          position,   \* entries that replay has executed
          pending,    \* changes made and not yet logged, in the order made
          starts,     \* runs of the server so far
          before,     \* history: data_ when the process was killed
          excused     \* history: keys whose log does not tell their state, and why

persistenceVars == <<data, now, reply, entries, durable, torn, phase, position, pending,
                     starts, before, excused>>

Empty == [k \in {} |-> Nil]

By(who) == {i \in DOMAIN pending : pending[i].by = who}

(* The keys that replaying a line may change: at most one. *)
Writes(c) == c # Null /\ c.name \in {"SET", "DEL", "LPUSH", "HSET"}

KeysOf(line) == {Parse(l).key : l \in {m \in {line} : Writes(Parse(m))}}

KeysIn(lines) == UNION {KeysOf(lines[i]) : i \in DOMAIN lines}

PendingKeys(n) == {pending[i].line[2] : i \in 1 .. n}

PersistenceTypeOK ==
  /\ TypeOK
  /\ phase \in {"replay", "up"}
  /\ torn \in BOOLEAN /\ durable \in Nat /\ Readable <= Len(entries)
  /\ position \in 0 .. Len(entries)
  /\ Cardinality(By("worker")) <= MaxWorkers /\ Cardinality(By("sweeper")) <= 1
  /\ KeysIn(entries) \subseteq Keys
  /\ excused \subseteq Keys \X {"order", "expiry", "lost", "torn", "skipped", "memory"}

(* The first run finds no file. *)
PersistenceInit == /\ Init /\ LogInit
                   /\ phase = "up" /\ position = 0 /\ pending = <<>>
                   /\ starts = 1 /\ before = Empty /\ excused = {}
-----------------------------------------------------------------------------
LogHasRoom == Len(entries) + Len(pending) < MaxEntries

(* An LPUSH or HSET meets an expired entry: the log knows of no expiry. *)
Lapsed(k) == k \in DOMAIN data /\ ~data[k].tombstoned /\ IsExpired(data[k])

(* A free worker executes a request. *)
Request(tokens) ==
  /\ phase = "up" /\ Cardinality(By("worker")) < MaxWorkers /\ LogHasRoom
  /\ LET c == Parse(tokens) IN
       /\ c # Null
       /\ Execute(c)
       /\ \/ /\ ~Logs(c)
             /\ UNCHANGED <<pending, logVars, excused>>
          \/ /\ Logs(c) /\ ~LogsLocked(c)
             /\ pending' = Append(pending, [by |-> "worker", line |-> Serialize(c)])
             /\ UNCHANGED <<logVars, excused>>
          \/ /\ Logs(c) /\ LogsLocked(c)
             /\ LogCommand(Serialize(c))
             /\ excused' = (excused \cup {k \in {c.key} : Lapsed(k)} \X {"expiry"})
                              \cup ({c.key} \cap PendingKeys(Len(pending))) \X {"order"}
             /\ UNCHANGED pending
  /\ UNCHANGED <<phase, position, starts, before>>

(* The sweeper erases a key that is tombstoned or expired. *)
Sweep(k) == /\ phase = "up" /\ By("sweeper") = {}
            /\ LogHasRoom
            /\ EvictExpired(k)
            /\ pending' = Append(pending, [by |-> "sweeper", line |-> <<"DEL", k>>])
            /\ UNCHANGED <<logVars, phase, position, starts, before, excused>>

(***************************************************************************)
(* The i-th of the changes that wait is logged.  If an earlier one is to   *)
(* the same key, the log has the two in the wrong order.                   *)
(***************************************************************************)
LogPending(i) ==
  /\ LogCommand(pending[i].line)
  /\ pending' = Seqs!RemoveAt(pending, i)
  /\ excused' = excused \cup ({pending[i].line[2]} \cap PendingKeys(i - 1)) \X {"order"}
  /\ UNCHANGED <<data, now, reply, phase, position, starts, before>>

(* The line after a fragment is joined to it: both are lost, and what they read as is new. *)
Flush ==
  /\ Persist
  /\ \/ ~torn /\ UNCHANGED excused
     \/ /\ torn
        /\ LET joined == KeysIn(SubSeq(entries, durable + 1, durable + 2))
                            \cup KeysOf(entries'[durable + 1])
           IN excused' = excused \cup joined \X {"torn"}
  /\ UNCHANGED <<data, now, reply, phase, position, pending, starts, before>>
-----------------------------------------------------------------------------
(* The keys of changes that are not among the first n lines of the log. *)
Missing(n) == PendingKeys(Len(pending)) \cup KeysIn(SubSeq(entries, n + 1, Len(entries)))

(***************************************************************************)
(* The process is killed, perhaps inside a line of the file, perhaps while *)
(* it replays (and has not opened the log), and is started again.          *)
(***************************************************************************)
Kill ==
  /\ starts < MaxStarts
  /\ starts' = starts + 1
  /\ data' = Empty /\ reply' = OK /\ pending' = <<>>
  /\ phase' = "replay" /\ position' = 0
  /\ \/ /\ phase = "up" /\ CrashBetween
        /\ before' = data
        /\ excused' = excused \cup Missing(Readable) \X {"lost"}
     \/ /\ phase = "up"
        /\ \E r \in Readings :
             /\ CrashInside(r)
             /\ excused' = (excused \cup Missing(durable) \X {"lost"})
                              \cup KeysOf(r) \X {"torn"}
        /\ before' = data
     \/ /\ phase = "replay" /\ CrashBetween
        /\ excused' = excused \ Keys \X {"skipped"}
        /\ UNCHANGED before
  /\ UNCHANGED now

(***************************************************************************)
(* The next line of the file is parsed and executed, and not logged again  *)
(* (is_replaying_ is set, and the log not started).  std::getline returns  *)
(* the fragment at the end of the file like any other line.  What parse    *)
(* refuses is passed over, and what execute() answers is ignored: a        *)
(* command that finds no memory is skipped.                                *)
(***************************************************************************)
Replay ==
  /\ phase = "replay" /\ position < Len(entries)
  /\ LET line == entries[position + 1]
         c == Parse(line) IN
       \/ c = Null /\ UNCHANGED <<data, now, reply, excused>>
       \/ /\ c # Null
          /\ Execute(c)
          /\ excused' = IF reply' = OOM THEN excused \cup KeysOf(line) \X {"skipped"}
                        ELSE excused
  /\ position' = position + 1
  /\ UNCHANGED <<logVars, phase, pending, starts, before>>

(* Mutant: the file is opened without std::ios::app. *)
StartUpTruncates == /\ phase = "replay" /\ position = Len(entries)
                    /\ phase' = "up"
                    /\ entries' = <<>>
                    /\ before' = Empty /\ excused' = {}
                    /\ UNCHANGED <<data, now, reply, durable, torn, position, pending, starts>>

(* Replay is over: the log and everything else are started. *)
StartUp == /\ phase = "replay" /\ position = Len(entries)
           /\ phase' = "up"
           /\ before' = Empty
           /\ excused' = {k \in Keys : <<k, "skipped">> \in excused} \X {"memory"}
           /\ UNCHANGED <<data, now, reply, logVars, position, pending, starts>>

(* Replay is taken to be shorter than the default TTL of a day. *)
Clock == /\ phase = "up" /\ Tick
         /\ UNCHANGED <<logVars, phase, position, pending, starts, before, excused>>

(* The bounds are reached. *)
Terminated == /\ phase = "up" /\ starts = MaxStarts /\ now = MaxTime
              /\ pending = <<>> /\ Readable = MaxEntries
              /\ UNCHANGED persistenceVars

PersistenceNext == \/ \E tokens \in Requests : Request(tokens)
                   \/ \E k \in Keys : Sweep(k)
                   \/ \E i \in DOMAIN pending : LogPending(i)
                   \/ Flush \/ Kill \/ Replay \/ StartUp \/ Clock \/ Terminated

PersistenceSpec == PersistenceInit /\ [][PersistenceNext]_persistenceVars
-----------------------------------------------------------------------------
(* Key k is what it was when the process died. *)
Restored(k) ==
  IF k \in DOMAIN before /\ ~before[k].tombstoned
  THEN /\ k \in DOMAIN data /\ ~data[k].tombstoned
       /\ data[k].data = before[k].data
       /\ data[k].ttl_seconds = before[k].ttl_seconds
  ELSE ~Live(k)

Excused(reasons) == {k \in Keys : \E r \in reasons : <<k, r>> \in excused}

ReplayIsOver == phase = "replay" /\ position = Len(entries)

(***************************************************************************)
(* When replay is over, every key whose changes had all reached the file   *)
(* in the order they were made is restored: a deleted or evicted key is    *)
(* absent, any other has its value and its TTL, counted anew, even if it   *)
(* had expired.  Excused are keys that were logged in another order than   *)
(* they were changed, whose last changes did not reach the file, that were *)
(* started anew over an expired entry, or that found no memory during this *)
(* replay or the one before.  So are the keys a torn line may harm: those  *)
(* that a fragment, or the two lines of a join, named or now read as       *)
(* naming.  No other key suffers from it.                                  *)
(***************************************************************************)
ReplayRestores ==
  ReplayIsOver =>
    \A k \in Keys \ Excused({"order", "expiry", "lost", "torn", "skipped", "memory"}) :
      Restored(k)
-----------------------------------------------------------------------------
(***************************************************************************)
(* At most one second of data loss (docs/architecture_decisions.md, 4): a  *)
(* key whose changes had all been flushed to the file is restored, in      *)
(* whatever order the workers came to log them, unless a torn line harmed  *)
(* it.                                                                     *)
(***************************************************************************)
FlushedIsRestored ==
  ReplayIsOver =>
    \A k \in Keys \ Excused({"expiry", "lost", "torn", "skipped", "memory"}) : Restored(k)
=============================================================================
