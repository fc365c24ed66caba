----------------------------- MODULE AofLogger -----------------------------
(***************************************************************************)
(* The append-only file: commands are logged to the active buffer, the     *)
(* flush thread swaps the two buffers about once a second and writes the   *)
(* other one through a buffered file stream, and shutdown() writes what is *)
(* left.  The process may be killed at any moment and started again; the   *)
(* new one replays the file and appends to it.  A write may also fail (the *)
(* disk is full): the stream then takes no more lines, and the logger,     *)
(* which never looks at its state, goes on clearing its buffers.           *)
(*                                                                         *)
(* A line is the command logged.  The bytes of a line matter in one        *)
(* respect only: a process may die with part of a line in the file.  The   *)
(* next one's replay reads that fragment as a line, and the first line     *)
(* that it writes is appended to it.  What replay makes of a fragment, or  *)
(* of a line with a fragment before it, is any of Readings: a command that *)
(* nobody gave, the right one (only the newline was missing), or nothing.  *)
(***************************************************************************)
EXTENDS Naturals, Sequences

CONSTANTS Commands,    \* what commands serialize to
          Readings,    \* what a fragment, or a line joined to one, may read as
          MaxLogged,   \* bound: commands logged in one run of the server
          MaxStarts    \* bound: runs of the server

ASSUME AofAssumption == /\ Readings # {}
                        /\ MaxLogged \in Nat /\ MaxStarts \in Nat \ {0}

VARIABLES
  running,         \* running_
  active_buffer,   \* *active_buffer_
  flush_buffer,    \* *flush_buffer_
  flusher,         \* where flush_loop is
  main,            \* where the main thread is in start() .. shutdown()
  written,         \* commands of the buffer being written that the stream has
  stream,          \* lines in file_'s own buffer, not yet given to the system
  failed,          \* a write of file_ has failed: its badbit is set
  file,            \* the commands whose lines are complete in the file
  contents,        \* those lines, as replay reads them
  open_line,       \* file_ has given the system a part of its next line
  tail,            \* the fragment that an earlier process left at the end, if any
  starts,          \* runs of the server so far
  base, logged     \* history: the file at start(); what log() accepted since

bufferVars == <<active_buffer, flush_buffer>>
fileVars == <<stream, failed, file, contents, open_line, tail>>
historyVars == <<starts, base, logged>>
vars == <<running, bufferVars, flusher, main, written, fileVars, historyVars>>

TypeOK == /\ running \in BOOLEAN
          /\ active_buffer \in Seq(Commands) /\ flush_buffer \in Seq(Commands)
          /\ flusher \in {"test", "wait", "swap", "write", "done"}
          /\ main \in {"up", "join", "flush", "closed", "killed"}
          /\ written \in 0 .. Len(IF main = "flush" THEN active_buffer ELSE flush_buffer)
          /\ stream \in Seq(Commands) /\ file \in Seq(Commands)
          /\ failed \in BOOLEAN
          /\ contents \in Seq(Commands \cup Readings) /\ Len(contents) = Len(file)
          /\ open_line \in BOOLEAN
          /\ tail \in {<<>>} \cup {<<r>> : r \in Readings}
          /\ starts \in Nat
          /\ base \in Seq(Commands) /\ logged \in Seq(Commands)

(* The first start() of the server, with no file yet. *)
Init == /\ running = TRUE
        /\ active_buffer = <<>> /\ flush_buffer = <<>>
        /\ flusher = "test" /\ main = "up" /\ written = 0
        /\ stream = <<>> /\ failed = FALSE
        /\ file = <<>> /\ contents = <<>> /\ open_line = FALSE /\ tail = <<>>
        /\ starts = 1 /\ base = <<>> /\ logged = <<>>
-----------------------------------------------------------------------------
(* log(), by a worker that holds the mutex; refused once shutting down. *)
Log(c) == /\ running /\ main # "killed"
          /\ Len(logged) < MaxLogged
          /\ active_buffer' = Append(active_buffer, c)
          /\ logged' = Append(logged, c)
          /\ UNCHANGED <<running, flush_buffer, flusher, main, written, fileVars,
                         starts, base>>

(* The loop's test of running_, made without the mutex. *)
LoopTest == /\ main # "killed" /\ flusher = "test"
            /\ flusher' = IF running THEN "wait" ELSE "done"
            /\ UNCHANGED <<running, bufferVars, main, written, fileVars, historyVars>>

(* Mutant: a wait without a timeout. *)
WaitForShutdown == /\ main # "killed" /\ flusher = "wait" /\ ~running
                   /\ flusher' = "swap"
                   /\ UNCHANGED <<running, bufferVars, main, written, fileVars,
                                  historyVars>>

(* Mutant: the flag is not looked at, and its notification is missed. *)
WaitMissesShutdown == /\ main # "killed" /\ flusher = "wait" /\ running
                      /\ flusher' = "swap"
                      /\ UNCHANGED <<running, bufferVars, main, written, fileVars,
                                     historyVars>>

(* wait_for ends after a second, or sooner when shutdown() is seen. *)
WaitEnds == /\ main # "killed" /\ flusher = "wait"
            /\ flusher' = "swap"
            /\ UNCHANGED <<running, bufferVars, main, written, fileVars, historyVars>>

(* An empty buffer is not written. *)
Swap == /\ main # "killed" /\ flusher = "swap"
        /\ active_buffer' = flush_buffer
        /\ flush_buffer' = active_buffer
        /\ flusher' = IF flush_buffer' = <<>> THEN "test" ELSE "write"
        /\ UNCHANGED <<running, main, written, fileVars, historyVars>>
-----------------------------------------------------------------------------
(***************************************************************************)
(* The first n lines of s reach the file, and the part of the next one     *)
(* that filled the stream's buffer, if any.  The file was opened to append *)
(* to: a fragment becomes the beginning of the first of these lines.       *)
(***************************************************************************)
Spill(s, n, inside) ==
  /\ file' = file \o SubSeq(s, 1, n)
  /\ stream' = SubSeq(s, n + 1, Len(s))
  /\ \/ /\ n = 0 \/ tail = <<>>
        /\ contents' = contents \o SubSeq(s, 1, n)
        /\ UNCHANGED tail
     \/ /\ n > 0 /\ tail # <<>>
        /\ \E r \in Readings : contents' = Append(contents, r) \o SubSeq(s, 2, n)
        /\ tail' = <<>>
  /\ open_line' = (inside \/ (n = 0 /\ open_line))

(* The process ends: what file_ had begun to write is now a fragment. *)
LeaveFragment ==
  /\ open_line' = FALSE
  /\ IF open_line THEN \E r \in Readings : tail' = <<r>> ELSE UNCHANGED tail

(* Any part of s may reach the file. *)
SpillSome(s) == \E n \in 0 .. Len(s) :
                  Spill(s, n, FALSE) \/ (n < Len(s) /\ Spill(s, n, TRUE))

(* Mutant: the buffer is written from its end. *)
WriteBackwards(buffer) ==
  /\ written < Len(buffer)
  /\ SpillSome(Append(stream, buffer[Len(buffer) - written])) /\ UNCHANGED failed
  /\ written' = written + 1

(* Mutant: the stream is used again after a failure, as if it were cleared. *)
WriteRecovers(buffer) ==
  /\ written < Len(buffer)
  /\ \/ failed /\ UNCHANGED fileVars
     \/ SpillSome(Append(stream, buffer[written + 1])) /\ failed' \in BOOLEAN
  /\ written' = written + 1

(***************************************************************************)
(* write_buffer_to_disk gives the stream one command of the buffer; the    *)
(* stream refuses it after a failure ...                                   *)
(***************************************************************************)
WriteCommand(buffer) ==
  /\ written < Len(buffer)
  /\ \/ failed /\ UNCHANGED fileVars
     \/ ~failed /\ SpillSome(Append(stream, buffer[written + 1])) /\ failed' \in BOOLEAN
  /\ written' = written + 1

(* Mutant: the next buffer is written from where this one ended. *)
FlushWithoutReset(buffer) == /\ written = Len(buffer)
                             /\ Spill(stream, Len(stream), FALSE)
                             /\ written' = written
                             /\ UNCHANGED failed

(* ... and at the end flushes the stream, as far as the disk takes it. *)
FlushStream(buffer) == /\ written = Len(buffer)
                       /\ \/ Spill(stream, Len(stream), FALSE) /\ UNCHANGED failed
                          \/ SpillSome(stream) /\ failed' = TRUE
                       /\ written' = 0

(* Mutant: the buffer is not cleared. *)
FlusherKeeps == /\ main # "killed" /\ flusher = "write"
                /\ \/ WriteCommand(flush_buffer) /\ UNCHANGED flusher
                   \/ FlushStream(flush_buffer) /\ flusher' = "test"
                /\ UNCHANGED <<running, bufferVars, main, historyVars>>

FlusherWrites == /\ main # "killed" /\ flusher = "write"
                 /\ \/ /\ WriteCommand(flush_buffer)
                       /\ UNCHANGED <<flush_buffer, flusher>>
                    \/ /\ FlushStream(flush_buffer)
                       /\ flush_buffer' = <<>>
                       /\ flusher' = "test"
                 /\ UNCHANGED <<running, active_buffer, main, historyVars>>
-----------------------------------------------------------------------------
(* shutdown(): running_ is cleared without the mutex, then the others wake. *)
BeginShutdown == /\ main = "up"
                 /\ running' = FALSE
                 /\ main' = "join"
                 /\ UNCHANGED <<bufferVars, flusher, written, fileVars, historyVars>>

(* Mutant: shutdown() does not flush. *)
JoinAndClose == /\ main = "join" /\ flusher = "done"
                /\ main' = "closed"
                /\ UNCHANGED <<running, bufferVars, flusher, written, fileVars,
                               historyVars>>

Join == /\ main = "join" /\ flusher = "done"
        /\ main' = IF active_buffer = <<>> THEN "closed" ELSE "flush"
        /\ UNCHANGED <<running, bufferVars, flusher, written, fileVars, historyVars>>

(* flush(): the last commands, written by the main thread. *)
MainWrites == /\ main = "flush"
              /\ \/ /\ WriteCommand(active_buffer)
                    /\ UNCHANGED <<active_buffer, main>>
                 \/ /\ FlushStream(active_buffer)
                    /\ active_buffer' = <<>>
                    /\ main' = "closed"
              /\ UNCHANGED <<running, flush_buffer, flusher, historyVars>>

(* The process is killed: what is not in the file is gone. *)
Kill == /\ main \notin {"killed", "closed"}
        /\ main' = "killed"
        /\ running' = FALSE
        /\ active_buffer' = <<>> /\ flush_buffer' = <<>> /\ stream' = <<>>
        /\ written' = 0
        /\ flusher' = "done"
        /\ LeaveFragment
        /\ UNCHANGED <<failed, file, contents, historyVars>>

(***************************************************************************)
(* The next run.  Replay reads the lines of contents, and the fragment in  *)
(* tail as one more; it logs nothing and leaves the file alone (what it    *)
(* does to the store is in Persistence).  Then start() opens the file.     *)
(***************************************************************************)
Restart == /\ main \in {"killed", "closed"} /\ starts < MaxStarts
           /\ starts' = starts + 1
           /\ base' = file /\ logged' = <<>>
           /\ running' = TRUE /\ main' = "up" /\ flusher' = "test"
           /\ stream' = <<>> /\ failed' = FALSE
           /\ LeaveFragment
           /\ UNCHANGED <<bufferVars, written, file, contents>>

Terminated == /\ main \in {"killed", "closed"} /\ starts = MaxStarts
              /\ UNCHANGED vars

FlusherStep == LoopTest \/ WaitEnds \/ Swap \/ FlusherWrites

ShutdownStep == Join \/ MainWrites

Next == \/ \E c \in Commands : Log(c)
        \/ FlusherStep
        \/ BeginShutdown \/ ShutdownStep
        \/ Kill \/ Restart \/ Terminated

(***************************************************************************)
(* The flush thread's waits time out and its writes return; a shutdown     *)
(* that has begun goes on.  Nobody has to shut the server down or kill it. *)
(***************************************************************************)
Fairness == WF_vars(FlusherStep) /\ WF_vars(ShutdownStep)

Spec == Init /\ [][Next]_vars /\ Fairness
-----------------------------------------------------------------------------
(* What the flush thread or flush() still has to give to the stream. *)
Pending == IF main = "flush"
           THEN SubSeq(active_buffer, written + 1, Len(active_buffer))
           ELSE SubSeq(flush_buffer, written + 1, Len(flush_buffer)) \o active_buffer

(***************************************************************************)
(* While the server runs and the disk takes what is written, the file and  *)
(* what is still buffered are exactly the commands logged, in the order of *)
(* the log() calls: none is lost, and none written twice, by swapping      *)
(* buffers while workers log and by the final flush.                       *)
(***************************************************************************)
LoggedInOrder == main # "killed" /\ ~failed =>
                   (file \o stream) \o Pending = base \o logged

(***************************************************************************)
(* An orderly shutdown leaves every accepted command in the file, unless a *)
(* write failed.                                                           *)
(***************************************************************************)
ShutdownIsDurable == main = "closed" /\ ~failed => file = base \o logged

(***************************************************************************)
(* A kill, or a failing write, costs a suffix of the log only: the         *)
(* commands whose lines were completed in the file are always a prefix of  *)
(* what was logged, never a selection of it.  A line with a fragment       *)
(* before it counts here as written; that replay may not read it as its    *)
(* command is what FlushedIsReplayed is about.                             *)
(***************************************************************************)
KillLosesSuffix ==
  /\ Len(file) <= Len(base) + Len(logged)
  /\ file = SubSeq(base \o logged, 1, Len(file))

(* What is still to reach the file; what a failure has cost is left out. *)
Unwritten == IF main = "killed" THEN <<>>
             ELSE stream \o (IF failed THEN <<>> ELSE Pending)

AbstractLog == INSTANCE CommandLog WITH entries <- (contents \o tail) \o Unwritten,
                                        durable <- Len(contents),
                                        torn <- tail # <<>>

(***************************************************************************)
(* The two buffers, the stream and the file together are one log of which  *)
(* a growing prefix is durable, over kills, failing writes and restarts.   *)
(* At most one line at a time, the one in which the process died, reads    *)
(* otherwise than it was logged, and it takes the next one with it.        *)
(***************************************************************************)
ImplementsCommandLog ==
  AbstractLog!LogInit /\ [][AbstractLog!LogNext(Commands)]_(AbstractLog!logVars)

(***************************************************************************)
(* Every accepted command reaches the file unless the process is killed or *)
(* a write fails.                                                          *)
(***************************************************************************)
LoggedReachesFile ==
  \A n \in 1 .. MaxLogged :
    Len(logged) >= n ~> (main = "killed" \/ failed \/ Len(file) >= Len(base) + n)

(***************************************************************************)
(* shutdown() returns: the join cannot wait for ever, although the flag is *)
(* cleared without the mutex and the notification may be missed.           *)
(***************************************************************************)
ShutdownReturns == main = "join" ~> main \in {"closed", "killed"}
-----------------------------------------------------------------------------
(***************************************************************************)
(* At most one second of data loss (docs/architecture_decisions.md, 4): a  *)
(* command that was flushed to the file is read back by the next replay.   *)
(***************************************************************************)
FlushedIsReplayed == contents = file
=============================================================================
