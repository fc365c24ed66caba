----------------------------- MODULE CommandLog -----------------------------
(***************************************************************************)
(* What the append-only file promises, line by line as replay would read   *)
(* it.  Commands are kept in the order they were logged and the first      *)
(* durable ones survive a crash.  It does not promise whole lines: a crash *)
(* may leave the file ending inside a line, replay reads that fragment as  *)
(* a line, and the first line that is written after it is joined to it.    *)
(* Neither reads as the command that was logged, but as one of Readings.   *)
(*                                                                         *)
(* AofLogger, with its buffers, its flush thread and its stream, is shown  *)
(* to implement this module; Persistence uses it.                          *)
(***************************************************************************)
EXTENDS Naturals, Sequences

CONSTANT Readings    \* what a fragment, or a line joined to one, may read as

VARIABLES entries,   \* the log, line by line, as replay would read it
          durable,   \* how many complete lines of it are in the file
          torn       \* the file ends inside a line, which is the next entry

logVars == <<entries, durable, torn>>

(* The lines that replay would find in the file. *)
Readable == IF torn THEN durable + 1 ELSE durable

(* The log when the line after the fragment is written and reads as r with it. *)
Joined(r) ==
  SubSeq(entries, 1, durable) \o <<r>> \o SubSeq(entries, durable + 3, Len(entries))

LogInit == entries = <<>> /\ durable = 0 /\ torn = FALSE

LogCommand(c) == /\ entries' = Append(entries, c)
                 /\ UNCHANGED <<durable, torn>>

(* Some more of the log reaches the file; its first line joins the fragment. *)
Persist ==
  \/ /\ ~torn
     /\ durable' \in (durable + 1) .. Len(entries)
     /\ UNCHANGED <<entries, torn>>
  \/ /\ torn
     /\ durable' \in (durable + 1) .. (Len(entries) - 1)
     /\ torn' = FALSE
     /\ \E r \in Readings : entries' = Joined(r)

(* The disk gives out: of the rest, only the first commands remain. *)
LoseSome ==
  \/ /\ durable' \in durable .. (IF torn THEN durable ELSE Len(entries))
     /\ UNCHANGED torn
     /\ \E n \in Readable' .. Len(entries) : entries' = SubSeq(entries, 1, n)
  \/ /\ torn
     /\ durable' \in (durable + 1) .. (Len(entries) - 1)
     /\ torn' = FALSE
     /\ \E r \in Readings, n \in durable' .. (Len(entries) - 1) :
          entries' = SubSeq(Joined(r), 1, n)

(* The process ends between lines, or with nothing written since it started. *)
CrashBetween == /\ entries' = SubSeq(entries, 1, Readable)
                /\ UNCHANGED <<durable, torn>>

(* The process ends with part of a line in the file, which reads as r. *)
CrashInside(r) == /\ Readable < Len(entries)
                  /\ entries' = Append(SubSeq(entries, 1, durable), r)
                  /\ torn' = TRUE
                  /\ UNCHANGED durable

(* The process is killed: what is not in the file is lost. *)
Crash == CrashBetween \/ \E r \in Readings : CrashInside(r)

LogNext(Command) == \/ \E c \in Command : LogCommand(c)
                    \/ Persist \/ LoseSome \/ Crash
=============================================================================
