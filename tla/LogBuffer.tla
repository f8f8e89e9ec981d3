------------------------------ MODULE LogBuffer ------------------------------
(***************************************************************************)
(* The log of ktest (ktest/log.c): log_init, log_va, log_done, and         *)
(* log_abort, which a signal handler may call between any two steps of     *)
(* the others.  log_va writes at most five copies of a message sent again  *)
(* and again, and sums up the rest in one line when another one arrives.   *)
(*                                                                         *)
(* A message is what vsnprintf leaves of the caller's text: a member of    *)
(* Messages, not empty.  The file is the sequence of lines written.        *)
(***************************************************************************)
EXTENDS Integers, Sequences, SequencesExt

CONSTANTS
  Texts,     \* what the callers format
  Cut(_),    \* the first 1022 characters of a text
  Empty,     \* the empty string
  MaxSent    \* bound: messages logged to one file

ASSUME SentAssumption == MaxSent \in Nat
ASSUME TextAssumption == \A t \in Texts : Cut(t) # Empty

Messages == {Cut(t) : t \in Texts}
Message(m)  == [what |-> m, repeated |-> 0]
Repeated(m, n) == [what |-> m, repeated |-> n]

(***************************************************************************)
(* LOG: msg is the stream log_va writes to: 0 for "null", and "closed"     *)
(* when LOG.msg still points to a stream that fclose has destroyed.        *)
(* out is what has been written to the stream, flushed the number of its   *)
(* lines that stdio has given to the kernel for sure, synced the number of *)
(* those that the filesystem was then told to write, by target_sync():     *)
(* that call is commented out (149).  sent is the history of the messages  *)
(* logged to the current file.                                             *)
(***************************************************************************)
VARIABLES msg, msg_sync_flag, buffer, buffer_count, out, flushed, synced, sent, pc

log == <<msg, msg_sync_flag, buffer, buffer_count>>
vars == <<msg, msg_sync_flag, buffer, buffer_count, out, flushed, synced, sent, pc>>

Init ==
  /\ msg = "null" /\ msg_sync_flag = FALSE
  /\ buffer = Empty /\ buffer_count = 0
  /\ out = <<>> /\ flushed = 0 /\ synced = 0 /\ sent = <<>>
  /\ pc = "idle"

\* Mutant: the counter survives from the previous file.
InitKeepsCount ==
  /\ pc = "idle" /\ msg = "null"
  /\ msg_sync_flag' \in BOOLEAN
  /\ buffer' = Empty
  /\ msg' \in {"null", "open"}
  /\ out' = <<>> /\ flushed' = 0 /\ synced' = 0 /\ sent' = <<>>
  /\ UNCHANGED <<buffer_count, pc>>

\* log_init(): no file asked for, a failed fopen, or a file truncated.
log_init ==
  /\ pc = "idle" /\ msg = "null"
  /\ msg_sync_flag' \in BOOLEAN
  /\ buffer_count' = 0 /\ buffer' = Empty
  /\ msg' \in {"null", "open"}
  /\ out' = <<>> /\ flushed' = 0 /\ synced' = 0 /\ sent' = <<>>
  /\ UNCHANGED pc

\* Mutant: the count of a run is not forgotten when it ends.
RepeatKeepsCount(m) ==
  /\ buffer' = m
  /\ UNCHANGED buffer_count

\* A message other than the last one takes its place.
Replace(m) ==
  /\ buffer_count' = 0
  /\ buffer' = m

\* log_va() up to its first fprintf: nothing when there is no file.
log_va(m) ==
  /\ pc = "idle" /\ msg = "open" /\ Len(sent) < MaxSent
  /\ sent' = Append(sent, Message(m))
  /\ \/ /\ m = buffer
        /\ buffer_count' = buffer_count + 1
        /\ pc' = IF buffer_count' < 5 THEN "print" ELSE "idle"
        /\ UNCHANGED buffer
     \/ /\ m # buffer /\ buffer_count >= 5
        /\ pc' = "repeat"
        /\ UNCHANGED <<buffer, buffer_count>>
     \/ /\ m # buffer /\ buffer_count < 5
        /\ Replace(m)
        /\ pc' = "print"
  /\ UNCHANGED <<msg, msg_sync_flag, out, flushed, synced>>

\* "log: last message repeated %d times"
PrintRepeated ==
  /\ pc = "repeat"
  /\ out' = Append(out, Repeated(buffer, buffer_count))
  /\ Replace(Last(sent).what)
  /\ pc' = "print"
  /\ UNCHANGED <<msg, msg_sync_flag, flushed, synced, sent>>

\* Mutant: the flush is left to the next message.
PrintNoFlush ==
  /\ pc = "print"
  /\ out' = Append(out, Message(buffer))
  /\ flushed' = IF msg_sync_flag THEN Len(out) ELSE flushed
  /\ pc' = "idle"
  /\ UNCHANGED <<log, synced, sent>>

\* fprintf of the message itself.
PrintMessage ==
  /\ pc = "print"
  /\ out' = Append(out, Message(buffer))
  /\ pc' = IF msg_sync_flag THEN "flush" ELSE "idle"
  /\ UNCHANGED <<log, flushed, synced, sent>>

\* fflush(), and nothing more.
Flush ==
  /\ pc = "flush"
  /\ flushed' = Len(out)
  /\ pc' = "idle"
  /\ UNCHANGED <<log, out, synced, sent>>

\* log_done(): fclose, then the pointer.
log_done ==
  /\ pc = "idle" /\ msg = "open"
  /\ flushed' = Len(out)
  /\ msg' = "closed" /\ pc' = "closing"
  /\ UNCHANGED <<msg_sync_flag, buffer, buffer_count, out, synced, sent>>

Forget ==
  /\ pc = "closing"
  /\ msg' = "null" /\ pc' = "idle"
  /\ UNCHANGED <<msg_sync_flag, buffer, buffer_count, out, flushed, synced, sent>>

\* Mutant: the pointer is cleared and the stream is not closed.
AbortNoClose ==
  /\ pc # "aborted"
  /\ msg' = "null" /\ pc' = "aborted"
  /\ UNCHANGED <<msg_sync_flag, buffer, buffer_count, out, flushed, synced, sent>>

\* log_abort() in a signal handler that does not come back.
log_abort ==
  /\ pc # "aborted"
  /\ flushed' = IF msg # "null" THEN Len(out) ELSE flushed
  /\ msg' = "null" /\ pc' = "aborted"
  /\ UNCHANGED <<msg_sync_flag, buffer, buffer_count, out, synced, sent>>

Next ==
  \/ log_init
  \/ \E m \in Messages : log_va(m)
  \/ PrintRepeated \/ PrintMessage \/ Flush
  \/ log_done \/ Forget
  \/ log_abort

Spec == Init /\ [][Next]_vars

------------------------------------------------------------------------------
(***************************************************************************)
(* What a reader makes of the lines of a log: runs of one message.  A line *)
(* "repeated n times" says that the run before it has n + 1 messages.      *)
(***************************************************************************)
Extend(runs, line) ==
  LET n == Len(runs) IN
  IF n > 0 /\ line.repeated > 0
    THEN [runs EXCEPT ![n].times = line.repeated + 1]
  ELSE IF n > 0 /\ runs[n].what = line.what
    THEN [runs EXCEPT ![n].times = @ + 1]
  ELSE Append(runs, [what |-> line.what, times |-> line.repeated + 1])

Reading(lines) ==
  LET after[n \in 0 .. Len(lines)] ==
        IF n = 0 THEN <<>> ELSE Extend(after[n - 1], lines[n])
  IN  after

Runs(lines) == Reading(lines)[Len(lines)]

\* The type of LOG and of the file; the counter counts messages of this file.
TypeOK ==
  /\ msg \in {"null", "open", "closed"} /\ msg_sync_flag \in BOOLEAN
  /\ buffer \in Messages \cup {Empty}
  /\ buffer_count \in 0..Len(sent)
  /\ out \in Seq([what : Messages, repeated : 0..MaxSent])
  /\ flushed \in 0..Len(out) /\ synced \in 0..Len(out)
  /\ sent \in Seq([what : Messages, repeated : {0}])
  /\ pc \in {"idle", "repeat", "print", "flush", "closing", "aborted"}

\* Between two calls the file tells every run of messages and its length,
\* except that a last run of more than five still counts as five: the filter
\* of log_va (133-141) loses nothing that another message follows.
Faithful ==
  pc = "idle" =>
    LET all == Runs(sent)
        told == Runs(out)
        n == Len(all) IN
    /\ Len(told) = n
    /\ \A i \in 1..(n - 1) : told[i] = all[i]
    /\ n > 0 =>
         /\ told[n].what = all[n].what
         /\ told[n].times = IF all[n].times > 5 THEN 5 ELSE all[n].times

\* With the sync flag, what log_va wrote is out of stdio's hands, that is the
\* process's, when it returns (148); so is the rest after a log_done or a
\* log_abort, at whatever step the signal arrived (198).  It is with the kernel
\* then, which is the part of line 158 that the code keeps: FilesystemFlushed
\* is the rest.
NothingPending ==
  (\/ pc = "idle" /\ (msg_sync_flag \/ msg = "null")
   \/ pc = "aborted") => flushed = Len(out)

\* "If set the file and the filesystem is flushed at every write.  The function
\* target_sync() is called." (158)
FilesystemFlushed ==
  pc = "idle" /\ msg = "open" /\ msg_sync_flag => synced = Len(out)

\* log_abort can be called "in any condition" (199): it never closes a stream
\* that is closed already.
AbortSafe == [][pc # "aborted" /\ pc' = "aborted" => msg # "closed"]_vars
==============================================================================
