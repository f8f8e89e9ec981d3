-------------------------- MODULE LogBuffer_proofs --------------------------
(***************************************************************************)
(* For every set of texts and every number of messages: the types, that    *)
(* what the log has written is not left in the process's hands, and that   *)
(* the filter of repeated messages loses nothing.                          *)
(***************************************************************************)
EXTENDS LogBuffer, Iteration, SequenceTheorems, TLAPS

\* The inductive invariant: where the stream is open, and what is flushed when
\* it is not or when the flag promises it.
IInv ==
  /\ msg_sync_flag \in BOOLEAN
  /\ pc = "idle" => msg \in {"null", "open"}
  /\ pc \in {"repeat", "print", "flush"} => msg = "open"
  /\ pc = "closing" => msg = "closed"
  /\ msg \in {"null", "open", "closed"}
  /\ pc \in {"idle", "repeat", "print", "flush", "closing", "aborted"}
  /\ pc = "aborted" => msg = "null"
  /\ msg # "open" => flushed = Len(out)
  /\ pc = "idle" /\ msg_sync_flag => flushed = Len(out)

\* The invariant holds before log_init.
LEMMA InitIInv == Init => IInv
BY DEF Init, IInv

\* Every step of the log functions and of the signal preserves the invariant.
LEMMA NextIInv == IInv /\ [Next]_vars => IInv'
<1> SUFFICES ASSUME IInv, [Next]_vars PROVE IInv'
  OBVIOUS
<1>1. CASE log_init
  BY <1>1 DEF IInv, log_init
<1>2. ASSUME NEW m \in Messages, log_va(m) PROVE IInv'
  BY <1>2 DEF IInv, log_va, Replace
<1>3. CASE PrintRepeated
  BY <1>3 DEF IInv, PrintRepeated, Replace
<1>4. CASE PrintMessage
  BY <1>4 DEF IInv, PrintMessage, log
<1>5. CASE Flush
  BY <1>5 DEF IInv, Flush, log
<1>6. CASE log_done
  BY <1>6 DEF IInv, log_done
<1>7. CASE Forget
  BY <1>7 DEF IInv, Forget
<1>8. CASE log_abort
  BY <1>8 DEF IInv, log_abort
<1>9. CASE UNCHANGED vars
  BY <1>9 DEF IInv, vars
<1> QED
  BY <1>1, <1>2, <1>3, <1>4, <1>5, <1>6, <1>7, <1>8, <1>9 DEF Next

\* When log_va with the sync flag, log_done or log_abort is over, everything
\* written to the stream has been given to the kernel (log.c 147-148, 182, 204).
THEOREM Flushed == Spec => []NothingPending
<1>1. IInv => NothingPending
  BY DEF IInv, NothingPending
<1> QED
  BY <1>1, InitIInv, NextIInv, PTL DEF Spec

\* Where log_abort is not safe: a stream that is closed already is closed again
\* only if the signal arrives between the fclose of log_done and the assignment
\* after it (182-183).
ClosedOnce == [][pc # "aborted" /\ pc' = "aborted" /\ msg = "closed" => pc = "closing"]_vars

\* Of all the steps of the log a signal may interrupt, that is the only one.
THEOREM AbortWindow == Spec => ClosedOnce
<1>1. IInv => (msg = "closed" => pc = "closing")
  BY DEF IInv
<1>2. IInv => [pc # "aborted" /\ pc' = "aborted" /\ msg = "closed" => pc = "closing"]_vars
  BY <1>1
<1> QED
  BY <1>2, InitIInv, NextIInv, PTL DEF Spec, ClosedOnce

\* What log_va relies on between its steps: a run is summed up only when it
\* was counted, and the message to be printed is there.
MessageInv ==
  /\ buffer = Empty => buffer_count = 0
  /\ Len(sent) <= MaxSent
  /\ pc \in {"repeat", "print"} => sent # <<>> /\ buffer # Empty
  /\ pc = "repeat" => buffer_count > 0

TypeInv == TypeOK /\ IInv /\ MessageInv

LEMMA InitTypeInv == Init => TypeInv
<1> SUFFICES ASSUME Init PROVE TypeInv
  OBVIOUS
<1>1. Len(out) = 0 /\ Len(sent) = 0
  BY DEF Init
<1>2. /\ out \in Seq([what : Messages, repeated : 0 .. MaxSent])
      /\ sent \in Seq([what : Messages, repeated : {0}])
  BY DEF Init
<1>3. IInv
  BY InitIInv
<1>4. TypeOK
  <2>1. /\ msg = "null" /\ msg_sync_flag \in BOOLEAN /\ buffer = Empty
        /\ buffer_count = 0 /\ flushed = 0 /\ synced = 0 /\ pc = "idle"
    BY <1>3 DEF Init, IInv
  <2> QED BY <1>1, <1>2, <2>1 DEF TypeOK
<1>5. MessageInv
  BY <1>1, SentAssumption DEF Init, MessageInv
<1> QED
  BY <1>3, <1>4, <1>5 DEF TypeInv

\* A message is never empty, so it is not taken for a repetition of none.
LEMMA NotEmpty == Empty \notin Messages
BY TextAssumption DEF Messages

\* Logging a message keeps the types.
LEMMA VaType ==
  ASSUME TypeInv, NEW m \in Messages, log_va(m)
  PROVE  TypeOK' /\ MessageInv'
<1>1. sent' = Append(sent, Message(m)) /\ Message(m) \in [what : Messages, repeated : {0}]
  BY DEF log_va, Message
<1>2. /\ sent' \in Seq([what : Messages, repeated : {0}])
      /\ Len(sent') = Len(sent) + 1 /\ sent' # <<>> /\ Len(sent) \in Nat
  <2>1. sent \in Seq([what : Messages, repeated : {0}])
    BY DEF TypeInv, TypeOK
  <2>2. /\ sent' \in Seq([what : Messages, repeated : {0}])
        /\ Len(sent') = Len(sent) + 1 /\ Len(sent) \in Nat
    BY <1>1, <2>1
  <2> QED BY <2>2
<1>3. Len(sent') <= MaxSent
  BY <1>2, SentAssumption DEF log_va
<1>4. UNCHANGED <<msg, msg_sync_flag, out, flushed, synced>> /\ m # Empty
  BY NotEmpty DEF log_va
<1>5. /\ buffer' \in Messages \cup {Empty} /\ buffer_count' \in 0 .. Len(sent')
      /\ (buffer' = Empty => buffer_count' = 0)
      /\ pc' \in {"idle", "repeat", "print"}
      /\ (pc' \in {"repeat", "print"} => buffer' # Empty)
      /\ (pc' = "repeat" => buffer_count' > 0)
  BY <1>2, <1>4 DEF log_va, Replace, TypeInv, TypeOK, MessageInv
<1> QED
  BY <1>2, <1>3, <1>4, <1>5 DEF TypeInv, TypeOK, MessageInv

\* So does the line that sums up a run.
LEMMA RepeatedType ==
  ASSUME TypeInv, PrintRepeated
  PROVE  TypeOK' /\ MessageInv'
<1>1. sent \in Seq([what : Messages, repeated : {0}]) /\ sent # <<>>
  BY DEF TypeInv, TypeOK, MessageInv, PrintRepeated
<1>2. Last(sent) \in [what : Messages, repeated : {0}]
  <2>1. Len(sent) \in 1 .. Len(sent)
    BY <1>1, EmptySeq
  <2>2. sent[Len(sent)] \in [what : Messages, repeated : {0}]
    BY <1>1, <2>1, ElementOfSeq
  <2>3. Last(sent) = sent[Len(sent)]
    BY DEF Last
  <2> QED BY <2>2, <2>3
<1>3. Repeated(buffer, buffer_count) \in [what : Messages, repeated : 0 .. MaxSent]
  BY SentAssumption DEF PrintRepeated, TypeInv, TypeOK, MessageInv, Repeated
<1>4. /\ out' = Append(out, Repeated(buffer, buffer_count))
      /\ buffer' = Last(sent).what /\ buffer_count' = 0 /\ pc' = "print"
      /\ UNCHANGED <<msg, msg_sync_flag, flushed, synced, sent>>
  BY DEF PrintRepeated, Replace
<1>5. /\ out' \in Seq([what : Messages, repeated : 0 .. MaxSent])
      /\ Len(out') = Len(out) + 1 /\ Len(out) \in Nat
  BY <1>3, <1>4 DEF TypeInv, TypeOK
<1>6. buffer' \in Messages /\ buffer' # Empty
  BY <1>2, <1>4, NotEmpty
<1> QED
  BY <1>1, <1>4, <1>5, <1>6 DEF TypeInv, TypeOK, MessageInv

\* And the message itself.
LEMMA PrintType ==
  ASSUME TypeInv, PrintMessage
  PROVE  TypeOK' /\ MessageInv'
<1>1. Message(buffer) \in [what : Messages, repeated : 0 .. MaxSent]
  BY SentAssumption DEF PrintMessage, TypeInv, TypeOK, MessageInv, Message
<1>2. /\ out' = Append(out, Message(buffer)) /\ pc' \in {"flush", "idle"}
      /\ UNCHANGED <<msg, msg_sync_flag, buffer, buffer_count, flushed, synced, sent>>
  BY DEF PrintMessage, log
<1>3. /\ out' \in Seq([what : Messages, repeated : 0 .. MaxSent])
      /\ Len(out') = Len(out) + 1 /\ Len(out) \in Nat
  BY <1>1, <1>2 DEF TypeInv, TypeOK
<1> QED
  BY <1>2, <1>3 DEF TypeInv, TypeOK, MessageInv

\* The other steps write nothing.
LEMMA QuietType ==
  ASSUME TypeInv, log_init \/ Flush \/ log_done \/ Forget \/ log_abort \/ UNCHANGED vars
  PROVE  TypeOK' /\ MessageInv'
<1> USE DEF TypeInv, TypeOK, MessageInv
<1>0. Len(out) \in Nat /\ Len(sent) \in Nat
  OBVIOUS
<1>1. CASE log_init
  BY <1>1, SentAssumption DEF log_init
<1>2. CASE Flush
  BY <1>0, <1>2 DEF Flush, log
<1>3. CASE log_done
  BY <1>0, <1>3 DEF log_done
<1>4. CASE Forget
  BY <1>4 DEF Forget
<1>5. CASE log_abort
  BY <1>0, <1>5 DEF log_abort
<1>6. CASE UNCHANGED vars
  BY <1>6 DEF vars
<1> QED
  BY <1>1, <1>2, <1>3, <1>4, <1>5, <1>6

\* Every step keeps the types.
LEMMA NextTypeInv == TypeInv /\ [Next]_vars => TypeInv'
<1> SUFFICES ASSUME TypeInv, [Next]_vars PROVE TypeInv'
  OBVIOUS
<1>1. IInv'
  BY NextIInv DEF TypeInv
<1>2. TypeOK' /\ MessageInv'
  BY VaType, RepeatedType, PrintType, QuietType DEF Next
<1> QED
  BY <1>1, <1>2 DEF TypeInv

\* The variables of the log keep their types: the counter never exceeds the
\* messages of this file, and every line in the file is one that was logged.
THEOREM TypeCorrect == Spec => []TypeOK
<1>1. TypeInv => TypeOK
  BY DEF TypeInv
<1> QED
  BY <1>1, InitTypeInv, NextTypeInv, PTL DEF Spec

-----------------------------------------------------------------------------
(***************************************************************************)
(* What a reader makes of the lines, one line after the other.             *)
(***************************************************************************)
Line == [what : Messages, repeated : Nat]
Run  == [what : Messages, times : Nat \ {0}]

Run1(m) == [what |-> m, times |-> 1]

\* What the next line does to the runs of before: the three cases of Extend.
LEMMA ExtendRuns ==
  ASSUME NEW runs \in Seq(Run), NEW line \in Line
  PROVE  Extend(runs, line) \in Seq(Run)
<1> DEFINE n == Len(runs)
<1>1. n \in Nat /\ (n > 0 => n \in 1 .. n /\ runs[n] \in Run)
  OBVIOUS
<1>2. CASE n > 0 /\ line.repeated > 0
  <2>1. Extend(runs, line) = [runs EXCEPT ![n].times = line.repeated + 1]
    BY <1>2 DEF Extend
  <2>2. [runs[n] EXCEPT !.times = line.repeated + 1] \in Run
    BY <1>1, <1>2 DEF Run, Line
  <2> QED BY <1>1, <1>2, <2>1, <2>2
<1>3. CASE n > 0 /\ ~ (line.repeated > 0) /\ runs[n].what = line.what
  <2>1. Extend(runs, line) = [runs EXCEPT ![n].times = @ + 1]
    BY <1>3 DEF Extend
  <2>2. [runs[n] EXCEPT !.times = @ + 1] \in Run
    BY <1>1, <1>3 DEF Run
  <2> QED BY <1>1, <1>3, <2>1, <2>2
<1>4. CASE ~ (n > 0) \/ (~ (line.repeated > 0) /\ runs[n].what # line.what)
  <2>1. Extend(runs, line) = Append(runs, [what |-> line.what, times |-> line.repeated + 1])
    BY <1>4 DEF Extend
  <2>2. [what |-> line.what, times |-> line.repeated + 1] \in Run
    BY DEF Run, Line
  <2> QED BY <2>1, <2>2
<1> QED
  BY <1>2, <1>3, <1>4

\* The recursive function Reading has the values its equation says.
LEMMA ReadingStep ==
  ASSUME NEW lines \in Seq(Line)
  PROVE  /\ Reading(lines) \in [0 .. Len(lines) -> Seq(Run)]
         /\ Reading(lines)[0] = <<>>
         /\ \A k \in 1 .. Len(lines) :
              Reading(lines)[k] = Extend(Reading(lines)[k - 1], lines[k])
<1> DEFINE n == Len(lines)
           Solves(f) == f = [k \in 0 .. n |->
                               IF k = 0 THEN <<>> ELSE Extend(f[k - 1], lines[k])]
           step == [k \in 1 .. n |-> [runs \in Seq(Run) |-> Extend(runs, lines[k])]]
<1>1. n \in Nat /\ \A k \in 1 .. n : lines[k] \in Line
  OBVIOUS
<1>2. step \in [1 .. n -> [Seq(Run) -> Seq(Run)]]
  BY <1>1, ExtendRuns
<1>3. PICK f \in [0 .. n -> Seq(Run)] : Iterates(f, <<>>, n, step)
  <2>1. <<>> \in Seq(Run)
    OBVIOUS
  <2> HIDE DEF n, step
  <2> QED BY <1>1, <1>2, <2>1, Iteration
<1>4. \A k \in 1 .. n : f[k - 1] \in Seq(Run)
  BY <1>1
<1>5. Solves(f)
  <2>1. f[0] = <<>> /\ \A k \in 1 .. n : f[k] = Extend(f[k - 1], lines[k])
    BY <1>3, <1>4 DEF Iterates
  <2> QED BY <1>1, <2>1
<1>6. Reading(lines) = CHOOSE f1 : Solves(f1)
  BY DEF Reading
<1> DEFINE r == Reading(lines)
<1>7. Solves(r)
  <2> HIDE DEF Solves, r
  <2>1. r = CHOOSE f1 : Solves(f1)
    BY <1>6 DEF r
  <2> QED BY <1>5, <2>1
<1> HIDE DEF r
<1>8. /\ r[0] = <<>> /\ \A k \in 1 .. n : r[k] = Extend(r[k - 1], lines[k])
      /\ r = [k \in 0 .. n |-> r[k]]
  BY <1>1, <1>7
<1>9. \A k \in 0 .. n : r[k] \in Seq(Run)
  <2> DEFINE P == {k \in Nat : r[k] \in Seq(Run)}
  <2>1. 0 \in P
    <3>1. <<>> \in Seq(Run)
      OBVIOUS
    <3> QED BY <1>8, <3>1
  <2>2. ASSUME NEW k \in 1 .. n, k - 1 \in P PROVE k \in P
    <3>1. r[k - 1] \in Seq(Run) /\ lines[k] \in Line /\ k \in Nat
      BY <1>1, <2>2
    <3>2. Extend(r[k - 1], lines[k]) \in Seq(Run)
      BY <3>1, ExtendRuns
    <3> QED BY <1>8, <3>1, <3>2
  <2> HIDE DEF P, n
  <2>3. 0 .. n \subseteq P
    BY <1>1, <2>1, <2>2, UpTo
  <2> QED BY <2>3 DEF P
<1> QED
  BY <1>8, <1>9 DEF r

\* One more line: what was read before does not change.
LEMMA RunsAppend ==
  ASSUME NEW lines \in Seq(Line), NEW line \in Line
  PROVE  Runs(Append(lines, line)) = Extend(Runs(lines), line)
<1> DEFINE more == Append(lines, line)  n == Len(lines)
           r == Reading(lines)  s == Reading(more)
<1>1. /\ more \in Seq(Line) /\ Len(more) = n + 1 /\ n \in Nat
      /\ \A k \in 1 .. n : more[k] = lines[k]
      /\ more[n + 1] = line
  OBVIOUS
<1>2. r[0] = <<>> /\ \A k \in 1 .. n : r[k] = Extend(r[k - 1], lines[k])
  BY ReadingStep
<1>3. s[0] = <<>> /\ \A k \in 1 .. n + 1 : s[k] = Extend(s[k - 1], more[k])
  <2> HIDE DEF more
  <2> QED BY <1>1, ReadingStep
<1>4. Runs(lines) = r[n] /\ Runs(more) = s[n + 1]
  BY <1>1 DEF Runs
<1> HIDE DEF more, n, r, s
<1>5. s[n] = r[n]
  <2> DEFINE P == {k \in Nat : s[k] = r[k]}
  <2>1. 0 \in P
    BY <1>2, <1>3
  <2>2. ASSUME NEW k \in 1 .. n, k - 1 \in P PROVE k \in P
    BY <1>1, <1>2, <1>3, <2>2
  <2> HIDE DEF P
  <2>3. 0 .. n \subseteq P
    BY <1>1, <2>1, <2>2, UpTo
  <2>4. n \in 0 .. n
    BY <1>1
  <2> QED BY <2>3, <2>4 DEF P
<1>6. s[n + 1] = Extend(s[n], line)
  <2>1. n + 1 \in 1 .. n + 1 /\ (n + 1) - 1 = n
    BY <1>1
  <2> QED BY <1>1, <1>3, <2>1
<1>7. Runs(more) = Extend(Runs(lines), line)
  BY <1>4, <1>5, <1>6
<1> QED BY <1>7 DEF more

LEMMA RunsType ==
  ASSUME NEW lines \in Seq(Line)
  PROVE  Runs(lines) \in Seq(Run) /\ Runs(<<>>) = <<>>
<1>1. Len(lines) \in 0 .. Len(lines)
  OBVIOUS
<1>2. <<>> \in Seq(Line) /\ Len(<<>>) = 0
  OBVIOUS
<1> QED
  BY <1>1, <1>2, ReadingStep DEF Runs

\* told is all but for the length of the last run, which stops at five.
Tells(told, all) ==
  LET n == Len(all) IN
  /\ Len(told) = n
  /\ \A i \in 1 .. (n - 1) : told[i] = all[i]
  /\ n > 0 => /\ told[n].what = all[n].what
              /\ told[n].times = IF all[n].times > 5 THEN 5 ELSE all[n].times

\* The counter is one less than the length of the run the last message is in.
Counts(all) ==
  LET n == Len(all) IN
  /\ n = 0 => buffer = Empty
  /\ n > 0 => all[n] = [what |-> buffer, times |-> buffer_count + 1]

\* What the file tells at each step of log_va: everything but the filtered
\* repetitions, all but the message that is to be printed, all but the length
\* of a run that is to be summed up and the message after it.
FilterInv ==
  LET all == Runs(sent)  told == Runs(out)  n == Len(all) IN
  /\ pc \in {"idle", "flush", "closing"} => Tells(told, all) /\ Counts(all)
  /\ pc = "print" => /\ n > 0 /\ Counts(all) /\ buffer_count < 5
                     /\ Extend(told, Message(buffer)) = all
  /\ pc = "repeat" => /\ buffer_count >= 5 /\ buffer # Last(sent).what
                      /\ \E before \in Seq(Run) :
                           /\ Len(before) > 0 /\ Counts(before) /\ Tells(told, before)
                           /\ all = Append(before, Run1(Last(sent).what))

LEMMA SameRuns ==
  ASSUME NEW r \in Seq(Run), NEW s \in Seq(Run), Len(r) = Len(s),
         \A i \in 1 .. Len(r) : r[i] = s[i]
  PROVE  r = s
BY SeqEqual

LEMMA ExtendSame ==
  ASSUME NEW runs \in Seq(Run), NEW m \in Messages, Len(runs) > 0,
         runs[Len(runs)].what = m
  PROVE  LET after == Extend(runs, Message(m))  n == Len(runs) IN
         /\ Len(after) = n /\ \A i \in 1 .. n - 1 : after[i] = runs[i]
         /\ after[n] = [what |-> m, times |-> runs[n].times + 1]
<1> DEFINE n == Len(runs)
<1>1. n \in 1 .. n /\ runs[n] \in Run
  OBVIOUS
<1>2. Extend(runs, Message(m)) = [runs EXCEPT ![n].times = @ + 1]
  BY DEF Extend, Message
<1>3. [runs[n] EXCEPT !.times = @ + 1] = [what |-> m, times |-> runs[n].times + 1]
  BY <1>1 DEF Run
<1> QED
  BY <1>1, <1>2, <1>3

LEMMA ExtendNew ==
  ASSUME NEW runs \in Seq(Run), NEW m \in Messages,
         Len(runs) = 0 \/ runs[Len(runs)].what # m
  PROVE  Extend(runs, Message(m)) = Append(runs, Run1(m)) /\ Run1(m) \in Run
BY DEF Extend, Message, Run1, Run

LEMMA ExtendCount ==
  ASSUME NEW runs \in Seq(Run), NEW m \in Messages, NEW k \in Nat, k > 0, Len(runs) > 0
  PROVE  LET after == Extend(runs, Repeated(m, k))  n == Len(runs) IN
         /\ Len(after) = n /\ \A i \in 1 .. n - 1 : after[i] = runs[i]
         /\ after[n] = [what |-> runs[n].what, times |-> k + 1]
<1> DEFINE n == Len(runs)
<1>1. n \in 1 .. n /\ runs[n] \in Run
  OBVIOUS
<1>2. Extend(runs, Repeated(m, k)) = [runs EXCEPT ![n].times = k + 1]
  BY DEF Extend, Repeated
<1>3. [runs[n] EXCEPT !.times = k + 1] = [what |-> runs[n].what, times |-> k + 1]
  BY <1>1 DEF Run
<1> QED
  BY <1>1, <1>2, <1>3

\* A reader of a run of five at most has missed nothing.
LEMMA TellsAll ==
  ASSUME NEW told \in Seq(Run), NEW all \in Seq(Run), Tells(told, all),
         Len(all) = 0 \/ all[Len(all)].times <= 5
  PROVE  told = all
<1> DEFINE n == Len(all)
<1>1. n \in Nat /\ Len(told) = n /\ \A i \in 1 .. n - 1 : told[i] = all[i]
  BY DEF Tells
<1>2. CASE n > 0
  <2>1. told[n] \in Run /\ all[n] \in Run
    BY <1>1, <1>2
  <2>2. told[n].what = all[n].what /\ told[n].times = all[n].times
    BY <1>2, <2>1 DEF Tells, Run
  <2>3. told[n] = all[n]
    BY <2>1, <2>2 DEF Run
  <2> QED BY <1>1, <1>2, <2>3, SameRuns
<1>3. CASE n = 0
  BY <1>1, <1>3, SameRuns
<1> QED
  BY <1>1, <1>2, <1>3

\* The types the steps below need.
LEMMA Lines ==
  ASSUME TypeInv
  PROVE  /\ sent \in Seq(Line) /\ out \in Seq(Line)
         /\ Runs(sent) \in Seq(Run) /\ Runs(out) \in Seq(Run)
         /\ buffer_count \in Nat /\ buffer \in Messages \cup {Empty}
<1>1. [what : Messages, repeated : {0}] \subseteq Line
      /\ [what : Messages, repeated : 0 .. MaxSent] \subseteq Line
  BY SentAssumption DEF Line
<1>2. sent \in Seq(Line) /\ out \in Seq(Line)
  BY <1>1, SeqMonotonic DEF TypeInv, TypeOK
<1> QED
  BY <1>2, RunsType DEF TypeInv, TypeOK

FilterIInv == TypeInv /\ FilterInv

\* Logging a message: printed when the file tells all before it, filtered when
\* it is the sixth of its run, held back while a run is to be summed up.
LEMMA VaFilter ==
  ASSUME FilterIInv, NEW m \in Messages, log_va(m)
  PROVE  FilterInv'
<1> DEFINE all == Runs(sent)  told == Runs(out)
<1>1. PICK a \in Seq(Run) : a = all
  BY Lines DEF FilterIInv
<1>2. PICK t \in Seq(Run) : t = told
  BY Lines DEF FilterIInv
<1>3. PICK s \in Seq(Line) : s = sent
  BY Lines DEF FilterIInv
<1>4. Message(m) \in Line /\ m # Empty
  BY NotEmpty DEF Message, Line
<1>5. Runs(sent') = Extend(a, Message(m)) /\ Runs(out') = t
  <2>1. Runs(Append(s, Message(m))) = Extend(Runs(s), Message(m))
    BY <1>4, RunsAppend, Zenon
  <2>2. sent' = Append(s, Message(m)) /\ out' = out
    BY <1>3 DEF log_va
  <2> QED BY <2>1, <2>2, <1>1, <1>2, <1>3
<1>6. Extend(a, Message(m)) \in Seq(Run)
  BY <1>4, ExtendRuns
<1>7. Tells(t, a) /\ Counts(a) /\ pc = "idle" /\ buffer_count \in Nat
  BY <1>1, <1>2, Lines DEF log_va, FilterIInv, FilterInv
<1>8. Len(a) \in Nat /\ (Len(a) > 0 => a[Len(a)] = [what |-> buffer, times |-> buffer_count + 1])
      /\ (Len(a) = 0 => buffer = Empty)
  BY <1>7 DEF Counts
<1>9. buffer_count < 5 => t = a
  <2> SUFFICES ASSUME buffer_count < 5 PROVE t = a
    OBVIOUS
  <2>1. Len(a) = 0 \/ a[Len(a)].times <= 5
    BY <1>7, <1>8
  <2> QED BY <1>7, <2>1, TellsAll, Zenon
<1>10. CASE m = buffer /\ buffer_count' = buffer_count + 1 /\ UNCHANGED buffer
            /\ pc' = IF buffer_count' < 5 THEN "print" ELSE "idle"
  <2> DEFINE after == Extend(a, Message(m))
  <2>1. Len(a) > 0 /\ a[Len(a)].what = m
    BY <1>4, <1>8, <1>10
  <2>2. /\ Len(after) = Len(a) /\ \A i \in 1 .. Len(a) - 1 : after[i] = a[i]
        /\ after[Len(a)] = [what |-> m, times |-> a[Len(a)].times + 1]
    BY <2>1, ExtendSame
  <2> HIDE DEF after
  <2>3. after[Len(a)] = [what |-> buffer', times |-> buffer_count' + 1]
    BY <1>7, <1>8, <1>10, <2>1, <2>2
  <2>4. Counts(after)'
    BY <1>8, <2>1, <2>2, <2>3 DEF Counts
  <2>5. CASE buffer_count' < 5
    <3>1. pc' = "print" /\ buffer_count < 5
      BY <1>7, <1>10, <2>5
    <3>2. Extend(t, Message(buffer')) = after
      BY <1>9, <1>10, <3>1 DEF after
    <3> QED BY <1>5, <2>1, <2>2, <2>4, <2>5, <3>1, <3>2 DEF FilterInv, after
  <2>6. CASE ~ (buffer_count' < 5)
    <3>1. pc' = "idle" /\ buffer_count >= 4
      BY <1>7, <1>10, <2>6
    <3>2. /\ a[Len(a)].times >= 5 /\ t[Len(a)].times = 5 /\ t[Len(a)].what = m /\ Len(t) = Len(a)
          /\ \A i \in 1 .. (Len(a) - 1) : t[i] = a[i]
      BY <1>7, <1>8, <2>1, <3>1 DEF Tells
    <3>3. after[Len(a)].times > 5 /\ after[Len(a)].what = m
      BY <1>7, <1>10, <2>3, <2>6
    <3>4. Tells(t, after)
      BY <2>2, <3>2, <3>3 DEF Tells
    <3> QED BY <1>5, <2>4, <3>1, <3>4 DEF FilterInv, after
  <2> QED BY <2>5, <2>6
<1>11. CASE m # buffer
  <2>1. Len(a) = 0 \/ a[Len(a)].what # m
    BY <1>8, <1>11
  <2>2. Extend(a, Message(m)) = Append(a, Run1(m)) /\ Run1(m) \in Run
    BY <2>1, ExtendNew
  <2> DEFINE after == Append(a, Run1(m))
  <2>3. /\ Len(after) = Len(a) + 1 /\ after[Len(a) + 1] = Run1(m)
    BY <2>2
  <2>4. CASE buffer_count < 5
    <3>1. buffer' = m /\ buffer_count' = 0 /\ pc' = "print"
      BY <1>7, <1>11, <2>4 DEF log_va, Replace
    <3>2. Counts(after)'
      BY <1>8, <2>3, <3>1 DEF Counts, Run1
    <3>3. Extend(t, Message(buffer')) = after
      BY <1>9, <2>2, <2>4, <3>1
    <3>4. Len(after) > 0
      BY <1>8, <2>3
    <3> HIDE DEF after
    <3>5. Runs(sent') = after
      BY <1>5, <2>2 DEF after
    <3> QED BY <1>5, <3>1, <3>2, <3>3, <3>4, <3>5 DEF FilterInv
  <2>5. CASE buffer_count >= 5
    <3>1. UNCHANGED <<buffer, buffer_count>> /\ pc' = "repeat"
      BY <1>7, <1>11, <2>5 DEF log_va, Replace
    <3>2. Last(sent').what = m
      <4>1. sent' = Append(s, Message(m))
        BY <1>3 DEF log_va
      <4>2. Append(s, Message(m))[Len(s) + 1] = Message(m) /\ Len(Append(s, Message(m))) = Len(s) + 1
        BY <1>4
      <4> QED BY <4>1, <4>2 DEF Last, Message
    <3>3. Len(a) > 0
      BY <1>7, <1>8, <2>5 DEF FilterIInv, TypeInv, MessageInv
    <3>4. Counts(a)' /\ Tells(t, a)'
      BY <1>7, <3>1 DEF Counts, Tells
    <3>5. Runs(sent') = Append(a, Run1(Last(sent').what))
      BY <1>5, <2>2, <3>2
    <3> HIDE DEF after
    <3>6. \E before \in Seq(Run) :
            /\ Len(before) > 0 /\ Counts(before)' /\ Tells(t, before)'
            /\ Runs(sent') = Append(before, Run1(Last(sent').what))
      BY <3>3, <3>4, <3>5
    <3>7. buffer_count' >= 5 /\ buffer' # Last(sent').what
      BY <1>11, <2>5, <3>1, <3>2
    <3> QED BY <1>5, <3>1, <3>6, <3>7 DEF FilterInv
  <2> QED BY <1>7, <2>4, <2>5
<1> QED
  BY <1>10, <1>11 DEF log_va

\* The line that sums up a run gives it its length back, and then the message
\* that ended it is all that is missing.
LEMMA RepeatedFilter ==
  ASSUME FilterIInv, PrintRepeated
  PROVE  FilterInv'
<1>1. PICK t \in Seq(Run) : t = Runs(out)
  BY Lines DEF FilterIInv
<1>2. PICK o \in Seq(Line) : o = out
  BY Lines DEF FilterIInv
<1>3. PICK m : m = Last(sent).what
  OBVIOUS
<1>4. PICK b, k : b = buffer /\ k = buffer_count
  OBVIOUS
<1>5. k \in Nat /\ k >= 5 /\ b # m /\ b \in Messages
  BY <1>3, <1>4, Lines DEF FilterIInv, FilterInv, PrintRepeated, TypeInv, MessageInv
<1>6. PICK before \in Seq(Run) :
        /\ Len(before) > 0 /\ Counts(before) /\ Tells(t, before)
        /\ Runs(sent) = Append(before, Run1(m))
  BY <1>1, <1>3 DEF FilterIInv, FilterInv, PrintRepeated
<1>7. /\ out' = Append(o, Repeated(b, k)) /\ sent' = sent
      /\ buffer' = m /\ buffer_count' = 0 /\ pc' = "print"
  BY <1>2, <1>3, <1>4 DEF PrintRepeated, Replace
<1>8. m \in Messages
  <2>1. buffer' \in Messages \cup {Empty} /\ buffer' # Empty
    BY <1>7, RepeatedType DEF FilterIInv, TypeOK, MessageInv
  <2> QED BY <1>7, <2>1
<1>9. Runs(out') = before
  <2> DEFINE after == Extend(t, Repeated(b, k))
  <2>1. Repeated(b, k) \in Line
    BY <1>5 DEF Repeated, Line
  <2>2. Runs(Append(o, Repeated(b, k))) = Extend(Runs(o), Repeated(b, k))
    BY <2>1, RunsAppend, Zenon
  <2>3. Runs(out') = after
    BY <1>1, <1>2, <1>7, <2>2
  <2>4. /\ Len(t) = Len(before) /\ Len(before) \in Nat
        /\ \A i \in 1 .. (Len(before) - 1) : t[i] = before[i]
        /\ t[Len(before)].what = b
        /\ before[Len(before)] = [what |-> b, times |-> k + 1]
    BY <1>4, <1>6 DEF Tells, Counts
  <2>5. /\ Len(after) = Len(t) /\ \A i \in 1 .. Len(t) - 1 : after[i] = t[i]
        /\ after[Len(t)] = [what |-> t[Len(t)].what, times |-> k + 1]
    BY <1>5, <1>6, <2>4, ExtendCount
  <2>6. after \in Seq(Run)
    BY <2>1, ExtendRuns
  <2> HIDE DEF after
  <2>7. \A i \in 1 .. Len(after) : after[i] = before[i]
    <3>1. after[Len(before)] = before[Len(before)]
      BY <2>4, <2>5
    <3>2. ASSUME NEW i \in 1 .. Len(before) - 1 PROVE after[i] = before[i]
      BY <2>4, <2>5
    <3>3. ASSUME NEW i \in 1 .. Len(before) PROVE i = Len(before) \/ i \in 1 .. Len(before) - 1
      BY <2>4
    <3> QED BY <2>4, <2>5, <3>1, <3>2, <3>3
  <2>8. after = before
    BY <1>6, <2>4, <2>5, <2>6, <2>7, SameRuns
  <2> QED BY <2>3, <2>8
<1>10. before[Len(before)].what = b
  BY <1>4, <1>6 DEF Counts
<1>11. Extend(before, Message(m)) = Append(before, Run1(m)) /\ Run1(m) \in Run
  BY <1>5, <1>8, <1>10, ExtendNew
<1> DEFINE all == Append(before, Run1(m))
<1>12. Len(all) > 0 /\ all[Len(all)] = Run1(m)
  BY <1>11
<1>13. Runs(sent') = all /\ Extend(before, Message(buffer')) = all
  BY <1>6, <1>7, <1>11
<1> HIDE DEF all
<1>14. Counts(all)'
  BY <1>7, <1>12 DEF Counts, Run1
<1> QED
  BY <1>7, <1>9, <1>12, <1>13, <1>14 DEF FilterInv

\* A message of a run of five at most, once printed, leaves nothing to tell.
LEMMA PrintFilter ==
  ASSUME FilterIInv, PrintMessage
  PROVE  FilterInv'
<1>1. PICK a \in Seq(Run) : a = Runs(sent)
  BY Lines DEF FilterIInv
<1>2. PICK o \in Seq(Line) : o = out
  BY Lines DEF FilterIInv
<1>3. PICK b : b = buffer
  OBVIOUS
<1>4. /\ out' = Append(o, Message(b)) /\ sent' = sent /\ pc' \in {"idle", "flush"}
      /\ UNCHANGED <<buffer, buffer_count>>
  BY <1>2, <1>3 DEF PrintMessage, log
<1>5. /\ b \in Messages /\ Len(a) > 0 /\ Counts(a) /\ buffer_count < 5
      /\ Extend(Runs(o), Message(b)) = a /\ buffer_count \in Nat
  BY <1>1, <1>2, <1>3, Lines DEF PrintMessage, FilterIInv, FilterInv, TypeInv, MessageInv
<1>6. Runs(out') = a
  <2>1. Message(b) \in Line
    BY <1>5 DEF Message, Line
  <2>2. Runs(Append(o, Message(b))) = Extend(Runs(o), Message(b))
    BY <2>1, RunsAppend, Zenon
  <2> QED BY <1>4, <1>5, <2>2
<1>7. Counts(a)'
  BY <1>4, <1>5 DEF Counts
<1>8. Tells(a, a)
  BY <1>5 DEF Tells, Counts
<1> QED
  BY <1>1, <1>4, <1>6, <1>7, <1>8 DEF FilterInv

\* The other steps neither log nor print, and log_init starts anew.
LEMMA QuietFilter ==
  ASSUME FilterIInv, log_init \/ Flush \/ log_done \/ Forget \/ log_abort \/ UNCHANGED vars
  PROVE  FilterInv'
<1>1. CASE log_init
  <2>1. buffer' = Empty /\ pc' = "idle" /\ Runs(sent') = <<>> /\ Runs(out') = <<>>
    <3>1. <<>> \in Seq(Line)
      OBVIOUS
    <3> QED BY <1>1, <3>1, RunsType DEF log_init
  <2>2. Tells(<<>>, <<>>) /\ Counts(<<>>)'
    BY <2>1 DEF Tells, Counts
  <2> QED BY <2>1, <2>2 DEF FilterInv
<1>2. CASE Flush \/ log_done \/ Forget
  <2>1. /\ pc \in {"idle", "flush", "closing"} /\ pc' \in {"idle", "closing"}
        /\ UNCHANGED <<sent, out, buffer, buffer_count>>
    BY <1>2 DEF Flush, log_done, Forget, log
  <2> QED BY <2>1 DEF FilterIInv, FilterInv, Counts
<1>3. CASE log_abort
  BY <1>3 DEF log_abort, FilterInv
<1>4. CASE UNCHANGED vars
  BY <1>4 DEF vars, FilterIInv, FilterInv, Counts
<1> QED
  BY <1>1, <1>2, <1>3, <1>4

\* Between two calls the file tells every run of messages and, but for the one
\* that may still grow, its length: whatever the messages and however many.
THEOREM FilterFaithful == Spec => []Faithful
<1>1. Init => FilterIInv
  <2> SUFFICES ASSUME Init PROVE FilterIInv
    OBVIOUS
  <2>1. buffer = Empty /\ pc = "idle" /\ Runs(sent) = <<>> /\ Runs(out) = <<>>
    <3>1. <<>> \in Seq(Line)
      OBVIOUS
    <3> QED BY <3>1, RunsType DEF Init
  <2>2. Tells(<<>>, <<>>) /\ Counts(<<>>)
    BY <2>1 DEF Tells, Counts
  <2> QED BY <2>1, <2>2, InitTypeInv DEF FilterIInv, FilterInv
<1>2. FilterIInv /\ [Next]_vars => FilterIInv'
  <2> SUFFICES ASSUME FilterIInv, [Next]_vars PROVE FilterIInv'
    OBVIOUS
  <2>1. TypeInv'
    BY NextTypeInv DEF FilterIInv
  <2>2. FilterInv'
    BY VaFilter, RepeatedFilter, PrintFilter, QuietFilter DEF Next
  <2> QED BY <2>1, <2>2 DEF FilterIInv
<1>3. FilterIInv => Faithful
  BY DEF FilterIInv, FilterInv, Faithful, Tells
<1> QED
  BY <1>1, <1>2, <1>3, PTL DEF Spec
==============================================================================
