--------------------------------- MODULE Ftee ---------------------------------
(***************************************************************************)
(* firejail --output=FILE: the output of the sandbox goes through a pipe   *)
(* to ftee, which copies it to FILE and rotates FILE, FILE.1 ... FILE.5.   *)
(* Each rename is a step of its own: the program may be killed between two *)
(* of them, and the next sandbox started with the same option finds what   *)
(* is left.                                                                *)
(***************************************************************************)
EXTENDS Integers, Sequences, FiniteSets, SequencesExt

CONSTANTS LastLog,     \* the last file is FILE.LastLog (5 in the code)
          out_max,     \* a file reaches this size when it is rotated
          MaxChunks,   \* reads of one behaviour
          MaxStarts    \* sandboxes started with this output file

Chunks == {1, 2, out_max}    \* sizes one read() returns

VARIABLES log,       \* [0..LastLog -> contents], a sequence of chunks, or NoFile
          written,   \* every chunk ftee wrote, in order (history)
          tee,       \* where ftee is: "check", "rotate", "read", "write" or "end"
          next,      \* the file log_rotate moves next
          out_fp,    \* "open" or "null"
          out_cnt,
          chunk,     \* what read() returned and is not written yet, 0 if nothing
          starts

lvars == <<log, written, tee, next, out_fp, out_cnt, chunk, starts>>

\* A chunk is its number and its size.
Chunk(n, size) == [n |-> n, size |-> size]
NoFile == <<Chunk(0, 0)>>
Exists(i) == log[i] # NoFile

SizeOf(f) == FoldLeft(LAMBDA sum, c : sum + c.size, 0, f)

(***************************************************************************)
(* main: the checks on the file name, then a rotation that keeps the last  *)
(* log of an earlier sandbox.  fopen "a" creates the file if it is not     *)
(* there.                                                                  *)
(***************************************************************************)
FileRefused ==
  /\ tee = "check"
  /\ tee' = "end"
  /\ UNCHANGED <<log, written, next, out_fp, out_cnt, chunk, starts>>

FileAccepted ==
  /\ tee = "check"
  /\ log' = IF Exists(0) THEN log ELSE [log EXCEPT ![0] = <<>>]
  /\ tee' = "rotate" /\ next' = LastLog
  /\ UNCHANGED <<written, out_fp, out_cnt, chunk, starts>>

\* mutant: the files are moved starting from the newest
MovedNewest(i) ==
  LET j == LastLog - i
  IN  IF j < LastLog /\ Exists(j) THEN [log EXCEPT ![j + 1] = log[j], ![j] = NoFile]
      ELSE log

(***************************************************************************)
(* log_rotate: delete the last file, move the others down one position     *)
(* starting from the oldest, then close and move the current one.          *)
(***************************************************************************)
Moved(i) ==
  IF i = LastLog THEN [log EXCEPT ![i] = NoFile]
  ELSE IF Exists(i) THEN [log EXCEPT ![i + 1] = log[i], ![i] = NoFile]
  ELSE log

log_rotate ==
  /\ tee = "rotate"
  /\ log' = Moved(next)
  /\ IF next = 0
     THEN /\ out_fp' = "null"
          /\ tee' = IF chunk = 0 THEN "read" ELSE "write"
          /\ UNCHANGED next
     ELSE next' = next - 1 /\ UNCHANGED <<tee, out_fp>>
  /\ UNCHANGED <<written, out_cnt, chunk, starts>>

Read ==
  /\ tee = "read"
  /\ Len(written) < MaxChunks
  /\ \E size \in Chunks : chunk' = size
  /\ tee' = "log_write"
  /\ UNCHANGED <<log, written, next, out_fp, out_cnt, starts>>

Eof ==
  /\ tee = "read"
  /\ tee' = "end" /\ out_fp' = "null"
  /\ UNCHANGED <<log, written, next, out_cnt, chunk, starts>>

(***************************************************************************)
(* log_write: open the file if there is none, rotate when the chunk brings *)
(* the file to out_max, then write the chunk.                              *)
(***************************************************************************)
Opened == IF out_fp = "null" THEN [log EXCEPT ![0] = <<>>] ELSE log
OutCount == IF out_fp = "null" THEN chunk ELSE out_cnt + chunk

log_write ==
  /\ tee = "log_write"
  /\ log' = Opened /\ out_fp' = "open"
  /\ IF OutCount >= out_max
     THEN tee' = "rotate" /\ next' = LastLog /\ out_cnt' = chunk
     ELSE tee' = "write" /\ out_cnt' = OutCount /\ UNCHANGED next
  /\ UNCHANGED <<written, chunk, starts>>

\* After a rotation the file is opened again, empty.
fwrite ==
  /\ tee = "write"
  /\ LET c == Chunk(Len(written) + 1, chunk)
     IN  /\ log' = [Opened EXCEPT ![0] = Append(@, c)]
         /\ written' = Append(written, c)
  /\ out_fp' = "open" /\ chunk' = 0 /\ tee' = "read"
  /\ UNCHANGED <<next, out_cnt, starts>>

\* External: ftee is killed with the session; another sandbox is started with
\* the same output file.
Killed ==
  /\ tee \notin {"check", "end"}
  /\ tee' = "end"
  /\ UNCHANGED <<log, written, next, out_fp, out_cnt, chunk, starts>>

Restart ==
  /\ tee = "end" /\ starts < MaxStarts
  /\ starts' = starts + 1
  /\ tee' = "check" /\ out_fp' = "null" /\ out_cnt' = 0 /\ chunk' = 0
  /\ UNCHANGED <<log, written, next>>

TInit ==
  /\ log = [i \in 0..LastLog |-> NoFile]
  /\ written = <<>> /\ tee = "check" /\ next = 0
  /\ out_fp = "null" /\ out_cnt = 0 /\ chunk = 0 /\ starts = 1

TNext ==
  \/ FileRefused \/ FileAccepted \/ log_rotate \/ Read \/ Eof
  \/ log_write \/ fwrite \/ Killed \/ Restart

-----------------------------------------------------------------------------
\* What the files hold, oldest first.
Kept ==
  FlattenSeq([i \in 1..(LastLog + 1) |->
    IF Exists(LastLog + 1 - i) THEN log[LastLog + 1 - i] ELSE <<>>])

\* The log files hold the last part of what was written, without a hole and in
\* order, and each is smaller than out_max unless one read() was that large;
\* whenever ftee is killed, also half-way through a rotation, and whatever the
\* next one does with what it finds (log_rotate, log_write).
LogIsRecent ==
  /\ IsSuffix(Kept, written)
  /\ \A i \in 0..LastLog :
       Exists(i) => SizeOf(log[i]) < out_max \/ Len(log[i]) = 1
==============================================================================
