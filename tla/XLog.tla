-------------------------------- MODULE XLog --------------------------------
(***************************************************************************)
(* XLog::writeFile (src/src/common/XLog.cpp), called by the main thread    *)
(* and by the database workers.  The lock is held while the file is chosen *)
(* and again while the line is written, but not in between.                *)
(*                                                                         *)
(* std::localtime returns one static struct that all threads share.  Times *)
(* are days: what matters here is only whether the day has changed.  A     *)
(* line has length 1.                                                      *)
(***************************************************************************)
EXTENDS Integers, Sequences, FiniteSets

CONSTANTS
  Writer,      \* threads
  maxsize,     \* lines per file
  MaxDay,      \* bound: the last day of a run
  MaxLine      \* bound: lines per thread

ASSUME XLogAssumption ==
  /\ IsFiniteSet(Writer)
  /\ maxsize \in Nat \ {0}
  /\ MaxDay \in Nat
  /\ MaxLine \in Nat

VARIABLES
  today,       \* the time
  tm,          \* the static struct tm
  file,        \* the file in use, an index of files, or 0
  files,       \* history: the files, with the lines they hold and whether they are open
  writeday, currsize,
  writer,      \* where each thread is, with its local variables
  failed,      \* history: some fopen has failed
  nowhere,     \* history: a line was written to NULL or to a closed file
  begun,       \* history: calls of each thread, which number its lines
  dropped      \* history: the lines for which there was no file

logVars == <<today, tm, file, files, writeday, currsize, writer, failed, nowhere, begun, dropped>>

Out == [at |-> "out"]

\* The line that thread w is writing, or wrote last.
LineOf(w) == <<w, begun[w]>>

LogInit ==
  /\ today = 1 /\ tm = 0
  /\ file = 0 /\ files = <<>>
  /\ writeday = 0 /\ currsize = 0
  /\ writer = [w \in Writer |-> Out]
  /\ failed = FALSE /\ nowhere = FALSE
  /\ begun = [w \in Writer |-> 0] /\ dropped = {}

\* time(NULL)
writeFile(w) ==
  /\ writer[w].at = "out" /\ begun[w] < MaxLine /\ ~nowhere
  /\ writer' = [writer EXCEPT ![w] = [at |-> "localtime", t |-> today]]
  /\ begun' = [begun EXCEPT ![w] = @ + 1]
  /\ UNCHANGED <<today, tm, file, files, writeday, currsize, failed, nowhere, dropped>>

\* getTMStruct: localtime fills the struct that tm_ points to in every thread.
localtime(w) ==
  /\ writer[w].at = "localtime" /\ ~nowhere
  /\ tm' = writer[w].t
  /\ writer' = [writer EXCEPT ![w] = [at |-> "choose"]]
  /\ UNCHANGED <<today, file, files, writeday, currsize, failed, nowhere, begun, dropped>>

\* closefile
Closed == IF file = 0 THEN files ELSE [files EXCEPT ![file].open = FALSE]

\* The first locked part: a new file if there is none, if the day has changed or
\* if the file is full.  fopen may fail.
choose(w) ==
  LET new == file = 0 \/ tm # writeday \/ currsize >= maxsize IN
  /\ writer[w].at = "choose" /\ ~nowhere
  /\ writeday' = tm
  /\ \/ /\ ~new
        /\ writer' = [writer EXCEPT ![w] = [at |-> "write", chosen |-> file]]
        /\ UNCHANGED <<file, files, currsize, failed, dropped>>
     \/ /\ new
        /\ files' = Append(Closed, [day |-> tm, held |-> {}, open |-> TRUE])
        /\ file' = Len(files) + 1
        /\ currsize' = 0
        /\ writer' = [writer EXCEPT ![w] = [at |-> "write", chosen |-> Len(files) + 1]]
        /\ UNCHANGED <<failed, dropped>>
     \/ /\ new
        /\ files' = Closed /\ file' = 0 /\ failed' = TRUE
        /\ currsize' = IF file = 0 THEN currsize ELSE 0
        /\ writer' = [writer EXCEPT ![w] = Out]
        /\ dropped' = dropped \cup {LineOf(w)}
  /\ UNCHANGED <<today, tm, nowhere, begun>>

\* fprintf and fflush on file f.
emit(w, f) ==
  /\ writer[w].at = "write" /\ ~nowhere
  /\ nowhere' = (f = 0 \/ ~files[f].open)
  /\ files' = IF f = 0 THEN files ELSE [files EXCEPT ![f].held = @ \cup {LineOf(w)}]
  /\ currsize' = currsize + 1
  /\ writer' = [writer EXCEPT ![w] = Out]
  /\ UNCHANGED <<today, tm, file, writeday, failed, begun, dropped>>

\* Fault: the line goes to the file that was chosen before the lock was released.
write_Chosen(w) == writer[w].at = "write" /\ emit(w, writer[w].chosen)

\* The second locked part: the line goes to the file that is in use now.
write(w) == emit(w, file)

dayEnds ==
  /\ today < MaxDay /\ ~nowhere
  /\ today' = today + 1
  /\ UNCHANGED <<tm, file, files, writeday, currsize, writer, failed, nowhere, begun, dropped>>

LogNext ==
  \/ \E w \in Writer : writeFile(w) \/ localtime(w) \/ choose(w) \/ write(w)
  \/ dayEnds

LogSpec == LogInit /\ [][LogNext]_logVars

-----------------------------------------------------------------------------
(***************************************************************************)
(* Property                                                                *)
(***************************************************************************)

\* A file that could not be opened is the only way to write to no file.
WrittenSomewhere == nowhere => failed

OneFileOpen == {f \in DOMAIN files : files[f].open} = {file} \ {0}

LimitKept == \A f \in DOMAIN files : Cardinality(files[f].held) < maxsize + Cardinality(Writer)

\* A line whose call has returned.
Returned(w, k) == k < begun[w] \/ (k = begun[w] /\ writer[w].at = "out")

\* Where line l has ended up: in a file, or nowhere because there was none.
Ends(l) == {f \in 0 .. Len(files) : IF f = 0 THEN l \in dropped ELSE l \in files[f].held}

NoLineLost ==
  ~nowhere =>
    \A w \in Writer : \A k \in 1 .. MaxLine :
      IF Returned(w, k) THEN \E f \in 0 .. Len(files) : Ends(<<w, k>>) = {f}
                        ELSE Ends(<<w, k>>) = {}

\* Between the two locked parts other threads may open a file for another day, or
\* fill it: a line still goes to an open file, unless some fopen has failed; one
\* file is open at a time; a file outgrows its limit by less than one line per
\* thread; and every line is in exactly one file once writeFile returns, but for
\* those for which there was no file.
LogSound == WrittenSomewhere /\ OneFileOpen /\ LimitKept /\ NoLineLost

=============================================================================
