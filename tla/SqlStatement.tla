---------------------------- MODULE SqlStatement ----------------------------
(***************************************************************************)
(* A prepared statement and its result (db/SqlPrepare.cpp,                 *)
(* SqlResultSet.cpp): the script pushes parameters, a worker prepares and  *)
(* executes (DBSqlTask::process), the callback walks through the rows.     *)
(*                                                                         *)
(* A parameter is [id, len, fixed], a column's cell [id, len, null, cap]   *)
(* with the size of the buffer its type is given.  A bind is [cap, id,     *)
(* len]: the size of its buffer (0: none), the value in it and its length. *)
(* The MySQL client library is external: each of its calls succeeds or     *)
(* fails.  wild is the first use of memory that is not the program's,      *)
(* after which no more is said of it.                                      *)
(***************************************************************************)
EXTENDS Integers, Sequences

CONSTANTS
  Params,        \* what is pushed
  m_count,       \* the question marks of the statement
  Answers,       \* the tables the server may answer with: sequences of rows
  Widths,        \* sizes of the types that are read, 0 for strings
  MaxRuns,       \* bound on executions
  MaxClears      \* bound on calls of clear

Cell == [id : Nat, len : Nat, null : BOOLEAN, cap : Nat]

\* The rows of an answer are equally long, a column has one buffer for all.
ASSUME SqlAssumption ==
  /\ Params \subseteq [id : Nat, len : Nat, fixed : BOOLEAN]
  /\ Answers \subseteq Seq(Seq(Cell))
  /\ \A t \in Answers : \A i \in 1 .. Len(t) : Len(t[i]) = Len(t[1])
  /\ \A t \in Answers : \A i \in 1 .. Len(t) : \A c \in 1 .. Len(t[i]) : t[i][c].cap = t[1][c].cap
  /\ Widths \subseteq Nat
  /\ {m_count, MaxRuns, MaxClears} \subseteq Nat

VARIABLES
  m_paramBind,   \* the binds
  m_widx,        \* parameters written so far
  m_stmt,        \* whether m_stmt is set
  stmts,         \* the library's open statements
  result,        \* SqlResultSet: m_rowCount, m_fieldCount, m_fields
  m_currRowIdx,  \* row, -1 before the first
  m_currColIdx,  \* column
  answer,        \* ghost: the rows the server sent, FetchedRows of them arrived
  given,         \* ghost: what was pushed since clear
  sent,          \* ghost: what the last execution sent, and what it should have
  got,           \* ghost: what the last read returned
  runs,          \* executions so far
  clears,        \* calls of clear
  wild,          \* ghost: "none", "buffer", "binds" or "column"
  alive          \* the command is not yet dropped

sqlVars == <<m_paramBind, m_widx, m_stmt, stmts, result, m_currRowIdx, m_currColIdx,
             answer, given, sent, got, runs, clears, wild, alive>>

NoBind == [cap |-> 0, id |-> 0, len |-> 0]

NoResult == [rowCount |-> 0, fieldCount |-> 0, fields |-> << >>]

NoAnswer == [rows |-> << >>, fetched |-> 0, bound |-> TRUE]

NoRead == [what |-> "nothing", id |-> 0]

Unread == [row |-> -1, col |-> 0, width |-> 0, read |-> [what |-> "not read", id |-> 0]]

SqlInit ==
  /\ m_paramBind = [k \in 1..m_count |-> NoBind]
  /\ m_widx = 0 /\ m_stmt = FALSE /\ stmts = 0
  /\ result = NoResult /\ m_currRowIdx = -1 /\ m_currColIdx = 0
  /\ answer = NoAnswer /\ given = << >> /\ sent = [ids |-> << >>, want |-> << >>]
  /\ got = Unread
  /\ runs = 0 /\ clears = 0 /\ wild = "none" /\ alive = TRUE

resultVars == <<result, m_currRowIdx, m_currColIdx, answer, got>>

----------------------------------------------------------------------------
\* SetParameterValue gives the bind a new buffer; pushString and write only
\* make one when there is none.
fill(bind, p) ==
  [cap |-> IF p.fixed \/ bind.cap = 0 THEN p.len ELSE bind.cap, id |-> p.id, len |-> p.len]

\* pushInt8 .. pushDouble, pushString, pushBlob, pushData: the next bind, which
\* nobody checks to be there; memcpy does not look at the buffer's size.
push(p) ==
  LET k == m_widx + 1
      bind == fill(m_paramBind[k], p)
  IN  /\ alive
      /\ m_widx' = k
      /\ given' = Append(given, p.id)
      /\ IF k > m_count
           THEN wild' = "binds" /\ UNCHANGED m_paramBind
           ELSE /\ m_paramBind' = [m_paramBind EXCEPT ![k] = bind]
                /\ wild' = IF p.len > bind.cap THEN "buffer" ELSE wild
      /\ UNCHANGED <<m_stmt, stmts, sent, runs, clears, alive, resultVars>>

\* clear, which is not bound to Lua.
clear ==
  /\ alive /\ clears < MaxClears
  /\ clears' = clears + 1
  /\ m_widx' = 0
  /\ given' = << >>
  /\ UNCHANGED <<m_paramBind, m_stmt, stmts, sent, runs, wild, alive, resultVars>>

----------------------------------------------------------------------------
\* _fetch until the library has no more rows or fails: row by row into
\* m_fields, which has a place for every row; a NULL is a made field of
\* length 0.  A truncated column is taken for a whole one: make copies as many
\* bytes as the cell has, of which the buffer holds the first.
Fields(rows, fetched, cols) ==
  [k \in 1 .. Len(rows) * cols |->
     LET r == (k - 1) \div cols + 1
         cell == rows[r][((k - 1) % cols) + 1]
     IN  IF r > fetched THEN [made |-> FALSE, id |-> 0, len |-> 0, known |-> 0]
         ELSE IF cell.null THEN [made |-> TRUE, id |-> 0, len |-> 0, known |-> 0]
         ELSE [made |-> TRUE, id |-> cell.id, len |-> cell.len,
               known |-> IF cell.len > cell.cap THEN cell.cap ELSE cell.len]]

\* make copies from NULL: a type allocateResultBuffer does not know.
NoBuffer(ans) ==
  /\ ans.bound
  /\ \E r \in 1 .. ans.fetched : \E c \in 1 .. Len(ans.rows[r]) :
       ~ans.rows[r][c].null /\ ans.rows[r][c].cap = 0 /\ ans.rows[r][c].len > 0

\* setResult: the counts are set before anything can fail.
setResult(ans) ==
  LET rows == ans.rows
      cols == IF rows = << >> THEN 0 ELSE Len(rows[1])
  IN  [rowCount |-> Len(rows), fieldCount |-> cols,
       fields |-> IF ans.bound THEN Fields(rows, ans.fetched, cols) ELSE << >>]

\* What the library does: how far prepare and execute come, and the answer.
Outcomes ==
  [step : {"init", "prepare", "bind_param", "execute"}, answer : {NoAnswer}]
  \cup {[step |-> "store", answer |-> NoAnswer]}
  \cup UNION {{[step |-> "done", answer |-> [rows |-> t, fetched |-> n, bound |-> b]] :
                  n \in 0 .. Len(t), b \in BOOLEAN} : t \in Answers}

\* DBSqlTask::process with a fresh SqlResultSet: prepare overwrites m_stmt.
process(o) ==
  LET opened == o.step # "init"
      executed == o.step \in {"execute", "store", "done"}
  IN  /\ alive /\ runs < MaxRuns
      /\ runs' = runs + 1
      /\ m_stmt' = opened
      /\ stmts' = IF opened THEN stmts + 1 ELSE stmts
      /\ sent' = IF executed
                   THEN [ids |-> [k \in 1..m_count |-> m_paramBind[k].id], want |-> given]
                   ELSE sent
      /\ result' = IF o.step = "done" THEN setResult(o.answer) ELSE NoResult
      /\ answer' = o.answer
      /\ wild' = IF NoBuffer(o.answer) THEN "column" ELSE wild
      /\ m_currRowIdx' = -1 /\ m_currColIdx' = 0 /\ got' = Unread
      /\ UNCHANGED <<m_paramBind, m_widx, given, clears, alive>>

\* ~SqlPrepare closes the statement it knows.
destruct ==
  /\ alive
  /\ alive' = FALSE
  /\ stmts' = IF m_stmt THEN stmts - 1 ELSE stmts
  /\ m_stmt' = FALSE
  /\ UNCHANGED <<m_paramBind, m_widx, given, sent, runs, clears, wild, resultVars>>

----------------------------------------------------------------------------
fetch ==
  /\ m_currRowIdx + 1 < result.rowCount
  /\ m_currRowIdx' = m_currRowIdx + 1
  /\ m_currColIdx' = 0
  /\ got' = Unread
  /\ UNCHANGED <<m_paramBind, m_widx, m_stmt, stmts, result, answer, given, sent, runs, clears,
                 wild, alive>>

\* Fault: the index forgets the row.
getField_FirstRow(idx) ==
  IF m_currRowIdx < 0 \/ m_currRowIdx >= result.rowCount \/ idx >= result.fieldCount
    THEN NoRead
  ELSE IF idx + 1 > Len(result.fields) THEN [what |-> "outside", id |-> 0]
  ELSE IF ~result.fields[idx + 1].made THEN NoRead
  ELSE [what |-> "field", id |-> idx + 1]

\* getField: a row, a column and a field that was made, or NULL; the index is
\* not held against m_fields.
getField(idx) ==
  LET k == m_currRowIdx * result.fieldCount + idx + 1
  IN  IF m_currRowIdx < 0 \/ m_currRowIdx >= result.rowCount \/ idx >= result.fieldCount
        THEN NoRead
      ELSE IF k > Len(result.fields) THEN [what |-> "outside", id |-> 0]
      ELSE IF ~result.fields[k].made THEN NoRead
      ELSE [what |-> "field", id |-> k]

\* getInt8 .. getDouble copy the type's size out of the field; getString,
\* getData and readBlob (width 0) what is there: foreign bytes, where the
\* column's buffer had an end.
readField(width) ==
  LET f == getField(m_currColIdx)
      field == result.fields[f.id]
      size == IF width = 0 THEN field.len ELSE width
  IN  IF f.what # "field" THEN f
      ELSE IF width > field.len THEN [what |-> "past the field", id |-> 0]
      ELSE IF size > field.known THEN [what |-> "foreign", id |-> field.id]
      ELSE IF width \in {0, field.len} THEN [what |-> "value", id |-> field.id]
      ELSE [what |-> "part", id |-> field.id]

get(width) ==
  /\ m_currColIdx <= result.fieldCount
  /\ got' = [row |-> m_currRowIdx, col |-> m_currColIdx, width |-> width, read |-> readField(width)]
  /\ m_currColIdx' = m_currColIdx + 1
  /\ UNCHANGED <<m_paramBind, m_widx, m_stmt, stmts, result, m_currRowIdx, answer, given, sent,
                 runs, clears, wild, alive>>

SqlNext ==
  /\ wild = "none"
  /\ \/ \E p \in Params : push(p)
     \/ clear \/ destruct \/ fetch
     \/ \E o \in Outcomes : process(o)
     \/ \E w \in Widths : get(w)

SqlSpec == SqlInit /\ [][SqlNext]_sqlVars

----------------------------------------------------------------------------
\* An execution sends what was pushed since clear, and for parameters that
\* were not pushed again what they were before.
SentIsGiven == \A k \in 1..Len(sent.want) : k <= m_count => sent.ids[k] = sent.want[k]

\* Memory is misused only where the script or the table asks for it: a longer
\* value where clear has left a buffer, more values since clear than question
\* marks (the parameters of a second run, as Lua has no clear), a type without
\* a buffer.
WildOnlyFor ==
  /\ wild = "buffer" => clears > 0 /\ Len(given) <= m_count
  /\ wild = "binds" => Len(given) = m_count + 1
  /\ wild = "column" =>
       \E r \in 1 .. answer.fetched : \E c \in 1 .. Len(answer.rows[r]) : answer.rows[r][c].cap = 0

\* A statement that is run again loses the statement of the run before: one
\* stays open for every run but the last.
OneStatementPerRun == stmts <= runs /\ (runs <= 1 /\ ~alive => stmts = 0)

Asked == answer.rows[got.row + 1][got.col + 1]

\* A read returns the cell the server sent for this row and column.  It leaves
\* the field only for a NULL, or a type wider than the column, has foreign bytes
\* only of a truncated column, and leaves the vector only when binding the
\* result failed; it returns nothing only for a row that did not arrive, a
\* column there is not, or before the first fetch.
ReadsTheCell ==
  LET there == got.row >= 0 /\ got.row < Len(answer.rows) /\ got.col < result.fieldCount
      read == got.read
      size == IF got.width = 0 THEN Asked.len ELSE got.width
  IN  /\ read.what \in {"value", "part"} =>
           there /\ (IF Asked.null THEN read.id = 0 ELSE read.id = Asked.id /\ size <= Asked.cap)
      /\ read.what = "past the field" => there /\ (Asked.null \/ got.width > Asked.len)
      /\ read.what = "foreign" => there /\ ~Asked.null /\ Asked.len > Asked.cap
      /\ read.what = "outside" => ~answer.bound
      /\ read.what = "nothing" => ~there \/ got.row + 1 > answer.fetched

\* Statements and results of the MySQL interface.
SqlSound == SentIsGiven /\ WildOnlyFor /\ OneStatementPerRun /\ ReadsTheCell
=============================================================================
