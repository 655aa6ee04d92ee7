---------------------------- MODULE RedisClient ----------------------------
(***************************************************************************)
(* A worker's redis connection, a command and its replies                  *)
(* (db/DB_Interface_redis.cpp, RedisCommand.cpp, RedisResult.cpp).         *)
(*                                                                         *)
(* A parameter is its bytes, with the NULs that tostr adds behind them.  A *)
(* reply is [kind, str, elements]: a string (status, error and bulk        *)
(* replies have str), an integer or nil ("int"), or an array of strings,   *)
(* with NilStr for an element that has none.  hiredis is external: a       *)
(* connection fails once and then for good, and a failed command has no    *)
(* reply.  misused is the first use of memory that is not the program's,   *)
(* after which no more is said of it.                                      *)
(***************************************************************************)
EXTENDS Integers, Sequences, FiniteSetsExt, SequencesExt

CONSTANTS
  Commands,      \* the bytes of the command, which the constructor takes as a C string
  Words,         \* the bytes of what is pushed
  Replies,       \* what the server may answer
  Sizes,         \* sizes of the types that are read, 0 for strings
  MaxParams,     \* bound on a command's parameters
  MaxTasks,      \* bound on executions of the command
  MaxReads       \* bound on reads of a reply

VARIABLES
  m_context,     \* "null", "ok" or "err"
  m_param,       \* the parameters' bytes
  m_len,         \* their lengths
  pushedWords,   \* ghost: what was pushed
  onWire,        \* ghost: the words the last execution sent, of how many parameters
  reply,         \* the reply of the last result, or NoReply
  pos,           \* the result's cursor
  readBack,      \* ghost: what the callback has read
  replies,       \* ghost: replies hiredis made that were not freed
  tasks,         \* executions so far
  last,          \* ghost: return value of the last execution
  broken,        \* ghost: the connection has failed
  misused           \* ghost: "none", "format", "reply", "element" or "nil"

redisVars == <<m_context, m_param, m_len, pushedWords, onWire, reply, pos, readBack, replies, tasks,
               last, broken, misused>>

NoReply == [kind |-> "none", str |-> << >>, elements |-> << >>]

\* Bytes that mean something; the others stand for themselves.
NUL == 0

SPACE == 1

PERCENT == 2

NilStr == <<-1>>

\* A command of blanks alone would be no request, and waited for for ever.
ASSUME RedisAssumption ==
  /\ Commands \subseteq Seq(Nat \ {NUL})
  /\ \A w \in Commands : \E k \in 1 .. Len(w) : w[k] # SPACE
  /\ Words \subseteq Seq(Nat)
  /\ Replies \subseteq [kind : {"string", "int", "array"}, str : Seq(Nat), elements : Seq(Seq(Int))]
  /\ Sizes \subseteq Nat
  /\ {MaxParams, MaxTasks, MaxReads} \subseteq Nat

RedisInit ==
  /\ m_context = "null"
  /\ \E w \in Commands : m_param = <<w>> /\ m_len = <<Len(w)>> /\ pushedWords = <<w>>
  /\ onWire = [of |-> 0, words |-> << >>] /\ reply = NoReply /\ pos = 0 /\ readBack = << >>
  /\ replies = 0 /\ tasks = 0 /\ last = 0 /\ broken = FALSE /\ misused = "none"

commandVars == <<m_param, m_len, pushedWords>>

replyVars == <<reply, pos, readBack>>

----------------------------------------------------------------------------
\* connect, from DBThread::onStart: the outcome is not looked at.
DBInterfaceRedis_connect ==
  /\ m_context = "null" /\ tasks = 0 /\ ~broken
  /\ \/ m_context' = "ok" /\ broken' = FALSE
     \/ m_context' = "null" /\ broken' = TRUE
  /\ UNCHANGED <<commandVars, replyVars, onWire, replies, tasks, last, misused>>

\* detach, when the thread ends.
detach ==
  /\ m_context # "null"
  /\ m_context' = "null"
  /\ broken' = TRUE
  /\ UNCHANGED <<commandVars, replyVars, onWire, replies, tasks, last, misused>>

\* ping frees its reply on every way.
ping ==
  /\ m_context # "null"
  /\ \/ m_context = "ok" /\ UNCHANGED <<m_context, broken>>
     \/ m_context' = "err" /\ broken' = TRUE
  /\ UNCHANGED <<commandVars, replyVars, onWire, replies, tasks, last, misused>>

\* RedisCommand::append, for every push.
append(w) ==
  /\ Len(m_param) < MaxParams
  /\ m_param' = Append(m_param, w)
  /\ m_len' = Append(m_len, Len(w))
  /\ pushedWords' = Append(pushedWords, w)
  /\ UNCHANGED <<m_context, replyVars, onWire, replies, tasks, last, broken, misused>>

\* Fault: the length goes with the vector, NUL and all.
argv_VectorLength == [k \in 1..Len(m_param) |-> m_param[k]]

\* argv and argvlen together: as many bytes of each parameter as its length.
argv == [k \in 1..Len(m_param) |-> SubSeq(m_param[k], 1, m_len[k])]

\* tostr ends the first parameter with a NUL, again at every call; redisCommand
\* reads up to the first one.
tostr(w) == Append(w, NUL)

UpToNul(w) ==
  LET nul == Min({k \in 1..Len(w) : w[k] = NUL}) IN SubSeq(w, 1, nul - 1)

\* redisCommand takes the command for a format: two percent signs are one, one
\* before another byte is a conversion, and a last one is itself.
Converts(w) ==
  LET c[k \in 1 .. Len(w) + 2] ==
        k < Len(w) /\ IF w[k] = PERCENT THEN w[k + 1] # PERCENT \/ c[k + 2] ELSE c[k + 1]
  IN  c[1]

Unescaped(w) ==
  LET u[k \in 1 .. Len(w) + 2] ==
        IF k > Len(w) THEN << >>
        ELSE <<w[k]>> \o u[IF k < Len(w) /\ w[k] = PERCENT /\ w[k + 1] = PERCENT THEN k + 2 ELSE k + 1]
  IN  u[1]

\* Its words are what blanks separate.
Formatted(w) ==
  LET s == Unescaped(w)
      f[k \in 0 .. Len(s)] ==
        IF k = 0 THEN << << >> >>
        ELSE IF s[k] = SPACE THEN Append(f[k - 1], << >>)
        ELSE [f[k - 1] EXCEPT ![Len(f[k - 1])] = Append(@, s[k])]
  IN  SelectSeq(f[Len(s)], LAMBDA x : x # << >>)

\* ~RedisResult frees its reply, setResult takes the new one.
replace(r) ==
  /\ reply' = r /\ pos' = 0 /\ readBack' = << >>
  /\ replies' = replies - (IF reply = NoReply THEN 0 ELSE 1) + (IF r = NoReply THEN 0 ELSE 1)

\* The connection fails, in sending or in waiting.
fail ==
  /\ last' = -1
  /\ replace(NoReply)
  /\ m_context' = "err" /\ broken' = TRUE

\* DBRedisTask::process with a fresh result.  execute dereferences m_context,
\* so there has to be one.  A conversion takes an argument nobody passed, or is
\* no conversion and an error of the connection.
execute ==
  LET lone == tostr(m_param[1])
      convert == Len(m_param) = 1 /\ Converts(UpToNul(lone))
  IN  /\ tasks < MaxTasks /\ m_context # "null"
      /\ tasks' = tasks + 1
      /\ m_param' = IF Len(m_param) > 1 THEN m_param ELSE <<lone>>
      /\ IF convert
           THEN /\ UNCHANGED onWire
                /\ \/ misused' = "format" /\ UNCHANGED <<last, m_context, broken, replies, replyVars>>
                   \/ fail /\ UNCHANGED misused
           ELSE /\ onWire' = [of |-> Len(m_param),
                             words |-> IF Len(m_param) > 1 THEN argv ELSE Formatted(UpToNul(lone))]
                /\ \/ /\ m_context = "ok" /\ last' = 0
                      /\ \E r \in Replies : replace(r)
                      /\ UNCHANGED <<m_context, broken>>
                   \/ fail
                /\ UNCHANGED misused
      /\ UNCHANGED <<m_len, pushedWords>>

----------------------------------------------------------------------------
\* getRowCount, which is also getFieldsCount: 0 for an integer.
getRowCount == IF reply.kind = "string" THEN 1 ELSE Len(reply.elements)

\* The string, whatever pos is, or the element at pos.
Part(k) == IF reply.kind = "string" THEN reply.str ELSE reply.elements[k]

read(r) ==
  /\ readBack' = Append(readBack, r)
  /\ pos' = pos + 1
  /\ UNCHANGED misused

astray(what) == misused' = what /\ UNCHANGED <<readBack, pos>>

readVars == <<m_context, commandVars, onWire, reply, replies, tasks, last, broken>>

\* getData, getStream and readBlob do not look at the count: past the last
\* element, or without a reply, they follow what is no pointer.
getData ==
  /\ pos < MaxReads
  /\ IF reply = NoReply THEN astray("reply")
     ELSE IF reply.kind # "string" /\ pos >= Len(reply.elements) THEN astray("element")
     ELSE read([how |-> "all", value |-> IF Part(pos + 1) = NilStr THEN << >> ELSE Part(pos + 1)])
  /\ UNCHANGED readVars

\* What an istringstream of the string extracts: after blanks, up to a blank or
\* to the NUL that ends a C string.
FirstWord(s) ==
  LET first == Min({k \in 1 .. Len(s) + 1 : k = Len(s) + 1 \/ s[k] # SPACE})
      end == Min({k \in first .. Len(s) + 1 : k = Len(s) + 1 \/ s[k] \in {SPACE, NUL}})
  IN  SubSeq(s, first, end - 1)

\* A string is the first word; a number as many bytes as its type has, of the
\* string and the NUL behind it.
taken(size, str) ==
  IF size = 0 THEN [how |-> "word", value |-> FirstWord(str)]
  ELSE IF size > Len(str) + 1 THEN [how |-> "past", value |-> << >>]
  ELSE [how |-> "number", value |-> SubSeq(Append(str, NUL), 1, size)]

\* Both operators >> look at the count, and read no more when all is read; a
\* number is then what its variable happened to hold.  Neither looks for a
\* missing string.
extract(size) ==
  /\ pos < MaxReads
  /\ IF reply = NoReply THEN astray("reply")
     ELSE /\ pos < getRowCount
          /\ IF Part(pos + 1) = NilStr THEN astray("nil") ELSE read(taken(size, Part(pos + 1)))
  /\ UNCHANGED readVars

RedisNext ==
  /\ misused = "none"
  /\ \/ DBInterfaceRedis_connect \/ detach \/ ping \/ execute \/ getData
     \/ \E w \in Words : append(w)
     \/ \E size \in Sizes : extract(size)

RedisSpec == RedisInit /\ [][RedisNext]_redisVars

----------------------------------------------------------------------------
\* What goes out is the command and its parameters, byte for byte, also when it
\* was executed before it got more of them; a lone command goes out as the words
\* redisCommand makes of it, however often it was executed.
SendsWhatWasPushed ==
  /\ onWire.of = 1 => onWire.words = Formatted(pushedWords[1])
  /\ onWire.of > 1 => onWire.words = SubSeq(pushedWords, 1, onWire.of)

\* The reads follow the parts of this reply in order.  getData returns the part,
\* nothing for a nil; operator>> the part if it has neither blank nor NUL and
\* less of it otherwise, or the first bytes, past its end only for a type that
\* is longer.
ReadsTheReply ==
  /\ Len(readBack) = pos
  /\ \A k \in 1 .. pos :
       LET how == readBack[k].how
           value == readBack[k].value
           part == Part(k)
           blank == \E i \in 1 .. Len(part) : part[i] \in {SPACE, NUL}
       IN  /\ reply.kind # "string" => k <= Len(reply.elements)
           /\ how = "all" => value = IF part = NilStr THEN << >> ELSE part
           /\ how = "word" => IF blank THEN Len(value) < Len(part) ELSE value = part
           /\ how = "number" => IsPrefix(value, Append(part, NUL))
           /\ how = "past" => \E size \in Sizes : size > Len(part) + 1
           /\ how # "all" => part # NilStr /\ (reply.kind = "string" => k = 1)

\* Memory is misused only by a lone command with a conversion, a read of a
\* result without reply, a getData after the last element (an integer or nil has
\* none), and operator>> on an element without string.
MisusedOnlyBy ==
  /\ misused = "format" => Len(pushedWords) = 1 /\ Converts(pushedWords[1])
  /\ misused = "reply" => reply = NoReply
  /\ misused = "element" => reply.kind # "string" /\ pos >= Len(reply.elements)
  /\ misused = "nil" => reply.kind # "string" /\ reply.elements[pos + 1] = NilStr

\* A reply is freed once, with its result.
RepliesFreed == replies = IF reply = NoReply THEN 0 ELSE 1

\* Nobody connects again: after one failure no execution succeeds.
NoReconnect == broken /\ m_context # "null" => m_context = "err"

\* Commands and replies of the redis interface.
RedisSound == SendsWhatWasPushed /\ ReadsTheReply /\ MisusedOnlyBy /\ RepliesFreed /\ NoReconnect
=============================================================================
