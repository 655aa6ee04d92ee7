----------------------------- MODULE HttpParser -----------------------------
(***************************************************************************)
(* An HttpParser object (src/src/utils/HttpParser.cpp) fed with a stream   *)
(* of messages.  zero() makes the parser new and keeps its ParseUrl;       *)
(* parser(buf, len) is one call of llhttp_execute.  The stream is cut into *)
(* calls in any way.                                                       *)
(***************************************************************************)
EXTENDS LlHttp

CONSTANTS
  Streams,      \* sequences of messages that may arrive
  Encode(_),    \* the pieces of a message
  Reads         \* lengths of the pieces of input of one call

VARIABLES
  stream,  \* history: the messages that arrive
  type,    \* the type the parser is initialised with
  rest,    \* pieces that have not been parsed
  cut,     \* history: a call has ended inside a URL
  m_parser \* the object

vars == <<stream, type, rest, cut, m_parser>>

Bytes(st) == FlattenSeq([i \in DOMAIN st |-> Encode(st[i])])

Init ==
  \E x \in Streams :
    /\ stream = x.messages
    /\ type = x.type
    /\ rest = Bytes(x.messages)
    /\ cut = FALSE
    /\ m_parser = New(x.type, NewUrl)

\* HttpParser::parser with the next n pieces.
parser(n) ==
  /\ n <= Len(rest)
  /\ m_parser' = llhttp_execute(m_parser, SubSeq(rest, 1, n))
  /\ rest' = SubSeq(rest, n + 1, Len(rest))
  /\ cut' = (cut \/ m_parser'.cb = "on_url")
  /\ UNCHANGED <<stream, type>>

\* HttpParser::zero, between two messages.
zero ==
  /\ m_parser.error = "OK" /\ m_parser.cur = "start" /\ m_parser.log # <<>>
  /\ m_parser' = [New(type, m_parser.url) EXCEPT !.log = m_parser.log]
  /\ UNCHANGED <<stream, type, rest, cut>>

Next ==
  \/ \E n \in Reads : parser(n)
  \/ rest # <<>> /\ parser(Len(rest))
  \/ zero

Spec == Init /\ [][Next]_vars
=============================================================================
