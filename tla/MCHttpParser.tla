---------------------------- MODULE MCHttpParser ----------------------------
(***************************************************************************)
(* Messages for HttpParser, their pieces, and what a receiver expects of   *)
(* them, for TLC.                                                          *)
(***************************************************************************)
EXTENDS HttpParser

-----------------------------------------------------------------------------
(***************************************************************************)
(* URLs by their parts                                                     *)
(***************************************************************************)
NoPart == [f \in Fields |-> <<>>]
Letters(n) == [i \in 1 .. n |-> "x"]
Path == [NoPart EXCEPT !["PATH"] = <<"/", "x">>]
Url == [path     |-> Path,
        star     |-> [NoPart EXCEPT !["PATH"] = <<"*">>],
        query    |-> [Path EXCEPT !["QUERY"] = <<"a", "=", "?">>, !["FRAGMENT"] = <<"b">>],
        absolute |-> [Path EXCEPT !["SCHEMA"] = <<"h">>, !["HOST"] = <<"a", ".", "b">>,
                                  !["PORT"] = <<"8", "0">>],
        user     |-> [NoPart EXCEPT !["SCHEMA"] = <<"h">>, !["USERINFO"] = <<"x", ":">>,
                                    !["HOST"] = <<"a">>, !["QUERY"] = <<"y">>],
        v6       |-> [NoPart EXCEPT !["SCHEMA"] = <<"h">>, !["HOST"] = <<":", "1">>,
                                    !["PATH"] = <<"/">>],
        port     |-> [Path EXCEPT !["SCHEMA"] = <<"h">>, !["HOST"] = <<"a">>,
                                  !["PORT"] = <<"9", "9">>],
        authority |-> [NoPart EXCEPT !["HOST"] = <<"h">>, !["PORT"] = <<"8">>],
        \* beyond 16 bits: the path, the host, the user name, the offset of the port
        long_path |-> [NoPart EXCEPT !["PATH"] = <<"/">> \o Letters(17), !["QUERY"] = <<"a">>],
        long_host |-> [Path EXCEPT !["SCHEMA"] = <<"h">>, !["HOST"] = Letters(17)],
        long_user |-> [Path EXCEPT !["SCHEMA"] = <<"h">>, !["USERINFO"] = Letters(16), !["HOST"] = <<"a">>],
        late_port |-> [Path EXCEPT !["SCHEMA"] = <<"h">>, !["HOST"] = Letters(11), !["PORT"] = <<"8">>]]

If(part, before, after) == IF part = <<>> THEN <<>> ELSE before \o part \o after

\* The parts of a URL and what stands between them, in order.
Pieces(name) ==
  LET u == Url[name]
      part(f) == <<[f |-> f, text |-> u[f]]>>
      sign(t) == <<[f |-> "none", text |-> t]>>
      host == IF name = "v6" THEN sign(<<"[">>) \o part("HOST") \o sign(<<"]">>) ELSE part("HOST")
      when(f, q) == IF u[f] = <<>> THEN <<>> ELSE q
  IN  when("SCHEMA", part("SCHEMA") \o sign(<<":", "/", "/">>))
      \o when("USERINFO", part("USERINFO") \o sign(<<"@">>)) \o host
      \o when("PORT", sign(<<":">>) \o part("PORT")) \o part("PATH")
      \o when("QUERY", sign(<<"?">>) \o part("QUERY"))
      \o when("FRAGMENT", sign(<<"#">>) \o part("FRAGMENT"))

Text(pieces) == FlattenSeq([i \in DOMAIN pieces |-> pieces[i].text])
UrlBytes(name) == Text(Pieces(name))

\* Where a part begins, if the URL has it.
Offset(name, f) ==
  LET at == CHOOSE i \in DOMAIN Pieces(name) : Pieces(name)[i].f = f
  IN  Len(Text(SubSeq(Pieces(name), 1, at - 1)))

\* The user name, the host and the port, which are found in two steps, fit
\* into 16 bits.
Authority == {"USERINFO", "HOST", "PORT"}
AuthorityFits(name) ==
  Url[name]["HOST"] # <<>> =>
    LET first == IF Url[name]["USERINFO"] # <<>> THEN "USERINFO" ELSE "HOST"
        last == IF Url[name]["PORT"] # <<>> THEN "PORT" ELSE "HOST"
    IN  Offset(name, last) + Len(Url[name][last]) - Offset(name, first) < Range16

Fits(name, f) ==
  /\ Offset(name, f) < Range16 /\ Len(Url[name][f]) < Range16
  /\ f \in Authority => AuthorityFits(name)

-----------------------------------------------------------------------------
(***************************************************************************)
(* Messages                                                                *)
(***************************************************************************)
Method == [GET |-> <<"G", "ET">>, GET_PARAMETER |-> <<"G", "ET", "_PARAMETER">>,
           HEAD |-> <<"H", "E", "AD">>, POST |-> <<"P", "OST">>, CONNECT |-> <<"C", "ONNECT">>,
           SOURCE |-> <<"S", "OURCE">>, BREW |-> <<"B", "REW">>]

CRLF == <<"CR", "LF">>
ContentLength(v) == <<"c", "o", "n", "t", "ent-", "length", ":", "SP">> \o v \o CRLF
TransferEncoding(v) == <<"t", "ransfer-", "encoding", ":", "SP">> \o v \o CRLF

\* How the message says how long its body is.
Framing ==
  [none     |-> <<>>,
   cl0      |-> ContentLength(<<"0">>),
   cl2      |-> ContentLength(<<"2">>),
   empty    |-> ContentLength(<<>>),
   overflow |-> ContentLength(<<"2", "6">>),
   letter   |-> ContentLength(<<"1", "SP", "1">>),
   twice    |-> ContentLength(<<"2">>) \o ContentLength(<<"2">>),
   both     |-> ContentLength(<<"2">>) \o TransferEncoding(<<"chun", "ked">>),
   chunked  |-> TransferEncoding(<<"chun", "ked">>),
   last     |-> TransferEncoding(<<"x", ",", "SP", "chun", "ked">>),
   notlast  |-> TransferEncoding(<<"chun", "ked", ",", "x">>),
   replaced |-> TransferEncoding(<<"chun", "ked">>) \o TransferEncoding(<<"chun", "y">>)]

Chunked == {"chunked", "last"}
Chunks == <<"2", "CR", "LF", "x", "LF", "CR", "LF", "1", "SP", "x", "CR", "LF", "y", "CR", "LF", "0", "CR", "LF">>
Content(m) == CASE m.framing = "cl2" -> <<"y", "CR">>
                [] m.framing \in Chunked -> <<"x", "LF", "y">>
                [] OTHER -> <<>>

Option == [close |-> <<"c", "lo", "se">>, keep |-> <<"k", "eep-", "alive">>,
           upgrade |-> <<"u", "pg", "rade">>, other |-> <<"c", "lo", "x">>]

\* Connection options, separated by commas; none is no header at all.
Connection(opts) ==
  If(FlattenSeq([i \in DOMAIN opts |-> Option[opts[i]] \o (IF i < Len(opts) THEN <<",", "SP">> ELSE <<>>)]),
     <<"c", "o", "n", "n", "ec", "tion", "SP", ":">>, CRLF)

\* A header that begins like Connection and one whose value is folded.
OtherHeaders == <<"c", "o", "x", ":", "SP", "chun", "ked", "CR", "LF", "SP", "x", "CR", "LF">>

Line(m) ==
  CASE m.status # <<>> -> <<"H", "T", "TP/", "1", ".", "1", "SP">> \o m.status \o <<"SP", "x">>
    [] m.version = "0.9" -> Method[m.method] \o <<"SP">> \o UrlBytes(m.url)
    [] OTHER -> Method[m.method] \o <<"SP">> \o UrlBytes(m.url)
                \o <<"SP", "H", "T", "TP/">> \o (IF m.version = "1.1" THEN <<"1", ".", "1">> ELSE <<"1", ".", "0">>)

MCEncode(m) ==
  Line(m) \o CRLF \o Connection(m.options) \o (IF m.upgrade THEN <<"u", "pg", "rade", ":", "x", "CR", "LF">> ELSE <<>>)
  \o (IF m.other THEN OtherHeaders ELSE <<>>) \o Framing[m.framing] \o CRLF
  \o (IF m.framing \in Chunked \union {"both"} THEN Chunks \o m.trailer \o CRLF ELSE Content(m))
  \o (IF m.blank THEN CRLF ELSE <<>>)

Get == [status |-> <<>>, method |-> "GET", url |-> "path", version |-> "1.1", options |-> <<>>,
        upgrade |-> FALSE, other |-> FALSE, framing |-> "none", trailer |-> <<>>, blank |-> FALSE]

-----------------------------------------------------------------------------
(***************************************************************************)
(* What a receiver expects                                                 *)
(***************************************************************************)
InSeq(x, q) == \E i \in DOMAIN q : q[i] = x

IsResponse(m) == m.status # <<>>
NoBodyStatus(m) == m.status \in {<<"1", "0", "1">>, <<"2", "0", "4">>}

\* The head is not a message of HTTP, or does not say where it ends.
Malformed(m) ==
  \/ m.method \in {"BREW", "GET_PARAMETER"}
  \/ m.framing \in {"empty", "overflow", "letter", "twice", "both"}
  \/ m.framing \in {"notlast", "replaced"} /\ ~ IsResponse(m)

BadUrl(m) == ~ IsResponse(m) /\ m.url \in {"port", "authority", "long_user"}

Upgrades(m) ==
  IF m.upgrade /\ InSeq("upgrade", m.options)
  THEN ~ IsResponse(m) \/ m.status = <<"1", "0", "1">>
  ELSE m.method = "CONNECT"

\* The body lasts until the connection is closed.
UntilEof(m) ==
  /\ IsResponse(m) /\ ~ Upgrades(m)
  /\ m.framing \in {"notlast", "replaced"} \/ (m.framing = "none" /\ ~ NoBodyStatus(m))

KeepsAlive(m) ==
  IF m.version = "1.1" THEN ~ InSeq("close", m.options) ELSE InSeq("keep", m.options)

Event(cb, data) == [cb |-> cb, data |-> data]

\* tail is what follows the head of a body that lasts until the end.
Expected(m, tail) ==
  <<Event("on_message_begin", <<>>)>>
  \o (IF IsResponse(m) \/ m.method = "BREW" THEN <<>> ELSE <<Event("on_url", UrlBytes(m.url))>>)
  \o (IF BadUrl(m) \/ Malformed(m) THEN <<>>
      ELSE IF UntilEof(m) THEN (IF tail = <<>> THEN <<>> ELSE <<Event("on_body", tail)>>)
      ELSE (IF Content(m) = <<>> \/ m.method = "CONNECT" THEN <<>> ELSE <<Event("on_body", Content(m))>>)
           \o <<Event("on_message_complete",
                  <<IF KeepsAlive(m) THEN "keep-alive" ELSE "close",
                    IF Upgrades(m) THEN "upgrade" ELSE "http">>)>>)

\* Nothing after this message is read as a message.
Stops(m) == BadUrl(m) \/ Malformed(m) \/ Upgrades(m) \/ UntilEof(m)

\* The messages of the stream that are read as such.
Seen == LET stops == {i \in DOMAIN stream : Stops(stream[i])}
        IN  IF stops = {} THEN stream ELSE SubSeq(stream, 1, CHOOSE i \in stops : \A j \in stops : i <= j)

Tail_ == (IF Last(Seen).blank THEN CRLF ELSE <<>>)
         \o Bytes(SubSeq(stream, Len(Seen) + 1, Len(stream)))
AllEvents == FlattenSeq([i \in DOMAIN Seen |-> Expected(Seen[i], Tail_)])

-----------------------------------------------------------------------------
(***************************************************************************)
(* Properties                                                              *)
(***************************************************************************)

\* However the stream is cut into calls of parser(), the callbacks are those
\* of the messages in it: each message begins once, its URL and its body are
\* handed over piece for piece, and it is complete once, with the connection
\* and upgrade it asks for.  Nothing is reported of a message beyond the
\* point at which its head turns out to be malformed.
CallbacksExact ==
  LET log == m_parser.log
      all == AllEvents
  IN  ~cut =>
        /\ Len(log) <= Len(all)
        /\ \A i \in DOMAIN log :
             \/ log[i] = all[i]
             \/ /\ i = Len(log) /\ log[i].cb = "on_body" /\ all[i].cb = "on_body"
                /\ IsPrefix(log[i].data, all[i].data)
        /\ rest = <<>> => log = all

\* parser() fails for a malformed message, for a URL that ParseUrl rejects and
\* after a message that changes the protocol, each with its own error, and for
\* nothing else.
ErrorsExact ==
  (rest = <<>> /\ ~cut) =>
    LET m == Last(Seen)
    IN  CASE BadUrl(m)    -> m_parser.error = "INTERNAL"
          [] Malformed(m) -> m_parser.error \notin {"OK", "INTERNAL", "PAUSED_UPGRADE"}
          [] Upgrades(m)  -> m_parser.error = "PAUSED_UPGRADE"
          [] OTHER        -> m_parser.error = "OK"

\* HttpParser::parser reports the messages of the stream, and what is wrong with
\* them.
ParsedExactly == CallbacksExact /\ ErrorsExact

\* The ParseUrl of the connection, which is used for message after message,
\* shows the parts of the last URL: exactly the fields it has, each where it is,
\* as far as uint16_t offsets and lengths can say it (http_parser.cpp:2351-2483).
\* A part beyond them is shown elsewhere, but never outside the URL, and an
\* authority beyond them is split after the length modulo 2^16.
UrlParts ==
  LET urls == {i \in DOMAIN m_parser.log : m_parser.log[i].cb = "on_url"}
      messages == {i \in DOMAIN m_parser.log : m_parser.log[i].cb = "on_message_begin"}
      name == stream[Cardinality(urls)].url
      url == m_parser.url
  IN  (~cut /\ urls # {} /\ Cardinality(urls) = Cardinality(messages) /\ m_parser.error = "OK") =>
        /\ AuthorityFits(name) => url.field_set = {f \in Fields : Url[name][f] # <<>>}
        /\ \A f \in url.field_set :
             /\ Url[name][f] # <<>> /\ Fits(name, f) => View(url, f) = Url[name][f]
             /\ url.off[f] + url.len[f] <= Len(url.m_buff)

\* Between two messages the parser keeps nothing of the last one that would
\* show in the next: no flag, no length, no partial match, no open span.
BetweenMessages ==
  (m_parser.cur = "start" /\ m_parser.error = "OK") =>
    m_parser.flags = {} /\ m_parser.content_length = 0 /\ m_parser.word = <<>> /\ m_parser.cb = "none"

\* The end of the input is accepted by llhttp_finish exactly between messages
\* (or between the empty lines after one) and in a body that lasts until then.
EndOfInput ==
  (~cut /\ m_parser.error = "OK") =>
    LET done == Len(Bytes(stream)) - Len(rest)
        after(k) == Len(Bytes(SubSeq(stream, 1, k)))
        between == \E k \in 0 .. Len(Seen) :
                     \/ done = after(k)
                     \/ k > 0 /\ stream[k].blank /\ done \in after(k) - 2 .. after(k)
        head == Len(Bytes(Seen)) - (IF Last(Seen).blank THEN 2 ELSE 0)
    IN  CASE UntilEof(Last(Seen)) /\ done >= head -> llhttp_finish(m_parser) = "MESSAGE_COMPLETE"
          [] between -> llhttp_finish(m_parser) = "OK"
          [] OTHER -> llhttp_finish(m_parser) = "INVALID_EOF_STATE"

\* llhttp knows where a message ends, for the next one and for the end.
BoundariesClean == BetweenMessages /\ EndOfInput

-----------------------------------------------------------------------------
(***************************************************************************)
(* The streams                                                             *)
(***************************************************************************)
Requests ==
  {[Get EXCEPT !.url = u] : u \in DOMAIN Url}
  \union {[Get EXCEPT !.method = m, !.version = v] : m \in DOMAIN Method, v \in {"1.0", "1.1"}}
  \union {[Get EXCEPT !.method = "CONNECT", !.url = "authority"]}
  \union {[Get EXCEPT !.version = v, !.options = o, !.upgrade = b, !.framing = f] :
             v \in {"1.1", "1.0"}, b \in BOOLEAN, f \in {"none", "cl2", "chunked"},
             o \in {<<>>, <<"close">>, <<"keep">>, <<"other">>, <<"keep", "upgrade">>,
                    <<"other", "close">>}}
  \union {[Get EXCEPT !.method = "POST", !.framing = f, !.other = o, !.version = "1.1"] :
             f \in DOMAIN Framing, o \in BOOLEAN}
  \union {[Get EXCEPT !.version = "0.9", !.options = o, !.framing = "cl2"] : o \in {<<>>, <<"keep">>}}

Responses ==
  {[Get EXCEPT !.status = c, !.method = "DELETE", !.framing = f, !.upgrade = b,
               !.options = IF b THEN <<"upgrade">> ELSE <<>>] :
     c \in {<<"2", "0", "0">>, <<"2", "0", "4">>, <<"1", "0", "1">>},
     f \in DOMAIN Framing, b \in BOOLEAN}

Followers ==
  {[Get EXCEPT !.url = "user", !.options = <<"close">>],
   [Get EXCEPT !.method = "POST", !.framing = "cl2", !.blank = TRUE],
   [Get EXCEPT !.framing = "chunked", !.trailer = <<"c", "x", ":", "x", "CR", "LF">>],
   [Get EXCEPT !.method = "HEAD", !.url = "absolute", !.version = "1.0", !.options = <<"keep">>]}

MCStreams ==
  {[type |-> "REQUEST", messages |-> <<r>>] : r \in Requests}
  \union {[type |-> "REQUEST", messages |-> <<r, f>>] : r \in Followers, f \in Followers}
  \union {[type |-> "RESPONSE", messages |-> <<r, f>>] : r \in Responses, f \in {[Get EXCEPT !.status = <<"2", "0", "4">>, !.method = "DELETE"]}}
  \union {[type |-> "BOTH", messages |-> <<r>>] : r \in Followers \union {[Get EXCEPT !.status = <<"2", "0", "4">>, !.method = "DELETE"]}}
=============================================================================
