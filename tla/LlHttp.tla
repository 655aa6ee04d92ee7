------------------------------- MODULE LlHttp -------------------------------
(***************************************************************************)
(* The HTTP parser: llhttp (src/src/utils/llhttp.c with LLHTTP_STRICT_MODE *)
(* 0, http.c, api.c) as HttpParser uses it (src/src/utils/HttpParser.cpp). *)
(*                                                                         *)
(* llhttp is a generated automaton that may be given its input in any      *)
(* number of calls of llhttp_execute.  The model keeps its states, their   *)
(* names and the order of its actions.  The input is a sequence of pieces: *)
(* a character that the automaton tells apart is a piece, and a constant   *)
(* that it matches as a whole (llparse_blob1 ...) is two or three, so that *)
(* a call may end inside of it.  A state that looks at its character       *)
(* without consuming it and goes on is an operator that applies the next   *)
(* one.  The parser is the record s; see New.                              *)
(*                                                                         *)
(* on_url is the only callback that HttpParser sets, so all others return  *)
(* 0 and the pauses and callback errors of the automaton do not occur.     *)
(* The callbacks' calls are recorded in s.log.                             *)
(***************************************************************************)
EXTENDS ParseUrl, FiniteSets, TLC

CONSTANTS
  ULLONG_MAX,  \* largest content_length (2^64 - 1)
  MaxPort      \* largest port (0xffff)

ASSUME LlHttpAssumption == ULLONG_MAX \in Nat /\ MaxPort \in Nat

-----------------------------------------------------------------------------
(***************************************************************************)
(* Classes of pieces                                                       *)
(***************************************************************************)
CTL == {"NUL", "CR", "LF"}
Separators == CTL \union {"TAB", ":", ",", "/", ";", "?", "@", "="}
HexDigits == IS_NUM \union {"a", "b", "c"}
HexValue(c) == CASE c = "a" -> 10 [] c = "b" -> 11 [] c = "c" -> 12 [] OTHER -> Digit(c)
ServerChars == IS_USERINFO_CHAR \union {"[", "]"}

\* llhttp_init after llhttp__internal_init: everything is zero but the type.
New(type, url) ==
  [cur |-> "start", word |-> <<>>, cb |-> "none", span |-> <<>>, type |-> type,
   method |-> "DELETE", http_major |-> 0, http_minor |-> 0, status_code |-> 0,
   header_state |-> "general", flags |-> {}, content_length |-> 0, upgrade |-> FALSE,
   finish |-> "SAFE", error |-> "OK", url |-> url, log |-> <<>>]

-----------------------------------------------------------------------------
(***************************************************************************)
(* Steps                                                                   *)
(***************************************************************************)

\* p++ and goto q.  Inside a span the piece belongs to the span.
Eat(s, c, q) ==
  [s EXCEPT !.cur = q, !.span = IF s.cb = "none" THEN <<>> ELSE Append(@, c)]

Err(s, e) == [s EXCEPT !.error = e, !.cur = "error"]

SpanStart(s, cb) == [s EXCEPT !.cb = cb, !.span = <<>>]

\* The callbacks of the user.  Calls of on_body that follow each other are one
\* entry of the log: the receiver sees a stream of bytes.
Called(s, cb, data) ==
  CASE cb = "on_body" /\ s.log # <<>> /\ Last(s.log).cb = cb ->
         [s EXCEPT !.log[Len(s.log)].data = @ \o data]
    [] cb \in {"on_body", "on_message_begin", "on_message_complete"} ->
         [s EXCEPT !.log = Append(@, [cb |-> cb, data |-> data])]
    [] OTHER -> s

\* on_url of HttpSettings parses the URL; its result is the parser's error.
on_url(s, data) ==
  LET Parsed(r) ==
        [s EXCEPT !.url = r.u, !.error = IF r.err THEN "INTERNAL" ELSE @,
                  !.log = Append(@, [cb |-> "on_url", data |-> data])]
  IN  Parsed(parse(s.url, data, MaxPort))

SpanEnd(s) == [Called(s, s.cb, s.span) EXCEPT !.cb = "none", !.span = <<>>]

\* llparse__match_sequence: the pieces of blob one by one.  Done is applied
\* after the last, Mismatch to the piece that differs; both start over.
Match(s, c, blob, Done(_), Mismatch(_)) ==
  LET w == Append(s.word, c)
      clear == [s EXCEPT !.word = <<>>]
  IN  CASE w = blob -> Done(Eat(clear, c, s.cur))
        [] IsStrictPrefix(w, blob) -> [Eat(s, c, s.cur) EXCEPT !.word = w]
        [] OTHER -> Mismatch(clear)

\* c_mul_add_content_length: content_length * base + d, or an overflow.
mul_add_content_length(s, base, d, Overflow(_), Then(_)) ==
  IF s.content_length > ULLONG_MAX \div base \/ s.content_length * base > ULLONG_MAX - d
  THEN Overflow(s)
  ELSE Then([s EXCEPT !.content_length = @ * base + d])

-----------------------------------------------------------------------------
(***************************************************************************)
(* http.c                                                                  *)
(***************************************************************************)
Has(s, f) == f \in s.flags
Set(s, f) == [s EXCEPT !.flags = @ \union {f}]

llhttp_message_needs_eof(s) ==
  /\ s.type # "REQUEST"
  /\ ~ (s.status_code \div 100 = 1 \/ s.status_code \in {204, 304} \/ Has(s, "SKIPBODY"))
  /\ \/ Has(s, "TRANSFER_ENCODING") /\ ~ Has(s, "CHUNKED")
     \/ ~ Has(s, "CHUNKED") /\ ~ Has(s, "CONTENT_LENGTH")

llhttp_should_keep_alive(s) ==
  /\ IF s.http_major > 0 /\ s.http_minor > 0
     THEN ~ Has(s, "CONNECTION_CLOSE")
     ELSE Has(s, "CONNECTION_KEEP_ALIVE")
  /\ ~ llhttp_message_needs_eof(s)

before_headers_complete(s) ==
  [s EXCEPT !.upgrade =
     IF Has(s, "UPGRADE") /\ Has(s, "CONNECTION_UPGRADE")
     THEN s.type = "REQUEST" \/ s.status_code = 101
     ELSE s.method = "CONNECT"]

after_headers_complete(s) ==
  LET hasBody == Has(s, "CHUNKED") \/ s.content_length > 0
  IN  CASE s.upgrade /\ (s.method = "CONNECT" \/ Has(s, "SKIPBODY") \/ ~hasBody) -> 1
        [] Has(s, "SKIPBODY") -> 0
        [] Has(s, "CHUNKED") -> 2
        [] Has(s, "TRANSFER_ENCODING") -> IF s.type = "REQUEST" THEN 5 ELSE 4
        [] ~ Has(s, "CONTENT_LENGTH") -> IF llhttp_message_needs_eof(s) THEN 4 ELSE 0
        [] OTHER -> IF s.content_length = 0 THEN 0 ELSE 3

-----------------------------------------------------------------------------
(***************************************************************************)
(* The end of a message                                                    *)
(***************************************************************************)

\* Fault: the flags are kept.
after_message_complete_KeepFlags(s) == [s EXCEPT !.finish = "SAFE", !.cur = "start"]

\* llhttp__after_message_complete, update_finish_1, goto start.
after_message_complete(s) == [s EXCEPT !.finish = "SAFE", !.flags = {}, !.cur = "start"]

pause_1(s) == [s EXCEPT !.error = "PAUSED_UPGRADE", !.cur = "after_message_complete"]

on_message_complete(s) ==
  Called(s, "on_message_complete",
         <<IF llhttp_should_keep_alive(s) THEN "keep-alive" ELSE "close",
           IF s.upgrade THEN "upgrade" ELSE "http">>)

on_message_complete_2(s) ==
  LET t == on_message_complete(s)
  IN  IF t.upgrade THEN pause_1(t) ELSE after_message_complete(t)

-----------------------------------------------------------------------------
(***************************************************************************)
(* Bodies                                                                  *)
(***************************************************************************)
update_content_length(s) == [s EXCEPT !.content_length = 0, !.cur = "chunk_size_digit"]

\* on_chunk_complete, back to the next chunk.
chunk_data_almost_done_skip(s, c) == update_content_length(Eat(s, c, s.cur))
chunk_data_almost_done(s, c) == Eat(s, c, "chunk_data_almost_done_skip")

consume_content_length(s, c) ==
  LET t == [Eat(s, c, s.cur) EXCEPT !.content_length = @ - 1]
  IN  IF t.content_length = 0
      THEN [SpanEnd(t) EXCEPT !.cur = "chunk_data_almost_done"]
      ELSE t

span_start_on_body(s, c) ==
  consume_content_length([SpanStart(s, "on_body") EXCEPT !.cur = "consume_content_length"], c)

\* The last chunk is empty: trailers follow.
is_equal_content_length(s) ==
  IF s.content_length = 0
  THEN [Set(s, "TRAILING") EXCEPT !.cur = "header_field_start"]
  ELSE [s EXCEPT !.cur = "span_start_on_body"]

chunk_size_almost_done(s, c) == is_equal_content_length(Eat(s, c, s.cur))

chunk_parameters(s, c) ==
  Eat(s, c, IF c = "CR" THEN "chunk_size_almost_done" ELSE "chunk_parameters")

chunk_size_otherwise(s, c) ==
  CASE c = "CR" -> Eat(s, c, "chunk_size_almost_done")
    [] c \in {"SP", ";"} -> Eat(s, c, "chunk_parameters")
    [] OTHER -> Err(s, "INVALID_CHUNK_SIZE")

chunk_size_next(s, c) ==
  mul_add_content_length(Eat(s, c, "chunk_size"), 16, HexValue(c),
    LAMBDA t : Err(t, "INVALID_CHUNK_SIZE"), LAMBDA t : t)

chunk_size(s, c) ==
  IF c \in HexDigits THEN chunk_size_next(s, c) ELSE chunk_size_otherwise(s, c)

chunk_size_digit(s, c) ==
  IF c \in HexDigits THEN chunk_size_next(s, c) ELSE Err(s, "INVALID_CHUNK_SIZE")

consume_content_length_1(s, c) ==
  LET t == [Eat(s, c, s.cur) EXCEPT !.content_length = @ - 1]
  IN  IF t.content_length = 0 THEN on_message_complete_2(SpanEnd(t)) ELSE t

span_start_on_body_1(s, c) ==
  consume_content_length_1([SpanStart(s, "on_body") EXCEPT !.cur = "consume_content_length_1"], c)

eof(s, c) == Eat(s, c, "eof")
span_start_on_body_2(s, c) == eof(SpanStart(s, "on_body"), c)

-----------------------------------------------------------------------------
(***************************************************************************)
(* The end of the headers                                                  *)
(***************************************************************************)
invoke_after_headers_complete(s) ==
  LET r == after_headers_complete(s)
  IN  CASE r = 1 -> pause_1(on_message_complete(s))
        [] r = 2 -> update_content_length(s)
        [] r = 3 -> [s EXCEPT !.cur = "span_start_on_body_1"]
        [] r = 4 -> [s EXCEPT !.finish = "SAFE_WITH_CB", !.cur = "span_start_on_body_2"]
        [] r = 5 -> Err(s, "INVALID_TRANSFER_ENCODING")
        [] OTHER -> after_message_complete(on_message_complete(s))

\* test_flags: the trailers of a chunked body end here too.
test_flags(s) ==
  CASE Has(s, "TRAILING") -> on_message_complete_2(s)
    [] Has(s, "CONTENT_LENGTH") /\ Has(s, "TRANSFER_ENCODING") -> Err(s, "UNEXPECTED_CONTENT_LENGTH")
    [] OTHER -> invoke_after_headers_complete(before_headers_complete(s))

\* Whatever the piece is: after CR it is not compared with LF.
headers_almost_done(s, c) == test_flags(Eat(s, c, s.cur))

-----------------------------------------------------------------------------
(***************************************************************************)
(* Header fields                                                           *)
(***************************************************************************)
update_header_state(s, h) == [s EXCEPT !.header_state = h]

header_field_general_otherwise(s, c) ==
  IF c = ":" THEN Eat(SpanEnd(s), c, "header_value_discard_ws") ELSE Err(s, "INVALID_HEADER_TOKEN")

header_field_general(s, c) ==
  IF c \notin Separators
  THEN Eat(s, c, "header_field_general")
  ELSE header_field_general_otherwise(s, c)

\* update_header_state_9 and _10: the name is none of the known ones.
other_header(s, c) == header_field_general(update_header_state(s, "general"), c)

header_field_colon(s, c) ==
  CASE c = "SP" -> Eat(s, c, "header_field_colon")
    [] c = ":"  -> Eat(SpanEnd(s), c, "header_value_discard_ws")
    [] OTHER    -> other_header(s, c)

store_header_state(s, h) == [update_header_state(s, h) EXCEPT !.cur = "header_field_colon"]

HeaderName(s, c, blob, h) ==
  Match(s, c, blob, LAMBDA t : store_header_state(t, h), LAMBDA t : other_header(t, c))

header_field_3(s, c) == HeaderName(s, c, <<"ec", "tion">>, "connection")
header_field_4(s, c) == HeaderName(s, c, <<"ent-", "length">>, "content_length")

header_field_2(s, c) ==
  CASE c = "n" -> Eat(s, c, "header_field_3")
    [] c = "t" -> Eat(s, c, "header_field_4")
    [] OTHER   -> other_header(s, c)

header_field_1(s, c) ==
  Match(s, c, <<"o", "n">>, LAMBDA t : [t EXCEPT !.cur = "header_field_2"],
        LAMBDA t : other_header(t, c))

header_field_5(s, c) == HeaderName(s, c, <<"roxy-", "connection">>, "connection")
header_field_6(s, c) == HeaderName(s, c, <<"ransfer-", "encoding">>, "transfer_encoding")
header_field_7(s, c) == HeaderName(s, c, <<"pg", "rade">>, "upgrade")

header_field(s, c) ==
  CASE c = "c" -> Eat(s, c, "header_field_1")
    [] c = "p" -> Eat(s, c, "header_field_5")
    [] c = "t" -> Eat(s, c, "header_field_6")
    [] c = "u" -> Eat(s, c, "header_field_7")
    [] OTHER   -> other_header(s, c)

span_start_on_header_field(s, c) == header_field(SpanStart(s, "on_header_field"), c)

header_field_start(s, c) ==
  CASE c = "LF" -> headers_almost_done(s, c)
    [] c = "CR" -> Eat(s, c, "headers_almost_done")
    [] OTHER    -> span_start_on_header_field(s, c)

-----------------------------------------------------------------------------
(***************************************************************************)
(* Header values                                                           *)
(***************************************************************************)

\* load_header_state: what the value has said of the connection, or that
\* chunked was the last transfer coding, becomes a flag at its end.
or_flags(s) ==
  CASE s.header_state = "keep-alive" -> update_header_state(Set(s, "CONNECTION_KEEP_ALIVE"), "connection")
    [] s.header_state = "close"      -> update_header_state(Set(s, "CONNECTION_CLOSE"), "connection")
    [] s.header_state = "conn-upgrade" -> update_header_state(Set(s, "CONNECTION_UPGRADE"), "connection")
    [] s.header_state = "chunked"    -> Set(s, "CHUNKED")
    [] OTHER -> s

\* An empty value (a span of no pieces).
load_header_state(s, c) ==
  IF s.header_state = "content_length"
  THEN Err(s, "INVALID_CONTENT_LENGTH")
  ELSE header_field_start(or_flags(s), c)

header_value_discard_lws(s, c) ==
  IF c \in {"TAB", "SP"} THEN Eat(s, c, "header_value_discard_ws") ELSE load_header_state(s, c)

header_value_discard_ws_almost_done(s, c) == Eat(s, c, "header_value_discard_lws")

header_value_almost_done(s, c) ==
  IF c = "LF" THEN Eat(s, c, "header_value_lws") ELSE Err(s, "LF_EXPECTED")

header_value_otherwise(s, c) ==
  CASE c = "LF" -> header_value_almost_done(SpanEnd(s), c)
    [] c = "CR" -> Eat(SpanEnd(s), c, "header_value_almost_done")
    [] OTHER    -> Err(s, "INVALID_HEADER_TOKEN")

header_value_connection_token(s, c) ==
  CASE c = ","     -> Eat(s, c, "header_value_connection")
    [] c \in CTL   -> header_value_otherwise(s, c)
    [] OTHER       -> Eat(s, c, "header_value_connection_token")

\* Fault: the option before a comma is forgotten.
load_header_state_4_NoFlag(s, c) == Eat(s, c, "header_value_connection")

\* load_header_state_4: a comma ends a connection option.
load_header_state_4(s, c) == Eat(or_flags(s), c, "header_value_connection")

header_value_connection_ws(s, c) ==
  CASE c \in {"LF", "CR"} -> header_value_otherwise(s, c)
    [] c = "SP" -> Eat(s, c, "header_value_connection_ws")
    [] c = ","  -> load_header_state_4(s, c)
    [] OTHER    -> header_value_connection_token(update_header_state(s, "general"), c)

ConnectionOption(s, c, blob, h) ==
  Match(s, c, blob,
        LAMBDA t : [update_header_state(t, h) EXCEPT !.cur = "header_value_connection_ws"],
        LAMBDA t : header_value_connection_token(t, c))

header_value_connection_1(s, c) == ConnectionOption(s, c, <<"lo", "se">>, "close")
header_value_connection_2(s, c) == ConnectionOption(s, c, <<"eep-", "alive">>, "keep-alive")
header_value_connection_3(s, c) == ConnectionOption(s, c, <<"pg", "rade">>, "conn-upgrade")

header_value_connection(s, c) ==
  CASE c \in {"TAB", "SP"} -> Eat(s, c, "header_value_connection")
    [] c = "c" -> Eat(s, c, "header_value_connection_1")
    [] c = "k" -> Eat(s, c, "header_value_connection_2")
    [] c = "u" -> Eat(s, c, "header_value_connection_3")
    [] OTHER   -> header_value_connection_token(s, c)

header_value_content_length_ws(s, c) ==
  CASE c \in {"LF", "CR"} -> header_value_otherwise(Set(s, "CONTENT_LENGTH"), c)
    [] c = "SP" -> Eat(s, c, "header_value_content_length_ws")
    [] OTHER    -> Err(SpanEnd(s), "INVALID_CONTENT_LENGTH")

header_value_content_length(s, c) ==
  IF c \in IS_NUM
  THEN mul_add_content_length(Eat(s, c, "header_value_content_length"), 10, Digit(c),
         LAMBDA t : Err(SpanEnd(t), "INVALID_CONTENT_LENGTH"), LAMBDA t : t)
  ELSE header_value_content_length_ws(s, c)

header_value(s, c) ==
  IF c \in CTL THEN header_value_otherwise(s, c) ELSE Eat(s, c, "header_value")

header_value_te_token(s, c) ==
  CASE c = ","   -> Eat(s, c, "header_value_te_token_ows")
    [] c \in CTL -> header_value(update_header_state(s, "general"), c)
    [] OTHER     -> Eat(s, c, "header_value_te_token")

header_value_te_chunked(s, c) ==
  Match(s, c, <<"chun", "ked">>, LAMBDA t : [t EXCEPT !.cur = "header_value_te_chunked_last"],
        LAMBDA t : header_value_te_token([t EXCEPT !.cur = "header_value_te_token"], c))

header_value_te_chunked_last(s, c) ==
  CASE c \in {"LF", "CR"} -> header_value_otherwise(update_header_state(s, "chunked"), c)
    [] c = "SP" -> Eat(s, c, "header_value_te_chunked_last")
    [] OTHER    -> header_value_te_chunked([s EXCEPT !.cur = "header_value_te_chunked"], c)

header_value_te_token_ows(s, c) ==
  IF c \in {"TAB", "SP"}
  THEN Eat(s, c, "header_value_te_token_ows")
  ELSE header_value_te_chunked([s EXCEPT !.cur = "header_value_te_chunked"], c)

\* test_flags_2: there is a Content-Length already.
test_flags_2(s, c) ==
  IF Has(s, "CONTENT_LENGTH")
  THEN Err(s, "UNEXPECTED_CONTENT_LENGTH")
  ELSE header_value_content_length(s, c)

\* or_flags_16, and_flags: chunked counts only in the last Transfer-Encoding.
transfer_encoding(s, c) ==
  header_value_te_chunked(
    [s EXCEPT !.flags = (@ \union {"TRANSFER_ENCODING"}) \ {"CHUNKED"},
              !.cur = "header_value_te_chunked"], c)

load_header_state_2(s, c) ==
  CASE s.header_state = "connection"        -> header_value_connection(s, c)
    [] s.header_state = "content_length"    -> test_flags_2(s, c)
    [] s.header_state = "transfer_encoding" -> transfer_encoding(s, c)
    [] s.header_state = "upgrade" ->
         header_value(update_header_state(Set(s, "UPGRADE"), "general"), c)
    [] OTHER -> header_value(s, c)

span_start_on_header_value_1(s, c) == load_header_state_2(SpanStart(s, "on_header_value"), c)

\* A line that begins with white space continues the value.
header_value_lws(s, c) ==
  IF c \in {"TAB", "SP"}
  THEN span_start_on_header_value_1(s, c)
  ELSE header_field_start(or_flags(s), c)

header_value_discard_ws(s, c) ==
  CASE c \in {"TAB", "SP"} -> Eat(s, c, "header_value_discard_ws")
    [] c = "LF" -> Eat(s, c, "header_value_discard_lws")
    [] c = "CR" -> Eat(s, c, "header_value_discard_ws_almost_done")
    [] OTHER    -> span_start_on_header_value_1(s, c)

-----------------------------------------------------------------------------
(***************************************************************************)
(* The version of a request                                                *)
(***************************************************************************)
req_http_end_1(s, c) ==
  IF c = "LF" THEN Eat(s, c, "header_field_start") ELSE Err(s, "INVALID_VERSION")

req_http_end(s, c) ==
  CASE c = "LF" -> Eat(s, c, "header_field_start")
    [] c = "CR" -> Eat(s, c, "req_http_end_1")
    [] OTHER    -> Err(s, "INVALID_VERSION")

req_http_minor(s, c) ==
  IF c \in IS_NUM
  THEN [Eat(s, c, "req_http_end") EXCEPT !.http_minor = Digit(c)]
  ELSE Err(s, "INVALID_VERSION")

req_http_dot(s, c) ==
  IF c = "." THEN Eat(s, c, "req_http_minor") ELSE Err(s, "INVALID_VERSION")

req_http_major(s, c) ==
  IF c \in IS_NUM
  THEN [Eat(s, c, "req_http_dot") EXCEPT !.http_major = Digit(c)]
  ELSE Err(s, "INVALID_VERSION")

\* load_method, load_method_1, load_method_2: the methods each protocol has.
RtspOnly ==
  {"DESCRIBE", "ANNOUNCE", "SETUP", "PLAY", "PAUSE", "TEARDOWN", "GET_PARAMETER",
   "SET_PARAMETER", "REDIRECT", "RECORD", "FLUSH"}
load_method(s) == s.method \notin RtspOnly
load_method_1(s) == s.method = "SOURCE"
load_method_2(s) == s.method \in RtspOnly \union {"GET", "POST", "OPTIONS"}

Protocol(s, c, blob, allowed) ==
  Match(s, c, blob,
        LAMBDA t : IF allowed THEN [t EXCEPT !.cur = "req_http_major"] ELSE Err(t, "INVALID_CONSTANT"),
        LAMBDA t : Err(t, "INVALID_CONSTANT"))

req_http_start_1(s, c) == Protocol(s, c, <<"T", "TP/">>, load_method(s))
req_http_start_2(s, c) == Protocol(s, c, <<"C", "E/">>, load_method_1(s))
req_http_start_3(s, c) == Protocol(s, c, <<"T", "SP/">>, load_method_2(s))

req_http_start(s, c) ==
  CASE c = "SP" -> Eat(s, c, "req_http_start")
    [] c = "H"  -> Eat(s, c, "req_http_start_1")
    [] c = "I"  -> Eat(s, c, "req_http_start_2")
    [] c = "R"  -> Eat(s, c, "req_http_start_3")
    [] OTHER    -> Err(s, "INVALID_CONSTANT")

-----------------------------------------------------------------------------
(***************************************************************************)
(* The URL of a request                                                    *)
(***************************************************************************)

\* update_http_major, update_http_minor: a request line without a version.
http09(s) == [s EXCEPT !.http_major = 0, !.http_minor = 9, !.cur = "header_field_start"]

url_skip_to_http09(s, c) == http09(Eat(s, c, s.cur))
url_skip_lf_to_http09(s, c) ==
  Match(s, c, <<"CR", "LF">>, http09, LAMBDA t : Err(t, "INVALID_URL"))
url_skip_to_http(s, c) == Eat(s, c, "req_http_start")

\* span_end_llhttp__on_url_...: the callback may fail; the state then is set
\* to the one that follows, and the parser stops with the callback's error.
span_end_on_url(s, q) == [on_url(s, s.span) EXCEPT !.cb = "none", !.span = <<>>, !.cur = q]

url_end(s, c) ==
  LET After(t) == CASE t.error # "OK" -> t
                    [] c = "LF" -> url_skip_to_http09(t, c)
                    [] c = "CR" -> url_skip_lf_to_http09(t, c)
                    [] c = "SP" -> url_skip_to_http(t, c)
  IN  After(span_end_on_url(s, CASE c = "LF" -> "url_skip_to_http09"
                                 [] c = "CR" -> "url_skip_lf_to_http09"
                                 [] c = "SP" -> "url_skip_to_http"))

UrlText == {"TAB", "/", ":", "*", ",", ";", "@", "?"} \union IS_URL_CHAR

url_fragment(s, c) ==
  CASE c \in UrlText \union {"#"} -> Eat(s, c, "url_fragment")
    [] c \in {"LF", "CR", "SP"} -> url_end(s, c)
    [] OTHER -> Err(s, "INVALID_URL")

\* '#' is consumed by span_end_stub_query_3.
url_query(s, c) ==
  CASE c \in UrlText -> Eat(s, c, "url_query")
    [] c \in {"LF", "CR", "SP"} -> url_end(s, c)
    [] c = "#" -> Eat(s, c, "url_fragment")
    [] OTHER -> Err(s, "INVALID_URL")

url_query_or_fragment(s, c) ==
  CASE c \in {"LF", "CR", "SP"} -> url_end(s, c)
    [] c = "#" -> Eat(s, c, "url_fragment")
    [] c = "?" -> Eat(s, c, "url_query")
    [] OTHER   -> Err(s, "INVALID_URL")

url_path(s, c) ==
  IF c \in UrlText \ {"?"} THEN Eat(s, c, "url_path") ELSE url_query_or_fragment(s, c)

\* The first character of a path, whatever state found it.
span_start_stub_path(s, c) == Eat(s, c, "url_path")

\* The same from the states of the authority.
server_url_end(s, c) == url_end(s, c)

url_server_with_at(s, c) ==
  CASE c \in {"LF", "CR", "SP"} -> server_url_end(s, c)
    [] c \in ServerChars -> Eat(s, c, "url_server")
    [] c = "/" -> span_start_stub_path(s, c)
    [] c = "?" -> Eat(s, c, "url_query")
    [] OTHER   -> Err(s, "INVALID_URL")

url_server(s, c) ==
  CASE c \in {"LF", "CR", "SP"} -> server_url_end(s, c)
    [] c \in ServerChars -> Eat(s, c, "url_server")
    [] c = "/" -> span_start_stub_path(s, c)
    [] c = "?" -> Eat(s, c, "url_query")
    [] c = "@" -> Eat(s, c, "url_server_with_at")
    [] OTHER   -> Err(s, "INVALID_URL")

url_schema_delim_1(s, c) == IF c = "/" THEN Eat(s, c, "url_server") ELSE Err(s, "INVALID_URL")
url_schema_delim(s, c) == IF c = "/" THEN Eat(s, c, "url_schema_delim_1") ELSE Err(s, "INVALID_URL")

url_schema(s, c) ==
  CASE c \in IS_ALPHA -> Eat(s, c, "url_schema")
    [] c = ":"  -> Eat(s, c, "url_schema_delim")
    [] OTHER    -> Err(s, "INVALID_URL")

url_start(s, c) ==
  CASE c \in {"*", "/"} -> span_start_stub_path(s, c)
    [] c \in IS_ALPHA -> url_schema(s, c)
    [] OTHER -> Err(s, "INVALID_URL")

\* is_equal_method: the target of CONNECT is an authority.
is_equal_method(s, c) ==
  IF s.method = "CONNECT"
  THEN url_server(SpanStart(s, "on_url"), c)
  ELSE url_start(SpanStart(s, "on_url"), c)

req_spaces_before_url(s, c) ==
  IF c = "SP" THEN Eat(s, c, "req_spaces_before_url") ELSE is_equal_method(s, c)

req_first_space_before_url(s, c) ==
  IF c = "SP" THEN Eat(s, c, "req_spaces_before_url") ELSE Err(s, "INVALID_METHOD")

-----------------------------------------------------------------------------
(***************************************************************************)
(* The method: a trie, here the words it accepts, by first letter          *)
(***************************************************************************)
start_req_A == ("CL" :> "ACL") @@ ("NNOUNCE" :> "ANNOUNCE")
start_req_B == "IND" :> "BIND"
start_req_C == ("HECKOUT" :> "CHECKOUT") @@ ("ONNECT" :> "CONNECT") @@ ("OPY" :> "COPY")
start_req_D == ("ELETE" :> "DELETE") @@ ("ESCRIBE" :> "DESCRIBE")
start_req_F == "LUSH" :> "FLUSH"
start_req_G == "ET" :> "GET"
start_req_L == ("INK" :> "LINK") @@ ("OCK" :> "LOCK")
start_req_M == ("-SEARCH" :> "M-SEARCH") @@ ("ERGE" :> "MERGE")
start_req_MO == "OVE" :> "MOVE"
start_req_MK == ("KACTIVITY" :> "MKACTIVITY") @@ ("KCALENDAR" :> "MKCALENDAR") @@ ("KCOL" :> "MKCOL")
start_req_N == "OTIFY" :> "NOTIFY"
start_req_O == "PTIONS" :> "OPTIONS"
start_req_P == ("ATCH" :> "PATCH") @@ ("AUSE" :> "PAUSE") @@ ("LAY" :> "PLAY") @@ ("OST" :> "POST")
start_req_PR == ("ROPFIND" :> "PROPFIND") @@ ("ROPPATCH" :> "PROPPATCH")
start_req_PU ==
  ("RI" :> "PRI") @@ ("URGE" :> "PURGE") @@ ("UT" :> "PUT")
start_req_R ==
  ("EBIND" :> "REBIND") @@ ("ECORD" :> "RECORD") @@ ("EDIRECT" :> "REDIRECT") @@ ("EPORT" :> "REPORT")
start_req_S ==
  ("EARCH" :> "SEARCH") @@ ("ETUP" :> "SETUP") @@ ("ET_PARAMETER" :> "SET_PARAMETER")
start_req_SO == ("OURCE" :> "SOURCE") @@ ("UBSCRIBE" :> "SUBSCRIBE")
start_req_T == ("EARDOWN" :> "TEARDOWN") @@ ("RACE" :> "TRACE")
start_req_U == ("NBIND" :> "UNBIND") @@ ("NLINK" :> "UNLINK") @@ ("NLOCK" :> "UNLOCK")
start_req_UNS == "NSUBSCRIBE" :> "UNSUBSCRIBE"

Trie ==
  [A |-> start_req_A, B |-> start_req_B, C |-> start_req_C, D |-> start_req_D,
   F |-> start_req_F, G |-> start_req_G, L |-> start_req_L, M |-> start_req_M @@ start_req_MK @@ start_req_MO,
   N |-> start_req_N, O |-> start_req_O, P |-> start_req_P @@ start_req_PR @@ start_req_PU,
   R |-> start_req_R, S |-> start_req_S @@ start_req_SO, T |-> start_req_T,
   U |-> start_req_U @@ start_req_UNS]

store_method_1(s, m) ==
  [s EXCEPT !.method = m, !.word = <<>>, !.cur = "req_first_space_before_url"]

\* start_req_16: GET is a method, and the beginning of GET_PARAMETER.
start_req_16(s, c) ==
  IF c = "_PARAMETER"
  THEN store_method_1(Eat(s, c, s.cur), "GET_PARAMETER")
  ELSE req_first_space_before_url(store_method_1(s, "GET"), c)

start_req_18(s, c) ==
  Match(s, c, <<"E", "AD">>, LAMBDA t : store_method_1(t, "HEAD"), LAMBDA t : Err(t, "INVALID_METHOD"))

\* The rest of a method whose first letter, in s.word, has been consumed.
start_req_rest(s, c) ==
  LET words == Trie[s.word[1]]
  IN  CASE c \notin DOMAIN words -> Err(s, "INVALID_METHOD")
        [] words[c] = "GET" -> [Eat(s, c, "start_req_16") EXCEPT !.word = <<>>]
        [] OTHER -> store_method_1(Eat(s, c, s.cur), words[c])

start_req(s, c) ==
  CASE c = "H" -> Eat(s, c, "start_req_18")
    [] c \in DOMAIN Trie -> [Eat(s, c, "start_req_rest") EXCEPT !.word = <<c>>]
    [] OTHER -> Err(s, "INVALID_METHOD")

-----------------------------------------------------------------------------
(***************************************************************************)
(* Responses, and the choice between the two                               *)
(***************************************************************************)
res_line_almost_done(s, c) == Eat(s, c, "header_field_start")

res_status(s, c) ==
  CASE c = "LF" -> Eat(SpanEnd(s), c, "header_field_start")
    [] c = "CR" -> Eat(SpanEnd(s), c, "res_line_almost_done")
    [] OTHER    -> Eat(s, c, "res_status")

res_status_start(s, c) ==
  CASE c = "LF" -> Eat(s, c, "header_field_start")
    [] c = "CR" -> Eat(s, c, "res_line_almost_done")
    [] OTHER    -> res_status(SpanStart(s, "on_status"), c)

res_status_code_otherwise(s, c) ==
  CASE c \in {"LF", "CR"} -> res_status_start(s, c)
    [] c = "SP" -> Eat(s, c, "res_status_start")
    [] OTHER    -> Err(s, "INVALID_STATUS")

\* mul_add_status_code: at most three digits.
mul_add_status_code(s, d) ==
  LET t == [s EXCEPT !.status_code = @ * 10 + d]
  IN  IF t.status_code > 999 THEN Err(s, "INVALID_STATUS") ELSE t

res_status_code(s, c) ==
  IF c \in IS_NUM
  THEN mul_add_status_code(Eat(s, c, "res_status_code"), Digit(c))
  ELSE res_status_code_otherwise(s, c)

res_http_end(s, c) ==
  IF c = "SP"
  THEN [Eat(s, c, "res_status_code") EXCEPT !.status_code = 0]
  ELSE Err(s, "INVALID_VERSION")

res_http_minor(s, c) ==
  IF c \in IS_NUM
  THEN [Eat(s, c, "res_http_end") EXCEPT !.http_minor = Digit(c)]
  ELSE Err(s, "INVALID_VERSION")

res_http_dot(s, c) ==
  IF c = "." THEN Eat(s, c, "res_http_minor") ELSE Err(s, "INVALID_VERSION")

res_http_major(s, c) ==
  IF c \in IS_NUM
  THEN [Eat(s, c, "res_http_dot") EXCEPT !.http_major = Digit(c)]
  ELSE Err(s, "INVALID_VERSION")

start_res(s, c) ==
  Match(s, c, <<"H", "T", "TP/">>, LAMBDA t : [t EXCEPT !.cur = "res_http_major"],
        LAMBDA t : Err(t, "INVALID_CONSTANT"))

req_or_res_method_2(s, c) ==
  IF c = "AD"
  THEN [store_method_1(Eat(s, c, s.cur), "HEAD") EXCEPT !.type = "REQUEST"]
  ELSE Err(s, "INVALID_CONSTANT")

req_or_res_method_3(s, c) ==
  IF c = "TP/"
  THEN [Eat(s, c, "res_http_major") EXCEPT !.type = "RESPONSE"]
  ELSE Err(s, "INVALID_CONSTANT")

req_or_res_method_1(s, c) ==
  CASE c = "E" -> Eat(s, c, "req_or_res_method_2")
    [] c = "T" -> Eat(s, c, "req_or_res_method_3")
    [] OTHER   -> Err(s, "INVALID_CONSTANT")

\* update_type_2: anything but H begins a request.
start_req_or_res(s, c) ==
  IF c = "H"
  THEN Eat(s, c, "req_or_res_method_1")
  ELSE start_req([s EXCEPT !.type = "REQUEST", !.cur = "start_req"], c)

load_type(s, c) ==
  CASE s.type = "REQUEST"  -> start_req([s EXCEPT !.cur = "start_req"], c)
    [] s.type = "RESPONSE" -> start_res([s EXCEPT !.cur = "start_res"], c)
    [] OTHER               -> start_req_or_res([s EXCEPT !.cur = "start_req_or_res"], c)

\* Empty lines before a message are skipped.
start(s, c) ==
  IF c \in {"LF", "CR"}
  THEN Eat(s, c, "start")
  ELSE load_type(Called([s EXCEPT !.finish = "UNSAFE"], "on_message_begin", <<>>), c)

-----------------------------------------------------------------------------
(***************************************************************************)
(* llhttp__internal_execute                                                *)
(***************************************************************************)

\* One piece in the current state.
RunUrl(s, c) ==
  CASE s.cur = "req_first_space_before_url" -> req_first_space_before_url(s, c)
    [] s.cur = "req_spaces_before_url" -> req_spaces_before_url(s, c)
    [] s.cur = "url_schema" -> url_schema(s, c)
    [] s.cur = "url_schema_delim" -> url_schema_delim(s, c)
    [] s.cur = "url_schema_delim_1" -> url_schema_delim_1(s, c)
    [] s.cur = "url_server" -> url_server(s, c)
    [] s.cur = "url_server_with_at" -> url_server_with_at(s, c)
    [] s.cur = "url_path" -> url_path(s, c)
    [] s.cur = "url_query" -> url_query(s, c)
    [] s.cur = "url_fragment" -> url_fragment(s, c)
    [] s.cur = "url_skip_to_http09" -> url_skip_to_http09(s, c)
    [] s.cur = "url_skip_lf_to_http09" -> url_skip_lf_to_http09(s, c)
    [] s.cur = "url_skip_to_http" -> url_skip_to_http(s, c)

RunLine(s, c) ==
  CASE s.cur = "start" -> start(s, c)
    [] s.cur = "start_req_rest" -> start_req_rest(s, c)
    [] s.cur = "start_req_16" -> start_req_16(s, c)
    [] s.cur = "start_req_18" -> start_req_18(s, c)
    [] s.cur = "start_res" -> start_res(s, c)
    [] s.cur = "req_or_res_method_1" -> req_or_res_method_1(s, c)
    [] s.cur = "req_or_res_method_2" -> req_or_res_method_2(s, c)
    [] s.cur = "req_or_res_method_3" -> req_or_res_method_3(s, c)
    [] s.cur = "res_http_major" -> res_http_major(s, c)
    [] s.cur = "res_http_dot" -> res_http_dot(s, c)
    [] s.cur = "res_http_minor" -> res_http_minor(s, c)
    [] s.cur = "res_http_end" -> res_http_end(s, c)
    [] s.cur = "res_status_code" -> res_status_code(s, c)
    [] s.cur = "res_status_start" -> res_status_start(s, c)
    [] s.cur = "res_status" -> res_status(s, c)
    [] s.cur = "res_line_almost_done" -> res_line_almost_done(s, c)
    [] s.cur = "req_http_start" -> req_http_start(s, c)
    [] s.cur = "req_http_start_1" -> req_http_start_1(s, c)
    [] s.cur = "req_http_start_2" -> req_http_start_2(s, c)
    [] s.cur = "req_http_start_3" -> req_http_start_3(s, c)
    [] s.cur = "req_http_major" -> req_http_major(s, c)
    [] s.cur = "req_http_dot" -> req_http_dot(s, c)
    [] s.cur = "req_http_minor" -> req_http_minor(s, c)
    [] s.cur = "req_http_end" -> req_http_end(s, c)
    [] s.cur = "req_http_end_1" -> req_http_end_1(s, c)
    [] OTHER -> RunUrl(s, c)

RunHeader(s, c) ==
  CASE s.cur = "header_field_start" -> header_field_start(s, c)
    [] s.cur = "header_field_1" -> header_field_1(s, c)
    [] s.cur = "header_field_2" -> header_field_2(s, c)
    [] s.cur = "header_field_3" -> header_field_3(s, c)
    [] s.cur = "header_field_4" -> header_field_4(s, c)
    [] s.cur = "header_field_5" -> header_field_5(s, c)
    [] s.cur = "header_field_6" -> header_field_6(s, c)
    [] s.cur = "header_field_7" -> header_field_7(s, c)
    [] s.cur = "header_field_colon" -> header_field_colon(s, c)
    [] s.cur = "header_field_general" -> header_field_general(s, c)
    [] s.cur = "header_value_discard_ws" -> header_value_discard_ws(s, c)
    [] s.cur = "header_value_discard_ws_almost_done" -> header_value_discard_ws_almost_done(s, c)
    [] s.cur = "header_value_discard_lws" -> header_value_discard_lws(s, c)
    [] s.cur = "header_value" -> header_value(s, c)
    [] s.cur = "header_value_te_chunked" -> header_value_te_chunked(s, c)
    [] s.cur = "header_value_te_chunked_last" -> header_value_te_chunked_last(s, c)
    [] s.cur = "header_value_te_token" -> header_value_te_token(s, c)
    [] s.cur = "header_value_te_token_ows" -> header_value_te_token_ows(s, c)
    [] s.cur = "header_value_content_length" -> header_value_content_length(s, c)
    [] s.cur = "header_value_content_length_ws" -> header_value_content_length_ws(s, c)
    [] s.cur = "header_value_connection" -> header_value_connection(s, c)
    [] s.cur = "header_value_connection_1" -> header_value_connection_1(s, c)
    [] s.cur = "header_value_connection_2" -> header_value_connection_2(s, c)
    [] s.cur = "header_value_connection_3" -> header_value_connection_3(s, c)
    [] s.cur = "header_value_connection_ws" -> header_value_connection_ws(s, c)
    [] s.cur = "header_value_connection_token" -> header_value_connection_token(s, c)
    [] s.cur = "header_value_almost_done" -> header_value_almost_done(s, c)
    [] s.cur = "header_value_lws" -> header_value_lws(s, c)
    [] s.cur = "headers_almost_done" -> headers_almost_done(s, c)
    [] OTHER -> RunLine(s, c)

Run(s, c) ==
  CASE s.cur = "span_start_on_body" -> span_start_on_body(s, c)
    [] s.cur = "consume_content_length" -> consume_content_length(s, c)
    [] s.cur = "chunk_data_almost_done" -> chunk_data_almost_done(s, c)
    [] s.cur = "chunk_data_almost_done_skip" -> chunk_data_almost_done_skip(s, c)
    [] s.cur = "chunk_size_digit" -> chunk_size_digit(s, c)
    [] s.cur = "chunk_size" -> chunk_size(s, c)
    [] s.cur = "chunk_parameters" -> chunk_parameters(s, c)
    [] s.cur = "chunk_size_almost_done" -> chunk_size_almost_done(s, c)
    [] s.cur = "span_start_on_body_1" -> span_start_on_body_1(s, c)
    [] s.cur = "consume_content_length_1" -> consume_content_length_1(s, c)
    [] s.cur = "span_start_on_body_2" -> span_start_on_body_2(s, c)
    [] s.cur = "eof" -> eof(s, c)
    [] OTHER -> RunHeader(s, c)

\* A lingering error ends the call at once; an open span is restarted before
\* and handed to its callback after the run.
llhttp_execute(s, data) ==
  LET After(t) == CASE t.error # "OK" \/ t.cb = "none" -> t
                    [] t.cb = "on_url" -> [on_url(t, t.span) EXCEPT !.span = <<>>]
                    [] OTHER -> [Called(t, t.cb, t.span) EXCEPT !.span = <<>>]
  IN  IF s.error # "OK"
      THEN s
      ELSE After(FoldLeft(LAMBDA x, c : IF x.error # "OK" THEN x ELSE Run(x, c),
                          [s EXCEPT !.span = <<>>], data))

\* llhttp_finish: the result at the end of the input.
llhttp_finish(s) ==
  CASE s.error # "OK" \/ s.finish = "SAFE" -> "OK"
    [] s.finish = "SAFE_WITH_CB" -> "MESSAGE_COMPLETE"
    [] OTHER -> "INVALID_EOF_STATE"
=============================================================================
