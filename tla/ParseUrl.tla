------------------------------ MODULE ParseUrl ------------------------------
(***************************************************************************)
(* The URL parser: ParseUrl (src/src/utils/ParseUrl.cpp) on                *)
(* http_parser_parse_url (src/src/utils/http_parser.cpp).                  *)
(*                                                                         *)
(* A URL is a sequence of characters.  A ParseUrl object is the record     *)
(* [m_buff, field_set, off, len, port]: it is parsed into again and again  *)
(* while its connection lives, and http_parser_parse_url clears field_set  *)
(* and port but not the offsets and lengths of earlier fields.  Offsets    *)
(* and lengths are uint16_t; the length of the URL is not limited.         *)
(***************************************************************************)
EXTENDS Integers, Sequences, SequencesExt

CONSTANT Range16 \* number of values of a uint16_t

ASSUME Range16Assumption == Range16 \in Nat \ {0}

Fields == {"SCHEMA", "HOST", "PORT", "PATH", "QUERY", "FRAGMENT", "USERINFO"}

\* The classes of characters, over the characters the model uses.
IS_NUM == {"0", "1", "2", "3", "4", "5", "6", "7", "8", "9"}
IS_ALPHA == {"a", "b", "h", "x", "y"}
IS_HEX == IS_NUM \union {"a", "b"}
IS_ALPHANUM == IS_NUM \union IS_ALPHA
IS_USERINFO_CHAR == IS_ALPHANUM \union {"-", "_", ".", "*", "%", ";", ":", "&", "=", "+", ","}
IS_HOST_CHAR == IS_ALPHANUM \union {".", "-"}
IS_URL_CHAR ==
  IS_ALPHANUM \union {"-", "_", ".", "*", "%", ";", ":", "&", "=", "+", ",", "/", "@", "[", "]"}

Digit(c) == CHOOSE d \in 0 .. 9 : ToString(d) = c

\* *p - '0' as an unsigned long: what a character adds to the port.  A
\* truncated offset leads to characters that are no digits: those after "9",
\* and those before "0", whose value is above every port.
PortDigit(c, max) ==
  LET after9 == ":" :> 10 @@ ";" :> 11 @@ "=" :> 13 @@ "?" :> 15 @@ "@" :> 16 @@ "[" :> 43 @@ "]" :> 45
                @@ "_" :> 47 @@ "a" :> 49 @@ "b" :> 50 @@ "h" :> 56 @@ "x" :> 72 @@ "y" :> 73
  IN  CASE c \in IS_NUM -> Digit(c)
        [] c \in DOMAIN after9 -> after9[c]
        [] OTHER -> max + 1

\* Constructor: the object with http_parser_url_init.
NewUrl ==
  [m_buff |-> <<>>, field_set |-> {}, off |-> [f \in Fields |-> 0],
   len |-> [f \in Fields |-> 0], port |-> 0]

-----------------------------------------------------------------------------
\* The states of parse_url_char in which the authority of a URL is read.
InServer == {"server_start", "server", "server_with_at"}

\* parse_url_char: the state after character c in state s.
parse_url_char(s, c) ==
  CASE c \in {"SP", "CR", "LF"} -> "dead"
    [] s = "spaces_before_url" /\ c \in {"/", "*"} -> "path"
    [] s \in {"spaces_before_url", "schema"} /\ c \in IS_ALPHA -> "schema"
    [] s = "schema" /\ c = ":" -> "schema_slash"
    [] s = "schema_slash" /\ c = "/" -> "schema_slash_slash"
    [] s = "schema_slash_slash" /\ c = "/" -> "server_start"
    [] s = "server_with_at" /\ c = "@" -> "dead"
    [] s \in InServer /\ c = "/" -> "path"
    [] s \in InServer /\ c = "?" -> "query_string_start"
    [] s \in InServer \ {"server_with_at"} /\ c = "@" -> "server_with_at"
    [] s \in InServer /\ c \in IS_USERINFO_CHAR \union {"[", "]"} -> "server"
    [] s = "path" /\ c \in IS_URL_CHAR -> "path"
    [] s \in {"query_string_start", "query_string"} /\ c \in IS_URL_CHAR \union {"?"} -> "query_string"
    [] s = "path" /\ c = "?" -> "query_string_start"
    [] s \in {"path", "query_string_start", "query_string"} /\ c = "#" -> "fragment_start"
    [] s = "fragment_start" /\ c = "#" -> "fragment_start"
    [] s \in {"fragment_start", "fragment"} /\ c \in IS_URL_CHAR \union {"?", "#"} -> "fragment"
    [] OTHER -> "dead"

\* http_parse_host_char: the same for the characters of the authority.
http_parse_host_char(s, c) ==
  CASE s \in {"userinfo_start", "userinfo"} /\ c = "@" -> "host_start"
    [] s \in {"userinfo_start", "userinfo"} /\ c \in IS_USERINFO_CHAR -> "userinfo"
    [] s = "host_start" /\ c = "[" -> "host_v6_start"
    [] s \in {"host_start", "host"} /\ c \in IS_HOST_CHAR -> "host"
    [] s \in {"host", "host_v6_end"} /\ c = ":" -> "host_port_start"
    [] s \in {"host_v6", "host_v6_zone"} /\ c = "]" -> "host_v6_end"
    [] s \in {"host_v6_start", "host_v6"} /\ c \in IS_HEX \union {":", "."} -> "host_v6"
    [] s = "host_v6" /\ c = "%" -> "host_v6_zone_start"
    [] s \in {"host_v6_zone_start", "host_v6_zone"} /\ c \in IS_HOST_CHAR \union {"%", "_"} -> "host_v6_zone"
    [] s \in {"host_port_start", "host_port"} /\ c \in IS_NUM -> "host_port"
    [] OTHER -> "host_dead"

\* A field begins at the character at position i of the buffer.
Begin(u, f, i) ==
  [u EXCEPT !.field_set = @ \union {f}, !.off[f] = i % Range16, !.len[f] = 1]

\* A field has one more character.
Grow(u, f) == [u EXCEPT !.len[f] = (@ + 1) % Range16]

-----------------------------------------------------------------------------
(***************************************************************************)
(* http_parse_host: the authority that parse_url found as HOST is split    *)
(* into USERINFO, HOST and PORT.  h is [s, u]: state and object.           *)
(***************************************************************************)
\* Fault: the host is taken to begin where the authority does.
HostStep_NoOff(h, i, c) ==
  LET n == http_parse_host_char(h.s, c)
      grow(f) == Grow(h.u, f)
  IN  [s |-> n,
       u |-> CASE h.s = "host_dead" -> h.u
               [] n \in {"host", "host_v6", "host_v6_zone_start", "host_v6_zone"} -> grow("HOST")
               [] n = "host_port" -> IF h.s # n THEN Begin(h.u, "PORT", i) ELSE grow("PORT")
               [] n = "userinfo" -> IF h.s # n THEN Begin(h.u, "USERINFO", i) ELSE grow("USERINFO")
               [] OTHER -> h.u]

HostStep(h, i, c) ==
  LET n == http_parse_host_char(h.s, c)
      grow(f) == Grow(h.u, f)
  IN  [s |-> n,
       u |-> CASE h.s = "host_dead" -> h.u
               [] n \in {"host", "host_v6"} /\ h.s # n ->
                    [grow("HOST") EXCEPT !.off["HOST"] = i % Range16]
               [] n \in {"host", "host_v6", "host_v6_zone_start", "host_v6_zone"} -> grow("HOST")
               [] n = "host_port" -> IF h.s # n THEN Begin(h.u, "PORT", i) ELSE grow("PORT")
               [] n = "userinfo" -> IF h.s # n THEN Begin(h.u, "USERINFO", i) ELSE grow("USERINFO")
               [] OTHER -> h.u]

HostEnd == \* states the authority may not end in
  {"host_dead", "host_start", "host_v6_start", "host_v6", "host_v6_zone_start",
   "host_v6_zone", "host_port_start", "userinfo", "userinfo_start"}

http_parse_host(u, buf, found_at) ==
  LET off == u.off["HOST"]
      Ended(h) == [u |-> h.u, err |-> h.s \in HostEnd]
  IN  Ended(FoldLeftDomain(LAMBDA x, i : HostStep(x, off + i - 1, buf[off + i]),
              [s |-> IF found_at THEN "userinfo_start" ELSE "host_start",
               u |-> [u EXCEPT !.len["HOST"] = 0]],
              SubSeq(buf, off + 1, off + u.len["HOST"])))

-----------------------------------------------------------------------------
(***************************************************************************)
(* http_parser_parse_url.  The value folded is [s, uf, at, u]: the state,  *)
(* the field of the last character, found_at and the object.               *)
(***************************************************************************)
FieldOf(s) ==
  CASE s = "schema" -> "SCHEMA"
    [] s \in {"server", "server_with_at"} -> "HOST"
    [] s = "path" -> "PATH"
    [] s = "query_string" -> "QUERY"
    [] s = "fragment" -> "FRAGMENT"
    [] OTHER -> "none"

UrlStep(x, i, c) ==
  LET s == parse_url_char(x.s, c)
      f == FieldOf(s)
  IN  CASE x.s = "dead" -> x
        [] f = "none" -> [x EXCEPT !.s = s]
        [] OTHER -> [s |-> s, uf |-> f, at |-> x.at \/ s = "server_with_at",
                     u |-> IF f = x.uf THEN Grow(x.u, f) ELSE Begin(x.u, f, i)]

\* The port, or a value above the largest.  It stops at the first overflow.
Port(u, buf, max) ==
  FoldLeft(LAMBDA v, c : IF v > max THEN v ELSE v * 10 + PortDigit(c, max), 0,
           SubSeq(buf, u.off["PORT"] + 1, u.off["PORT"] + u.len["PORT"]))

\* The port of a URL whose other fields have been found, or failed.
SetPort(r, buf, max) ==
  IF r.err \/ "PORT" \notin r.u.field_set
  THEN r
  ELSE LET Store(v) == IF v > max THEN [r EXCEPT !.err = TRUE] ELSE [r EXCEPT !.u.port = v]
       IN  Store(Port(r.u, buf, max))

\* The end of the loop: x is the value folded.
UrlEnd(x, buf, max) ==
  CASE x.s = "dead" -> [u |-> x.u, err |-> TRUE]
    [] "HOST" \in x.u.field_set -> SetPort(http_parse_host(x.u, buf, x.at), buf, max)
    [] OTHER -> [u |-> x.u, err |-> "SCHEMA" \in x.u.field_set]

http_parser_parse_url(u, buf, max) ==
  IF buf = <<>>
  THEN [u |-> u, err |-> TRUE]
  ELSE UrlEnd(FoldLeftDomain(LAMBDA x, i : UrlStep(x, i - 1, buf[i]),
                [s |-> "spaces_before_url", uf |-> "none", at |-> FALSE,
                 u |-> [u EXCEPT !.port = 0, !.field_set = {}]], buf),
              buf, max)

\* ParseUrl::parse: m_buff is set first, whatever the result.
parse(u, buf, max) == http_parser_parse_url([u EXCEPT !.m_buff = buf], buf, max)

\* The characters of a field: getPath, getParam.
View(u, f) == SubSeq(u.m_buff, u.off[f] + 1, u.off[f] + u.len[f])
haveParam(u) == "QUERY" \in u.field_set
=============================================================================
