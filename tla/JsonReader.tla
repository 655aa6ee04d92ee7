----------------------------- MODULE JsonReader -----------------------------
(***************************************************************************)
(* The JSON reader and writer (utils/JsonReader.cpp, the write methods of  *)
(* utils/Json.cpp).                                                        *)
(*                                                                         *)
(* A text is a sequence of lexemes [tok, val]: punctuation, "ws" (one      *)
(* character up to 32), "null", "true", "false", "-" (a sign or a point    *)
(* without digits), "int", "float", the quote "q" and any other character  *)
(* "chr"; "end" is the NUL behind it.  The reader looks at one character   *)
(* to decide, which is the lexeme's first, so two numbers side by side     *)
(* would be one lexeme and are never neighbours.  Between quotes every     *)
(* lexeme stands for its characters: a string is a sequence of lexemes.    *)
(* A document is [type, val], [type, items] or [type, maps].  A float's    *)
(* val counts half units of the last decimal that to_string keeps;         *)
(* INF stands for infinities and NaN, whose text is no lexeme of JSON, and *)
(* HUGE for a number of a text that is out of the range of int or float.   *)
(***************************************************************************)
EXTENDS Integers, Sequences, FiniteSets, SequencesExt

INF == -1

HUGE == -2

Lex(tok, val) == [tok |-> tok, val |-> val]

P(tok) == Lex(tok, 0)

Scalar(type, val) == [type |-> type, val |-> val]

----------------------------------------------------------------------------
\* JsonBuff: tok looks at p ("end" for the NUL), skip passes the white space.
tok(t, p) == IF p > Len(t) THEN "end" ELSE t[p].tok

skip(t, p) ==
  CHOOSE q \in p .. Len(t) + 1 :
    tok(t, q) # "ws" /\ \A r \in p .. q - 1 : tok(t, r) = "ws"

Result(ok, thrown, doc, p) == [ok |-> ok, thrown |-> thrown, doc |-> doc, p |-> p]

Fail(p) == Result(FALSE, FALSE, Scalar("null", 0), p)

Ok(doc, p) == Result(TRUE, FALSE, doc, p)

\* std::out_of_range leaves the reader, and what it has read so far is lost.
Throw(p) == Result(FALSE, TRUE, Scalar("null", 0), p)

\* A string lasts until the next quote; the empty one is refused (ps # p).
readStr(t, p) ==
  LET q == CHOOSE q \in p + 1 .. Len(t) + 1 :
             tok(t, q) \in {"q", "end"} /\ \A r \in p + 1 .. q - 1 : tok(t, r) \notin {"q", "end"}
  IN  IF tok(t, p) # "q" THEN Fail(p)
      ELSE IF tok(t, q) = "q" /\ q > p + 1
             THEN Ok(Scalar("string", SubSeq(t, p + 1, q - 1)), q + 1)
             ELSE Fail(q)

\* std::stoi and std::stof throw for a number out of range.  A sign that no
\* number follows is dropped before the string is tried.
readBase(t, p) ==
  CASE tok(t, p) = "null" -> Ok(Scalar("null", 0), p + 1)
    [] tok(t, p) = "false" -> Ok(Scalar("bool", 0), p + 1)
    [] tok(t, p) = "true" -> Ok(Scalar("bool", 1), p + 1)
    [] tok(t, p) \in {"int", "float"} ->
         IF t[p].val = HUGE THEN Throw(p + 1) ELSE Ok(Scalar(tok(t, p), t[p].val), p + 1)
    [] tok(t, p) = "-" -> readStr(t, p + 1)
    [] OTHER -> readStr(t, p)

RECURSIVE reader(_, _), readArray(_, _), items(_, _, _), readObj(_, _), members(_, _, _)

reader(t, p0) ==
  LET p == skip(t, p0)
  IN  CASE tok(t, p) = "[" -> readArray(t, p + 1)
        [] tok(t, p) = "{" -> readObj(t, p + 1)
        [] OTHER -> readBase(t, p)

\* The loop of readArray from parser_pos on, objs read so far: a comma means
\* another value, and so does anything that is not the closing bracket.
items(t, p0, objs) ==
  LET r == reader(t, p0)
      p == skip(t, r.p)
      all == Append(objs, r.doc)
  IN  IF ~r.ok THEN r
      ELSE CASE tok(t, p) = "," -> items(t, p + 1, all)
             [] tok(t, p) = "]" -> Ok([type |-> "array", items |-> all], p + 1)
             [] tok(t, p) = "end" -> Fail(p)
             [] OTHER -> items(t, p, all)

readArray(t, p) ==
  CASE tok(t, p) = "]" -> Ok([type |-> "array", items |-> << >>], p + 1)
    [] tok(t, p) = "end" -> Fail(p)
    [] OTHER -> items(t, p, << >>)

\* The same for readObj, with objs the members read so far; the colon follows
\* the key directly, and a key read twice replaces the first value.
members(t, p0, objs) ==
  LET k == readStr(t, skip(t, p0))
      r == reader(t, k.p + 1)
      p == skip(t, r.p)
      all == (k.doc.val :> r.doc) @@ objs
  IN  IF ~k.ok THEN k
      ELSE IF tok(t, k.p) # ":" THEN Fail(k.p)
      ELSE IF ~r.ok THEN r
      ELSE CASE tok(t, p) = "," -> members(t, p + 1, all)
             [] tok(t, p) = "}" -> Ok([type |-> "obj", maps |-> all], p + 1)
             [] tok(t, p) = "end" -> Fail(p)
             [] OTHER -> members(t, p, all)

readObj(t, p) ==
  CASE tok(t, p) = "}" -> Ok([type |-> "obj", maps |-> [k \in {} |-> 0]], p + 1)
    [] tok(t, p) = "end" -> Fail(p)
    [] OTHER -> members(t, p, [k \in {} |-> 0])

\* parser: a text with more than white space behind the document is refused.
parser(t) ==
  LET r == reader(t, 1)
      p == skip(t, r.p)
  IN  CASE r.thrown -> r
        [] r.ok /\ tok(t, p) # "end" -> Fail(p)
        [] OTHER -> [r EXCEPT !.p = p]

----------------------------------------------------------------------------
\* A string is put between quotes as it is, whatever it holds.
Quoted(string) == <<P("q")>> \o string \o <<P("q")>>

\* to_string of a float keeps six decimals.
writeScalar(d) ==
  CASE d.type = "int" -> <<Lex("int", d.val)>>
    [] d.type = "float" -> IF d.val = INF THEN <<P("chr")>> ELSE <<Lex("float", d.val - (d.val % 2))>>
    [] d.type = "bool" -> IF d.val = 1 THEN <<P("true")>> ELSE <<P("false")>>
    [] d.type = "null" -> <<P("null")>>
    [] d.type = "string" -> Quoted(d.val)

\* The new line, or the tabs, that layout adds.
Gap(layout) == IF layout THEN <<P("ws")>> ELSE << >>

Tabs(layout, depth) == IF layout THEN [k \in 1..depth |-> P("ws")] ELSE << >>

\* The members in brackets, each but the last with a comma behind it.
Bracket(open, parts, close, layout, depth) ==
  <<P(open)>> \o Gap(layout)
  \o FlattenSeq([k \in 1..Len(parts) |->
       Tabs(layout, depth + 1) \o parts[k]
       \o (IF k < Len(parts) THEN <<P(",")>> ELSE << >>) \o Gap(layout)])
  \o Tabs(layout, depth) \o <<P(close)>>

RECURSIVE write(_, _, _)

\* std::map gives the members in some order of their keys.
write(d, layout, depth) ==
  CASE d.type = "array" ->
         Bracket("[", [k \in 1..Len(d.items) |-> write(d.items[k], layout, depth + 1)],
                 "]", layout, depth)
    [] d.type = "obj" ->
         LET keys == SetToSeq(DOMAIN d.maps)
         IN  Bracket("{", [k \in 1..Len(keys) |->
                             Quoted(keys[k]) \o <<P(":")>>
                             \o write(d.maps[keys[k]], layout, depth + 1)],
                     "}", layout, depth)
    [] OTHER -> writeScalar(d)

----------------------------------------------------------------------------
\* The language the reader accepts, stated without a reader: every part is a
\* stretch s of lexemes.  Commas may be missing, a container is empty only
\* without white space, keys touch their colon, strings are not empty and
\* hold no quote, a sign may stand before a string, and numbers are in range.
Blank(s) == \A k \in 1..Len(s) : s[k].tok = "ws"

IsStr(s) ==
  /\ Len(s) >= 3 /\ s[1].tok = "q" /\ s[Len(s)].tok = "q"
  /\ \A k \in 2 .. Len(s) - 1 : s[k].tok # "q"

IsScalar(s) ==
  \/ Len(s) = 1 /\ s[1].tok \in {"null", "true", "false", "int", "float"} /\ s[1].val # HUGE
  \/ IsStr(s)
  \/ Len(s) >= 2 /\ s[1].tok = "-" /\ IsStr(Tail(s))

From(s, k) == SubSeq(s, k, Len(s))

RECURSIVE IsValue(_), IsList(_, _), IsMember(_)

IsMember(s) ==
  \E k \in 0 .. Len(s), c \in 1 .. Len(s) - 1 :
    /\ Blank(SubSeq(s, 1, k)) /\ IsStr(SubSeq(s, k + 1, c - 1))
    /\ s[c].tok = ":" /\ IsValue(From(s, c + 1))

\* One or more parts, white space and at most one comma between two.
IsList(s, obj) ==
  LET IsPart(x) == IF obj THEN IsMember(x) ELSE IsValue(x)
  IN  \E k \in 1..Len(s) :
        /\ IsPart(SubSeq(s, 1, k))
        /\ \/ Blank(From(s, k + 1))
           \/ IsList(From(s, k + 1), obj)
           \/ \E c \in k + 1 .. Len(s) - 1 :
                Blank(SubSeq(s, k + 1, c - 1)) /\ s[c].tok = "," /\ IsList(From(s, c + 1), obj)

IsValue(s0) ==
  \E k \in 0..Len(s0) :
    LET s == From(s0, k + 1)
        inner == SubSeq(s, 2, Len(s) - 1)
    IN  /\ Blank(SubSeq(s0, 1, k))
        /\ \/ IsScalar(s)
           \/ /\ Len(s) >= 2
              /\ \/ s[1].tok = "[" /\ s[Len(s)].tok = "]" /\ (inner = << >> \/ IsList(inner, FALSE))
                 \/ s[1].tok = "{" /\ s[Len(s)].tok = "}" /\ (inner = << >> \/ IsList(inner, TRUE))

IsText(s) == \E k \in 1..Len(s) : IsValue(SubSeq(s, 1, k)) /\ Blank(From(s, k + 1))
=============================================================================
