------------------------------- MODULE MCData -------------------------------
(***************************************************************************)
(* JSON, protolua, prepared statements and the Redis client, each in       *)
(* behaviours of its own: part says which one a behaviour is about.        *)
(***************************************************************************)
EXTENDS Json, ProtoRegistry, SqlStatement, RedisClient

VARIABLE part

vars == <<jsonVars, codecVars, registryVars, sqlVars, redisVars, part>>

\* Lexemes, among them a number out of range, a quote and a letter.
MCAlphabet ==
  {P(c) : c \in {"[", "]", "{", "}", ",", ":", "ws", "-", "q", "chr"}}
    \cup {Lex("int", 1), Lex("int", HUGE)}

Letter == P("chr")

Quote == P("q")

\* Strings: an empty one and one that reads as two; numbers, one of them not
\* finite.  Keys: a letter, and one that reads as a member and a key.
MCScalars ==
  {Scalar("string", << >>), Scalar("string", <<Letter, Quote, P(","), Quote, Letter>>),
   Scalar("float", 3), Scalar("float", INF)}

MCKeys == {<<Letter>>, <<Letter, Quote, P(":"), Lex("int", 1), P(","), Quote, P("ws")>>}

Field(name, number, label, kind, of) ==
  [name |-> name, number |-> number, label |-> label, kind |-> kind, of |-> of]

\* A message with a field of every label, messages in messages and a map.
MCDescriptors ==
  [Person |-> <<Field(11, 2, "required", "int32", "-"), Field(12, 1, "optional", "string", "-"),
                Field(13, 4, "repeated", "uint32", "-"), Field(14, 3, "optional", "message", "Phone"),
                Field(15, 5, "map", "message", "Entry"), Field(16, 6, "optional", "uint64", "-")>>,
   Phone |-> <<Field(12, 1, "required", "bool", "-"), Field(13, 2, "repeated", "message", "Item")>>,
   Item |-> <<Field(11, 1, "optional", "float", "-")>>,
   Entry |-> <<Field(1, 1, "optional", "string", "-"), Field(2, 2, "optional", "message", "Item")>>]

Num(v) == Lua("num", v)

Str(v) == Lua("str", v)

\* For every field of Person: absent, right, out of range and of another type.
MCInputs ==
  11 :> {Nil, Num(-2), Num(5), Str(7)} @@
  12 :> {Nil, Str(7), Num(3)} @@
  13 :> {Nil, EmptyTable, Table(Num(1) :> Num(1) @@ Num(2) :> Num(7)), Num(1)} @@
  14 :> {Nil, EmptyTable, Table(Str(12) :> Lua("bool", 1)),
         Table(Str(12) :> Lua("bool", 1)
               @@ Str(13) :> Table(Num(1) :> Table(Str(11) :> Num(3)) @@ Num(2) :> EmptyTable))} @@
  15 :> {Nil, Table(Str(7) :> EmptyTable @@ Str(8) :> Table(Str(11) :> Num(2))),
         Table(Num(7) :> EmptyTable), Table(Str(7) :> Num(1))} @@
  16 :> {Nil, Num(-3), Num(9)}

\* The first file imports the second; what an edit may leave in a file.
MCImports == << <<2>>, << >> >>

MCContents ==
  {[ok |-> TRUE, enums |-> (1 :> 1)], [ok |-> TRUE, enums |-> (1 :> 2) @@ (2 :> 1)],
   [ok |-> FALSE, enums |-> (1 :> 1)]}

\* A parameter of a fixed length and a longer one; an empty answer, one of two rows
\* with a NULL and a truncated column, and one of a type without a buffer.
MCParams ==
  {[id |-> 1, len |-> 4, fixed |-> TRUE], [id |-> 2, len |-> 5, fixed |-> FALSE]}

Column(id, len, null, cap) == [id |-> id, len |-> len, null |-> null, cap |-> cap]

MCAnswers ==
  {<< >>, << <<Column(6, 1, FALSE, 0)>> >>,
          << <<Column(3, 4, FALSE, 6), Column(0, 0, TRUE, 1)>>,
             <<Column(4, 6, FALSE, 6), Column(5, 3, FALSE, 1)>> >>}

\* Commands: plain, with blanks and percent signs, with a conversion; parameters
\* with a NUL and a blank among their bytes; replies: strings, a number, an array
\* with a nil.
MCCommands ==
  {<<3>>, <<3, SPACE, SPACE, 4, PERCENT, PERCENT, 5, PERCENT>>, <<3, SPACE, PERCENT, 4>>}

MCWords == {<<3>>, <<4, NUL, SPACE>>}

MCReplies ==
  {[kind |-> "string", str |-> <<4, SPACE, 5>>, elements |-> << >>],
   [kind |-> "int", str |-> << >>, elements |-> << >>],
   [kind |-> "array", str |-> << >>, elements |-> << <<SPACE, 5>>, <<6>>, NilStr>>]}

\* Where a part has a choice at the start, the behaviours of the others take one.
Init ==
  /\ JsonInit /\ CodecInit /\ RegistryInit /\ SqlInit /\ RedisInit
  /\ part \in {"json", "codec", "registry", "sql", "redis"}
  /\ part # "json" => heap[Root].type = "array"
  /\ part # "redis" => m_param = << <<3>> >>
  /\ \A f \in File : disk[f].ok /\ 2 \notin DOMAIN disk[f].enums

Next ==
  \/ part = "json" /\ JsonNext /\ UNCHANGED <<codecVars, registryVars, sqlVars, redisVars, part>>
  \/ part = "codec" /\ CodecNext /\ UNCHANGED <<jsonVars, registryVars, sqlVars, redisVars, part>>
  \/ part = "registry" /\ RegistryNext /\ UNCHANGED <<jsonVars, codecVars, sqlVars, redisVars, part>>
  \/ part = "sql" /\ SqlNext /\ UNCHANGED <<jsonVars, codecVars, registryVars, redisVars, part>>
  \/ part = "redis" /\ RedisNext /\ UNCHANGED <<jsonVars, codecVars, registryVars, sqlVars, part>>

Spec == Init /\ [][Next]_vars

=============================================================================
