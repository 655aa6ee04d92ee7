----------------------------- MODULE ProtoCodec -----------------------------
(***************************************************************************)
(* Protolua's encoder and decoder between Lua values and protobuf messages *)
(* (protolua/encoder.cpp, decoder.cpp), for Lua 5.3.                       *)
(*                                                                         *)
(* A Lua value is [t, v, f]: nil, num (an integer), str (v naming it, no   *)
(* numeral), bool (0, 1), or tab, whose f is a function from keys; a key   *)
(* is itself a Lua value, a field's name a str.  A descriptor is the       *)
(* sequence of its fields in declaration order, [name, number, label,      *)
(* kind, of], where of names the message or map entry type.  A message is  *)
(* a function from the numbers of the fields that are set.  Integers of    *)
(* the 32 and the 64 bit kinds have W32 and W64 bits.                      *)
(***************************************************************************)
EXTENDS Integers, Sequences, FiniteSetsExt, SequencesExt

CONSTANTS
  Descriptors,   \* message name -> its fields
  Top,           \* the message the script encodes
  Inputs,        \* field name -> the Lua values the script may put there
  W32, W64       \* the widths of the integers

ASSUME CodecAssumption == 0 < W32 /\ W32 < W64 /\ Top \in DOMAIN Descriptors

VARIABLES
  call,          \* what the script last called
  arg,           \* and with which values, field name -> Lua value
  wire,          \* the bytes it got, as the message they stand for
  returned       \* what came back from decoding them

codecVars == <<call, arg, wire, returned>>

NoEntries == [k \in {} |-> 0]

Lua(t, v) == [t |-> t, v |-> v, f |-> NoEntries]

Nil == Lua("nil", 0)

Table(f) == [t |-> "tab", v |-> 0, f |-> f]

EmptyTable == Table(NoEntries)

Name(field) == Lua("str", field.name)

\* lua_getfield, lua_geti: an absent key reads as nil.
Get(tab, key) == IF key \in DOMAIN tab.f THEN tab.f[key] ELSE Nil

\* luaL_len of a table that is a sequence.
Length(tab) == Cardinality({k \in DOMAIN tab.f : k.t = "num"})

\* A call's outcome: ok with what it made; false; or a Lua error, raised.
Done(x) == [out |-> "ok", val |-> x]

False == [out |-> "false"]

LuaError == [out |-> "error"]

----------------------------------------------------------------------------
Unsigned(n, w) == n % (2^w)

Signed(n, w) ==
  LET u == Unsigned(n, w) IN IF u >= 2^(w - 1) THEN u - 2^w ELSE u

lua_tointeger(x) == IF x.t = "num" THEN x.v ELSE 0

\* A float has fewer digits than a Lua integer.
ToFloat(n) == IF n \in -(2^W32) .. 2^W32 THEN n ELSE n - (n % 2)

EmptyStr == 0

\* lua_tolstring: a number turns into its numeral, also in the Lua stack.
Numeral(n) == 1000 + n

lua_tolstring(x) ==
  CASE x.t = "str" -> x.v
    [] x.t = "num" -> Numeral(x.v)
    [] OTHER -> EmptyStr

lua_toboolean(x) == IF x.t = "nil" \/ (x.t = "bool" /\ x.v = 0) THEN 0 ELSE 1

\* The kinds of encode_single and encode_multiple but for messages.
toField(kind, x) ==
  CASE kind = "double" -> lua_tointeger(x)
    [] kind = "float" -> ToFloat(lua_tointeger(x))
    [] kind \in {"int32", "enum"} -> Signed(lua_tointeger(x), W32)
    [] kind = "uint32" -> Unsigned(lua_tointeger(x), W32)
    [] kind = "int64" -> Signed(lua_tointeger(x), W64)
    [] kind = "uint64" -> Unsigned(lua_tointeger(x), W64)
    [] kind = "bool" -> lua_toboolean(x)
    [] kind = "string" -> lua_tolstring(x)

\* The kinds of decode_single and decode_multiple: a uint64 is pushed as a
\* Lua integer, which is signed.
fromField(kind, n) ==
  CASE kind = "bool" -> Lua("bool", n)
    [] kind = "string" -> Lua("str", n)
    [] kind = "uint64" -> Lua("num", Signed(n, W64))
    [] OTHER -> Lua("num", n)

----------------------------------------------------------------------------
\* Goes through xs until one step fails; the steps return messages.
InOrder(Step(_, _), start, xs) ==
  FoldLeft(LAMBDA acc, x : IF acc.out = "ok" THEN Step(acc.val, x) ELSE acc, Done(start), xs)

Set(msg, number, x) == (number :> x) @@ msg

\* A repeated field's elements so far.
Elements(msg, number) == IF number \in DOMAIN msg THEN msg[number] ELSE << >>

NoFields == [n \in {} |-> 0]

RECURSIVE encode_field(_, _, _), encode_message(_, _, _)

\* What encode_single and encode_multiple store for one Lua value.
encode_value(field, x) ==
  IF field.kind = "message" THEN encode_message(NoFields, field.of, x)
  ELSE Done(toField(field.kind, x))

encode_single(msg, field, x) ==
  LET r == encode_value(field, x)
  IN  IF r.out = "ok" THEN Done(Set(msg, field.number, r.val)) ELSE r

encode_multiple(msg, field, x) ==
  LET r == encode_value(field, x)
  IN  IF r.out = "ok"
        THEN Done(Set(msg, field.number, Append(Elements(msg, field.number), r.val)))
        ELSE r

encode_repeated(msg, field, x) ==
  IF x.t # "tab" THEN False
  ELSE InOrder(LAMBDA m, k : encode_multiple(m, field, Get(x, Lua("num", k))),
               msg, [k \in 1..Length(x) |-> k])

\* encode_table: one entry message for each pair lua_next gives.  A numeric
\* key of a string field is turned into a string on the stack, and lua_next
\* does not know it when it is called again.
encode_table(msg, field, x) ==
  LET key == Descriptors[field.of][1]
      value == Descriptors[field.of][2]
      entry(m, k) ==
        LET e == InOrder(LAMBDA e0, s : encode_field(e0, s[1], s[2]),
                         NoFields, <<<<key, k>>, <<value, x.f[k]>>>>)
        IN  IF e.out # "ok" THEN e
            ELSE IF key.kind = "string" /\ k.t = "num" THEN LuaError
            ELSE Done(Set(m, field.number, Append(Elements(m, field.number), e.val)))
  IN  IF x.t # "tab" THEN False
      ELSE InOrder(entry, msg, SetToSeq(DOMAIN x.f))

\* encode_required and encode_optional leave a nil out, and so do the others.
encode_field(msg, field, x) ==
  CASE x.t = "nil" -> Done(msg)
    [] x.t # "nil" /\ field.label = "map" -> encode_table(msg, field, x)
    [] x.t # "nil" /\ field.label \in {"required", "optional"} -> encode_single(msg, field, x)
    [] x.t # "nil" /\ field.label = "repeated" -> encode_repeated(msg, field, x)

encode_message(msg, type, x) ==
  IF x.t # "tab" THEN False
  ELSE InOrder(LAMBDA m, field : encode_field(m, field, Get(x, Name(field))),
               msg, Descriptors[type])

SortFieldsByNumber(type) == SortSeq(Descriptors[type], LAMBDA f, g : f.number < g.number)

\* proto_pack: the arguments in the order of the field numbers.
encode_pack(type, xs) ==
  LET fields == SortFieldsByNumber(type)
  IN  InOrder(LAMBDA m, k : encode_field(m, fields[k], xs[k]), NoFields,
              [k \in 1..Min({Len(fields), Len(xs)}) |-> k])

----------------------------------------------------------------------------
\* Protobuf's ParseFromArray (external) refuses a message, or one inside it,
\* that lacks a required field; serializing does not (a release build).
RECURSIVE IsInitialized(_, _)

IsInitialized(msg, type) ==
  \A k \in 1..Len(Descriptors[type]) :
    LET field == Descriptors[type][k]
        set == field.number \in DOMAIN msg
    IN  /\ field.label = "required" => set
        /\ set /\ field.kind = "message" =>
             IF field.label \in {"repeated", "map"}
               THEN \A j \in 1..Len(msg[field.number]) : IsInitialized(msg[field.number][j], field.of)
               ELSE IsInitialized(msg[field.number], field.of)

RECURSIVE decode_message(_, _), decode_field(_, _), decode_create(_)

\* A field that is not set reads as its default.
decode_single(msg, field) ==
  LET set == field.number \in DOMAIN msg
  IN  IF field.kind = "message"
        THEN decode_message(IF set THEN msg[field.number] ELSE NoFields, field.of)
        ELSE fromField(field.kind, IF set THEN msg[field.number] ELSE 0)

decode_multiple(field, x) ==
  IF field.kind = "message" THEN decode_message(x, field.of) ELSE fromField(field.kind, x)

decode_optional(msg, field) ==
  IF field.kind = "message" /\ field.number \notin DOMAIN msg THEN Nil
  ELSE decode_single(msg, field)

decode_repeated(msg, field) ==
  LET xs == Elements(msg, field.number)
  IN  Table([key \in {Lua("num", k) : k \in 1..Len(xs)} |-> decode_multiple(field, xs[key.v])])

\* lua_settable drops a nil: a table has no such key.
Tabulate(pairs) == Table([k \in {p[1] : p \in {q \in pairs : q[2] # Nil}} |->
                            (CHOOSE p \in pairs : p[1] = k /\ p[2] # Nil)[2]])

decode_table(msg, field) ==
  LET key == Descriptors[field.of][1]
      value == Descriptors[field.of][2]
      entries == ToSet(Elements(msg, field.number))
  IN  Tabulate({<<decode_field(e, key), decode_field(e, value)>> : e \in entries})

decode_field(msg, field) ==
  CASE field.label = "map" -> decode_table(msg, field)
    [] field.label = "required" -> decode_single(msg, field)
    [] field.label = "optional" -> decode_optional(msg, field)
    [] field.label = "repeated" -> decode_repeated(msg, field)

decode_message(msg, type) ==
  Tabulate({<<Name(field), decode_field(msg, field)>> : field \in ToSet(Descriptors[type])})

\* proto_create: empty tables, messages all the way down, defaults.
decode_create(type) ==
  Tabulate({<<Name(field),
              IF field.label \in {"map", "repeated"} THEN EmptyTable
              ELSE IF field.kind = "message" THEN decode_create(field.of)
              ELSE decode_single(NoFields, field)>> : field \in ToSet(Descriptors[type])})

----------------------------------------------------------------------------
CodecInit ==
  /\ call = "none"
  /\ arg = [n \in {} |-> Nil]
  /\ wire = False
  /\ returned = False

\* The script puts a value, or none, under the next name.
give ==
  LET left == DOMAIN Inputs \ DOMAIN arg
  IN  /\ left # {}
      /\ \E x \in Inputs[Min(left)] : arg' = (Min(left) :> x) @@ arg
      /\ UNCHANGED <<call, wire, returned>>

Ready == call = "none" /\ DOMAIN arg = DOMAIN Inputs

ArgTable == Table([k \in {Lua("str", n) : n \in {m \in DOMAIN arg : arg[m] # Nil}} |-> arg[k.v]])

\* proto.encode("Top", { .. })
encode ==
  /\ Ready
  /\ call' = "encode"
  /\ wire' = encode_message(NoFields, Top, ArgTable)
  /\ UNCHANGED <<arg, returned>>

\* proto.pack("Top", ..): every argument at its number's place.
pack ==
  LET fields == SortFieldsByNumber(Top)
  IN  /\ Ready
      /\ call' = "pack"
      /\ wire' = encode_pack(Top, [k \in 1..Len(fields) |-> arg[fields[k].name]])
      /\ UNCHANGED <<arg, returned>>

\* proto.create("Top")
create ==
  /\ Ready
  /\ call' = "create"
  /\ returned' = Done(decode_create(Top))
  /\ UNCHANGED <<arg, wire>>

\* proto.decode("Top", data) of what encode returned.
decode ==
  /\ call = "encode" /\ wire.out = "ok"
  /\ call' = "decode"
  /\ returned' = IF IsInitialized(wire.val, Top) THEN Done(decode_message(wire.val, Top)) ELSE False
  /\ UNCHANGED <<arg, wire>>

\* proto.unpack("Top", data) of what pack returned: one result per field.
unpack ==
  LET fields == SortFieldsByNumber(Top)
  IN  /\ call = "pack" /\ wire.out = "ok"
      /\ call' = "unpack"
      /\ returned' = IF IsInitialized(wire.val, Top)
                     THEN Done([k \in 1..Len(fields) |-> decode_field(wire.val, fields[k])])
                     ELSE False
      /\ UNCHANGED <<arg, wire>>

CodecNext == give \/ encode \/ pack \/ create \/ decode \/ unpack

CodecSpec == CodecInit /\ [][CodecNext]_codecVars

----------------------------------------------------------------------------
RECURSIVE Fits(_, _), Filled(_, _)

\* The value has the Lua type of the field and is in its range; the value of
\* a field that is left out is Nil.
FitsOne(field, x) ==
  CASE field.kind = "message" -> x.t = "tab" /\
         \A f \in ToSet(Descriptors[field.of]) :
           /\ f.label = "required" => Get(x, Name(f)) # Nil
           /\ Fits(f, Get(x, Name(f)))
    [] field.kind = "bool" -> x.t = "bool"
    [] field.kind = "string" -> x.t = "str"
    [] field.kind \in {"int32", "enum"} -> x.t = "num" /\ x.v \in -(2^(W32 - 1)) .. 2^(W32 - 1) - 1
    [] field.kind = "uint32" -> x.t = "num" /\ x.v \in 0 .. 2^W32 - 1
    [] field.kind = "float" -> x.t = "num" /\ x.v \in -(2^W32) .. 2^W32
    [] OTHER -> x.t = "num" /\ x.v \in -(2^(W64 - 1)) .. 2^(W64 - 1) - 1

Fits(field, x) ==
  \/ x = Nil
  \/ field.label \in {"required", "optional"} /\ FitsOne(field, x)
  \/ field.label = "repeated" /\ x.t = "tab" /\ \A k \in DOMAIN x.f : FitsOne(field, x.f[k])
  \/ /\ field.label = "map" /\ x.t = "tab"
     /\ \A k \in DOMAIN x.f : /\ Fits(Descriptors[field.of][1], k)
                              /\ Fits(Descriptors[field.of][2], x.f[k])

\* The value with what is left out filled in: the default of a scalar, no
\* element, and nothing for an optional message.
FilledOne(field, x) ==
  IF field.kind = "message"
    THEN Tabulate({<<Name(f), Filled(f, Get(x, Name(f)))>> : f \in ToSet(Descriptors[field.of])})
    ELSE x

Filled(field, x) ==
  CASE x = Nil ->
         (CASE field.label \in {"repeated", "map"} -> EmptyTable
            [] field.kind = "message" -> Nil
            [] field.kind = "bool" -> Lua("bool", 0)
            [] field.kind = "string" -> Lua("str", EmptyStr)
            [] OTHER -> Lua("num", 0))
    [] x # Nil /\ field.label = "repeated" -> Table([k \in DOMAIN x.f |-> FilledOne(field, x.f[k])])
    [] x # Nil /\ field.label = "map" ->
         Table([k \in DOMAIN x.f |-> Filled(Descriptors[field.of][2], x.f[k])])
    [] OTHER -> FilledOne(field, x)

TopFields == ToSet(Descriptors[Top])

Complete == \A f \in TopFields : f.label = "required" => arg[f.name] # Nil

WellTyped == \A f \in TopFields : Fits(f, arg[f.name])

\* Values of the fields' types come back as they were, with what was left out
\* filled in, whether by name or by position; a message without a required
\* field is encoded and then refused by the reader.
RoundTrip ==
  /\ call \in {"encode", "pack"} /\ WellTyped => wire.out = "ok"
  /\ call = "decode" /\ WellTyped =>
       returned = IF Complete
                  THEN Done(Tabulate({<<Name(f), Filled(f, arg[f.name])>> : f \in TopFields}))
                  ELSE False
  /\ call = "unpack" /\ WellTyped =>
       IF Complete
         THEN LET fields == SortFieldsByNumber(Top)
              IN  returned = Done([k \in 1..Len(fields) |-> Filled(fields[k], arg[fields[k].name])])
         ELSE returned = False

\* An integer that does not fit comes back changed by a multiple of 2^W32.
IntegersWrap ==
  call = "decode" /\ returned.out = "ok" =>
    \A f \in TopFields :
      f.label \in {"required", "optional"} /\ f.kind \in {"int32", "uint32"} /\ arg[f.name].t = "num" =>
        (Get(returned.val, Name(f)).v - arg[f.name].v) % (2^W32) = 0

\* What create returns can be encoded as it is and comes back as it was, but
\* for the messages it fills in.
CreateEncodes ==
  call = "create" => encode_message(NoFields, Top, returned.val).out = "ok"

CodecSound == RoundTrip /\ IntegersWrap /\ CreateEncodes
=============================================================================
